------------------------------- MODULE Ledger -------------------------------
(***************************************************************************)
(* The books of nexus_erpnext_accounting: journal entries, the GL rows     *)
(* that submitting one writes, and payments, which submit an entry of      *)
(* their own.  A button whose handler raises changes nothing; handlers     *)
(* that always raise are written out as such.                              *)
(***************************************************************************)
EXTENDS Integers, Sequences, SequencesExt

CONSTANTS MaxEntries, MaxPayments,  \* bounds: records made
          MaxLines                  \* bound: lines of an entry made by hand

VARIABLES
    entry,      \* nexus.journal.entry, by id
    gl,         \* nexus.gl.entry, in the order of their ids
    payment,    \* nexus.payment.entry, by id
    closed      \* is the fiscal year closed?

ledgerVars == <<entry, gl, payment, closed>>

\* A line's debit less its credit.
Amounts == {-1, 0, 1}
LinesOfAnEntry == UNION {[1 .. n -> Amounts] : n \in 0 .. MaxLines}

\* usable: no line is on a group account or a disabled one.
Entry == [lines : Seq(Amounts), usable : BOOLEAN,
          state : {"draft", "submitted", "cancelled", "deleted"}]

Payment == [type : {"receive", "pay", "internal"}, paid : {0, 1}, received : {0, 1},
            allocated : {0, 1}, state : {"draft", "submitted", "cancelled"},
            entry : Nat]

NoEntry == 0
New == 0        \* the name "New" of a GL row, that has no number in it

GlRow == [no : Nat, entry : Nat, amount : Amounts]

LedgerTypeOK ==
    /\ entry \in Seq(Entry) /\ Len(entry) <= MaxEntries
    /\ gl \in Seq(GlRow)
    /\ payment \in Seq(Payment) /\ Len(payment) <= MaxPayments
    /\ closed \in BOOLEAN

LedgerInit == entry = <<>> /\ gl = <<>> /\ payment = <<>> /\ closed = FALSE

-----------------------------------------------------------------------------
(* Posting.                                                                 *)

\* One more than the number of the last row, or 1.
NextGlNumber(rows) ==
    IF rows = <<>> \/ Last(rows).no = New THEN 1 ELSE Last(rows).no + 1

\* The number is looked up when the row is there already, as the last one.
CreateGlRow(rows, row) ==
    LET with == Append(rows, row)
    IN  [with EXCEPT ![Len(with)].no = NextGlNumber(with)]

WithGlRows(rows, e, lines) ==
    FoldLeft(CreateGlRow, rows,
             [i \in DOMAIN lines |-> [no |-> New, entry |-> e, amount |-> lines[i]]])

NumbersUnique(rows) ==
    \A i, j \in DOMAIN rows : rows[i].no = rows[j].no => i = j

ValidForPosting(d) ==
    /\ d.lines # <<>>
    /\ FoldLeft(+, 0, d.lines) = 0
    /\ d.usable

\* action_submit of an entry d with id e, given the entries as they are.
Post(e, d, entries) ==
    /\ d.state = "draft"
    /\ ValidForPosting(d)
    /\ ~closed
    /\ gl' = WithGlRows(gl, e, d.lines)
    /\ NumbersUnique(gl')
    /\ entry' = [entries EXCEPT ![e].state = "submitted"]

-----------------------------------------------------------------------------
(* Journal entries.                                                         *)

Draft(lines, usable) == [lines |-> lines, usable |-> usable, state |-> "draft"]

CreateEntry(lines, usable) ==
    /\ Len(entry) < MaxEntries
    /\ entry' = Append(entry, Draft(lines, usable))
    /\ UNCHANGED <<gl, payment, closed>>

\* Nothing stops an edit of the lines of an entry, submitted or not.
EditEntry(e, lines) ==
    /\ entry[e].state # "deleted"
    /\ entry' = [entry EXCEPT ![e].lines = lines]
    /\ UNCHANGED <<gl, payment, closed>>

SubmitEntry(e) ==
    /\ Post(e, entry[e], entry)
    /\ UNCHANGED <<payment, closed>>

\* The rows of an entry go with it.
DeleteEntry(e) ==
    /\ entry[e].state # "deleted"
    /\ entry' = [entry EXCEPT ![e].state = "deleted"]
    /\ gl' = SelectSeq(gl, LAMBDA r : r.entry # e)
    /\ payment' = [p \in DOMAIN payment |->
                      [payment[p] EXCEPT !.entry = IF @ = e THEN NoEntry ELSE @]]
    /\ UNCHANGED closed

\* Always raises: action_cancel reads gl_entry_ids of the lines, which have
\* no such field; action_reverse copies the entry without a name, which is
\* required.  So no entry is ever cancelled, nor set back to draft.
CancelEntry(e) == entry[e].state = "submitted" /\ UNCHANGED ledgerVars
ReverseEntry(e) == entry[e].state = "submitted" /\ UNCHANGED ledgerVars

SetDraft(e) ==
    /\ entry[e].state = "cancelled"
    /\ entry' = [entry EXCEPT ![e].state = "draft"]
    /\ UNCHANGED <<gl, payment, closed>>

\* A blank draft dated at the start of the year.
CreateOpeningEntry == ~closed /\ CreateEntry(<<>>, TRUE)

ToggleYearClosed ==
    /\ closed' = ~closed
    /\ UNCHANGED <<entry, gl, payment>>

-----------------------------------------------------------------------------
(* Payments.                                                                *)

CreatePayment ==
    /\ Len(payment) < MaxPayments
    /\ \E p \in [type : {"receive", "pay", "internal"}, paid : {0, 1},
                 received : {0, 1}, allocated : {0, 1},
                 state : {"draft"}, entry : {NoEntry}] :
          payment' = Append(payment, p)
    /\ UNCHANGED <<entry, gl, closed>>

ValidPayment(p) ==
    /\ p.paid > 0 \/ p.received > 0
    /\ p.received = p.allocated

\* The cash, what is allocated to references, and the rest as an advance.
PaymentLines(p) ==
    LET party(sum) == SelectSeq(<<p.allocated, sum - p.allocated>>, LAMBDA a : a # 0)
    IN  CASE p.type = "receive" ->
               <<p.received>> \o [i \in DOMAIN party(p.received) |-> -party(p.received)[i]]
          [] p.type = "pay" -> <<-p.paid>> \o party(p.paid)
          [] p.type = "internal" -> <<-p.paid, p.paid>>

\* The entry made earlier is reused.
SubmitPayment(n) ==
    LET p == payment[n]
    IN  /\ p.state = "draft" /\ ValidPayment(p)
        /\ IF p.entry # NoEntry
           THEN /\ payment' = [payment EXCEPT ![n].state = "submitted"]
                /\ UNCHANGED <<entry, gl>>
           ELSE /\ Len(entry) < MaxEntries
                /\ LET d == Draft(PaymentLines(p), TRUE)
                   IN  Post(Len(entry) + 1, d, Append(entry, d))
                /\ payment' = [payment EXCEPT ![n].state = "submitted",
                                              ![n].entry = Len(entry) + 1]
        /\ UNCHANGED closed

\* A payment whose entry is still there cannot be cancelled, as the entry
\* cannot.
CancelPayment(n) ==
    /\ payment[n].state = "submitted" /\ payment[n].entry = NoEntry
    /\ payment' = [payment EXCEPT ![n].state = "cancelled"]
    /\ UNCHANGED <<entry, gl, closed>>

LedgerNext ==
    \/ \E lines \in LinesOfAnEntry, usable \in BOOLEAN : CreateEntry(lines, usable)
    \/ \E e \in DOMAIN entry :
          \/ SubmitEntry(e) \/ DeleteEntry(e) \/ CancelEntry(e)
          \/ ReverseEntry(e) \/ SetDraft(e)
          \/ \E lines \in LinesOfAnEntry : EditEntry(e, lines)
    \/ CreateOpeningEntry \/ ToggleYearClosed
    \/ CreatePayment
    \/ \E n \in DOMAIN payment : SubmitPayment(n) \/ CancelPayment(n)

LedgerSpec == LedgerInit /\ [][LedgerNext]_ledgerVars

-----------------------------------------------------------------------------
\* test_accounting.py, test_balanced_posting_creates_gl_entries: a balanced
\* draft on accounts that can be posted to, in an open year, can be submitted.
BalancedEntryPosts ==
    \A e \in DOMAIN entry :
        entry[e].state = "draft" /\ ValidForPosting(entry[e]) /\ ~closed
            => ENABLED SubmitEntry(e)
=============================================================================
