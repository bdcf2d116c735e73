------------------------------ MODULE SyncQueue ------------------------------
(***************************************************************************)
(* The queue of documents on their way to the Nexus Core (addons           *)
(* odoo_erpnext_hybrid_sync, nexus_advanced_accounting and the guard of    *)
(* ai_enterprise_copilot): one row per document, found by its              *)
(* transaction_id, and the three things that take rows off it: the cron    *)
(* process_queue, the cron _cron_drain and the button Process Now.         *)
(*                                                                         *)
(* Drain and button call the Core from one REPEATABLE READ transaction:    *)
(* what they write is flushed at the end of a row's savepoint, after the   *)
(* call, and fails there if another transaction has changed the same row   *)
(* or document since theirs began.  A row is never committed in the state  *)
(* "processing", so that process_queue has none to reclaim.                *)
(*                                                                         *)
(* What the Core does with a document that comes again under the same      *)
(* transaction_id is not in the code: it may keep the first it was sent,   *)
(* as the queue's documentation has it, or take each (Deduplicates).       *)
(***************************************************************************)
EXTENDS Naturals, FiniteSets

CONSTANTS
    Invoices,    \* cannot be deleted once synced, nor edited but for the
                 \* cost center, which the guard on synced entries forgets
    AssetLines,  \* lines of vendor bills that buy a fixed asset
    CostCenters, \* branches, departments and projects
    Claims,      \* expense sheets
    Drains,      \* runs of _cron_drain
    Buttons,     \* presses of Process Now
    MaxRetries,  \* field max_retries
    Deduplicates, \* whether the Core drops what it has a transaction_id of
    MaxVersion,  \* bound: times a document is written, cost center included
    MaxDocs      \* bound: documents written

ASSUME QueueAssumption ==
    /\ MaxRetries \in Nat /\ MaxVersion \in Nat /\ MaxDocs \in Nat
    /\ Deduplicates \in BOOLEAN
    \* Invoices are no other kind of record; the cron is no button.
    /\ Invoices \intersect (AssetLines \union CostCenters \union Claims) = {}
    /\ Drains \intersect Buttons = {}

VARIABLES
    doc,     \* the documents in Odoo
    row,     \* their rows in the queue
    books,   \* what the Core was sent of each document, and holds
    sender   \* the transactions of the senders

Docs == Invoices \union AssetLines \union CostCenters \union Claims
Senders == Drains \union Buttons

queueVars == <<doc, row, books, sender>>

Versions == 0..MaxVersion

(* Version 0: not posted yet.  The center counts the cost centers an        *)
(* invoice has had since; every other edit makes a new version.             *)
Doc == [version : Versions, center : Versions, synced : BOOLEAN, gone : BOOLEAN]

(* A payload, by what it was built from. *)
Contents == Versions \X Versions
Content(d) == <<doc[d].version, doc[d].center>>

(* arrived: the payloads the Core did not refuse; held: those in its books. *)
CoreDoc == [arrived : SUBSET Contents, held : SUBSET Contents]

QueueRow == [state : {"none", "pending", "done", "failed", "cancelled"},
             retries : 0..MaxRetries]

(* What a sender has made of a document, not committed. *)
Results == {"none", "done", "retry", "failed"}

(* stale: what others have changed since the transaction began; sent: the   *)
(* outcome of the call in hand, for document at; wrote: flushed outcomes.   *)
Sender == [open : BOOLEAN, todo : SUBSET Docs,
           stale : SUBSET ({"doc", "row"} \X Docs),
           at : SUBSET Docs, sent : Results, wrote : [Docs -> Results]]

NothingWritten == [d \in Docs |-> "none"]
IdleSender == [open |-> FALSE, todo |-> {}, stale |-> {}, at |-> {},
               sent |-> "none", wrote |-> NothingWritten]

Due == {d \in Docs : row[d].state = "pending"}

(* Writing what another transaction has flushed waits for its end. *)
Unlocked(d, others) == \A s \in others : sender[s].wrote[d] = "none"

(* A commit of changes makes the other transactions stale, on what they     *)
(* have yet to write.                                                       *)
Outdate(changed, but) ==
    [s \in Senders |->
        IF s \in but THEN sender[s]
        ELSE [sender[s] EXCEPT
                 !.stale = @ \union {c \in changed :
                              c[2] \in sender[s].todo \union sender[s].at}]]

-----------------------------------------------------------------------------
QueueInit ==
    /\ doc = [d \in Docs |-> [version |-> 0, center |-> 0, synced |-> FALSE,
                              gone |-> FALSE]]
    /\ row = [d \in Docs |-> [state |-> "none", retries |-> 0]]
    /\ books = [d \in Docs |-> [arrived |-> {}, held |-> {}]]
    /\ sender = [s \in Senders |-> IdleSender]

(* enqueue returns a row of the same transaction_id in whatever state. *)
Enqueue(d) ==
    row' = IF row[d].state = "none"
             THEN [row EXCEPT ![d].state = "pending"] ELSE row

Writable(d) == ~doc[d].gone /\ Unlocked(d, Senders)

Write(d) ==
    /\ Writable(d)
    /\ doc[d].version + doc[d].center < MaxVersion
    /\ doc[d].version = 0 =>
          Cardinality({e \in Docs : doc[e].version > 0}) < MaxDocs
    /\ doc' = [doc EXCEPT ![d].version = @ + 1]
    /\ sender' = Outdate({<<"doc", d>>}, {})
    /\ UNCHANGED books

(* Mutant: no guard on synced entries. *)
PostUnguarded(d) ==
    /\ Write(d)
    /\ IF doc[d].synced THEN UNCHANGED row ELSE Enqueue(d)

(* Posting an invoice, and setting it back, changing and posting it again.  *)
(* The guard on synced entries stops the latter.                            *)
PostInvoice(d) ==
    /\ ~doc[d].synced
    /\ Write(d)
    /\ Enqueue(d)

(* The cost center of a posted invoice, synced or not: it goes out with the *)
(* payload, is not among the protected fields, and enqueues nothing.        *)
EditCostCenter(d) ==
    /\ Writable(d)
    /\ doc[d].version > 0 /\ doc[d].version + doc[d].center < MaxVersion
    /\ doc' = [doc EXCEPT ![d].center = @ + 1]
    /\ sender' = Outdate({<<"doc", d>>}, {})
    /\ UNCHANGED <<row, books>>

(* Posting a vendor bill enqueues its fixed assets, synced or not. *)
EnqueueAsset(d) == Write(d) /\ Enqueue(d)

(* Creating a branch, and renaming or archiving it. *)
EnqueueCostCenter(d) ==
    /\ Write(d)
    /\ IF doc[d].synced THEN UNCHANGED row ELSE Enqueue(d)

(* Approving a sheet, again after it was refused. *)
ApproveClaim(d) == Write(d) /\ Enqueue(d)

DeleteDoc(d) ==
    /\ Writable(d) /\ doc[d].version > 0
    /\ ~(d \in Invoices /\ doc[d].synced)
    /\ doc' = [doc EXCEPT ![d].gone = TRUE]
    /\ sender' = Outdate({<<"doc", d>>}, {})
    /\ UNCHANGED <<row, books>>

(* Buttons of the row's form, shown in every state. *)
SetRow(d, state) ==
    /\ row[d].state \notin {"none", state}
    /\ Unlocked(d, Senders)
    /\ row' = [row EXCEPT ![d].state = state]
    /\ sender' = Outdate({<<"row", d>>}, {})
    /\ UNCHANGED <<doc, books>>

RetryRow(d) == SetRow(d, "pending")
CancelRow(d) == SetRow(d, "cancelled")

(* process_queue calls _process_single on the model, not on the row: it     *)
(* raises at once, and the handler marks every due row as failed.           *)
ProcessQueue ==
    /\ Due # {} /\ \A d \in Due : Unlocked(d, Senders)
    /\ row' = [d \in Docs |-> IF d \in Due
                  THEN [row[d] EXCEPT !.state = "failed"] ELSE row[d]]
    /\ sender' = Outdate({"row"} \X Due, {})
    /\ UNCHANGED <<doc, books>>

-----------------------------------------------------------------------------
(* A sender begins with the due rows (drain) or a row picked by hand. *)
BeginSend(s, D) ==
    /\ ~sender[s].open
    /\ D # {}
    /\ sender' = [sender EXCEPT ![s] = [IdleSender EXCEPT !.open = TRUE,
                                                          !.todo = D]]
    /\ UNCHANGED <<doc, row, books>>

StartDrain(s) == BeginSend(s, Due)
ProcessNow(s, d) == row[d].state # "none" /\ BeginSend(s, {d})

Take(s, d, outcome) ==
    sender' = [sender EXCEPT ![s].todo = @ \ {d}, ![s].at = {d},
                             ![s].sent = outcome]

Sendable(s, d) ==
    /\ sender[s].open /\ sender[s].at = {} /\ d \in sender[s].todo

(* The payload is built from the document afresh, as it was when the        *)
(* transaction began; the builders refuse a document that was gone.         *)
Payloads(s, d) ==
    IF <<"doc", d>> \in sender[s].stale
      THEN (1..doc[d].version) \X (0..doc[d].center)
      ELSE IF doc[d].gone THEN {} ELSE {Content(d)}

Receive(d, payload) ==
    [books EXCEPT ![d] =
        [arrived |-> @.arrived \union {payload},
         held |-> IF Deduplicates /\ @.held # {} THEN @.held
                  ELSE @.held \union {payload}]]

(* Mutant: whatever the retries. *)
SendAgain(s, d) == Sendable(s, d)

CanSend(s, d) == Sendable(s, d) /\ row[d].retries < MaxRetries

Send(s, d) ==
    /\ CanSend(s, d)
    /\ \E payload \in Payloads(s, d) : books' = Receive(d, payload)
    /\ Take(s, d, "done")
    /\ UNCHANGED <<doc, row>>

(* The answer is lost: the Core may have the document or not. *)
SendUnheard(s, d) ==
    /\ CanSend(s, d)
    /\ \E payload \in Payloads(s, d) : books' \in {books, Receive(d, payload)}
    /\ Take(s, d, "retry")
    /\ UNCHANGED <<doc, row>>

(* No configuration, a payload that cannot be built, an answer 4xx, or no   *)
(* retries left.                                                            *)
SendRefused(s, d) ==
    /\ Sendable(s, d)
    /\ Take(s, d, "failed")
    /\ UNCHANGED <<doc, row, books>>

(* A call that succeeded writes the row and the document, another one the   *)
(* row; the write fails if others have changed what it writes.              *)
Lost(s, d) ==
    \/ <<"row", d>> \in sender[s].stale
    \/ sender[s].sent = "done" /\ <<"doc", d>> \in sender[s].stale

Flushed(s, d, outcome) ==
    sender' = [sender EXCEPT ![s].at = {}, ![s].sent = "none",
                   ![s].stale = @ \ ({"doc", "row"} \X {d}),
                   ![s].wrote[d] = outcome]

(* Mutant: changes made since the transaction began are not noticed. *)
FlushOver(s, d) ==
    /\ sender[s].at = {d}
    /\ Unlocked(d, Senders \ {s})
    /\ Flushed(s, d, sender[s].sent)
    /\ UNCHANGED <<doc, row, books>>

(* End of the row's savepoint. *)
Flush(s, d) ==
    /\ sender[s].at = {d}
    /\ Unlocked(d, Senders \ {s})
    /\ Flushed(s, d, IF Lost(s, d) THEN "none" ELSE sender[s].sent)
    /\ UNCHANGED <<doc, row, books>>

Outcome(r, result) ==
    CASE result = "none"   -> r
      [] result = "done"   -> [r EXCEPT !.state = "done"]
      [] result = "failed" -> [r EXCEPT !.state = "failed"]
      [] result = "retry"  -> [r EXCEPT !.state = "pending", !.retries = @ + 1]

CommitSend(s) ==
    /\ sender[s].open /\ sender[s].todo = {} /\ sender[s].at = {}
    /\ LET wrote == sender[s].wrote IN
          /\ row' = [d \in Docs |-> Outcome(row[d], wrote[d])]
          /\ doc' = [d \in Docs |-> IF wrote[d] = "done"
                        THEN [doc[d] EXCEPT !.synced = TRUE] ELSE doc[d]]
          /\ sender' = [Outdate(({"row"} \X {d \in Docs : wrote[d] # "none"})
                                 \union ({"doc"} \X {d \in Docs : wrote[d] = "done"}),
                                 {s})
                           EXCEPT ![s] = IdleSender]
    /\ UNCHANGED books

(* The worker dies, or the drain overruns its time: nothing is committed. *)
KillSender(s) ==
    /\ sender[s].open
    /\ sender' = [sender EXCEPT ![s] = IdleSender]
    /\ UNCHANGED <<doc, row, books>>

-----------------------------------------------------------------------------
QueueNext ==
    \/ ProcessQueue
    \/ \E d \in Invoices : PostInvoice(d) \/ EditCostCenter(d)
    \/ \E d \in AssetLines : EnqueueAsset(d)
    \/ \E d \in CostCenters : EnqueueCostCenter(d)
    \/ \E d \in Claims : ApproveClaim(d)
    \/ \E d \in Docs : DeleteDoc(d) \/ RetryRow(d) \/ CancelRow(d)
    \/ \E s \in Drains : StartDrain(s)
    \/ \E s \in Buttons, d \in Docs : ProcessNow(s, d)
    \/ \E s \in Senders :
          \/ CommitSend(s) \/ KillSender(s)
          \/ \E d \in Docs :
                \/ Send(s, d) \/ SendUnheard(s, d)
                \/ SendRefused(s, d) \/ Flush(s, d)

QueueSpec == QueueInit /\ [][QueueNext]_queueVars

-----------------------------------------------------------------------------
(* Properties *)

(* Every variable has its type. *)
QueueTypeOK ==
    /\ doc \in [Docs -> Doc]
    /\ row \in [Docs -> QueueRow]
    /\ books \in [Docs -> CoreDoc]
    /\ sender \in [Senders -> Sender]

(* An invoice is marked as synced only when the Core has been sent it as it *)
(* stands in Odoo, but for its cost center, whoever edits it while it is    *)
(* being sent, and by whom it is sent twice.  That is also what the Core    *)
(* holds, unless it drops repetitions and was sent another version before.  *)
SyncedIsInCore ==
    \A d \in Invoices : doc[d].synced =>
       LET asItStands == {c \in Contents : c[1] = doc[d].version} IN
       /\ books[d].arrived \intersect asItStands # {}
       /\ \/ books[d].held \intersect asItStands # {}
          \/ Deduplicates /\ ~(books[d].arrived \subseteq asItStands)

(* A drain writes over pending rows only: a row that was cancelled, or sent  *)
(* by somebody else, while the drain was calling the Core is left as it is. *)
DrainTakesPending ==
    \A s \in Drains, d \in Docs :
        sender[s].wrote[d] # "none" => row[d].state = "pending"

=============================================================================
