------------------------------- MODULE Reports -------------------------------
(***************************************************************************)
(* The financial reports of ai_enterprise_copilot, rendered from the moves *)
(* of Odoo: as HTML, as sheets of a workbook, and as charts of the         *)
(* dashboard; and the wizard they are asked for with.                      *)
(*                                                                         *)
(* A move here has two lines, of one amount.  Accountants enter, post and  *)
(* reconcile moves, reset them to draft, and date them as they like up to  *)
(* today.                                                                  *)
(***************************************************************************)
EXTENDS Integers, Sequences, FiniteSets, FiniteSetsExt

CONSTANTS
    Parties,    \* partners, and "no partner"
    ShownAs,    \* their display_name, "Unknown" for none: many may share one
    Today,      \* days are counted from 1 (in charts, a day is a month)
    BucketDays, \* days of an aging bucket, 30 in the code
    MaxMoves,   \* bound: moves
    Amount,     \* the amount of the first move entered, of the second...
    Precision   \* steps in 100 per cent, 1000 in the code (0.1 per cent)

ASSUME ReportsAssumption ==
    /\ IsFiniteSet(Parties) /\ Today \in Nat /\ MaxMoves \in Nat
    /\ BucketDays \in Nat \ {0} /\ Precision \in Nat \ {0}
    /\ Amount \in [1..MaxMoves -> Nat \ {0}]

VARIABLES
    moves,      \* moves of the company, in the order of entry
    report      \* the report wizard

reportsVars == <<moves, report>>

Days == 1..Today

Assets == {"asset_cash", "asset_receivable"}
Liabilities == {"liability_payable"}
Equity == {"equity"}
Income == {"income"}
Expense == {"expense"}

(* A type the balance sheet does not list. *)
Unlisted == {"liability_credit_card"}

AccountTypes ==
    Assets \union Liabilities \union Equity \union Income \union Expense
    \union Unlisted

(* Account types by debit and credit: invoice, payment, bill, capital, and  *)
(* an expense paid by card.                                                 *)
MoveKinds == {<<"asset_receivable", "income">>, <<"asset_cash", "asset_receivable">>,
           <<"expense", "liability_payable">>, <<"asset_cash", "equity">>,
           <<"expense", "liability_credit_card">>}

(* paid: what of it is reconciled. *)
Move == [day : Days, kind : MoveKinds, partner : Parties, posted : BOOLEAN,
         paid : Nat]

Report == [state : {"draft", "error"}, html : BOOLEAN]

-----------------------------------------------------------------------------
ReportsInit ==
    /\ moves = <<>>
    /\ report = [state |-> "draft", html |-> FALSE]

(* The accountants *)

EnterMove ==
    /\ Len(moves) < MaxMoves
    /\ \E day \in Days, kind \in MoveKinds, partner \in Parties :
          moves' = Append(moves, [day |-> day, kind |-> kind, posted |-> FALSE,
                                  partner |-> partner, paid |-> 0])
    /\ UNCHANGED report

PostMove(i) ==
    /\ ~moves[i].posted
    /\ moves' = [moves EXCEPT ![i].posted = TRUE]
    /\ UNCHANGED report

AmountResidual(i) == Amount[i] - moves[i].paid

(* An invoice and a payment of one partner, as far as the smaller reaches. *)
Reconcile(i, j) ==
    /\ moves[i].posted /\ moves[j].posted
    /\ moves[i].partner = moves[j].partner
    /\ moves[i].kind[1] = "asset_receivable" /\ moves[j].kind[2] = "asset_receivable"
    /\ LET sum == Min({AmountResidual(i), AmountResidual(j)}) IN
          /\ sum > 0
          /\ moves' = [moves EXCEPT ![i].paid = @ + sum, ![j].paid = @ + sum]
    /\ UNCHANGED report

ResetToDraft(i) ==
    /\ moves[i].posted /\ moves[i].paid = 0
    /\ moves' = [moves EXCEPT ![i].posted = FALSE]
    /\ UNCHANGED report

-----------------------------------------------------------------------------
(* The renderer: what a report of the posted moves says.  Money is counted  *)
(* unit by unit: <<i, n>> is the n-th unit of move i.                       *)

Units(list) == UNION {{i} \X (1..Amount[i]) : i \in list}

Posted(from, to) ==
    Units({i \in DOMAIN moves : moves[i].posted /\ moves[i].day \in from..to})

Debit(lines, types) == Cardinality({u \in lines : moves[u[1]].kind[1] \in types})
Credit(lines, types) == Cardinality({u \in lines : moves[u[1]].kind[2] \in types})
Balance(lines, types) == Debit(lines, types) - Credit(lines, types)

BalanceSheet(to) ==
    LET lines == Posted(1, to) IN
    [asset |-> Balance(lines, Assets), liability |-> Balance(lines, Liabilities),
     equity |-> Balance(lines, Equity)]

(* Mutant: without the first day of the period. *)
ProfitLossAfter(from, to) ==
    LET lines == Posted(from + 1, to) IN
    [revenue |-> -Balance(lines, Income), expense |-> Balance(lines, Expense)]

ProfitLoss(from, to) ==
    LET lines == Posted(from, to) IN
    [revenue |-> -Balance(lines, Income), expense |-> Balance(lines, Expense)]

Net(result) == result.revenue - result.expense

(* A row for each account that was posted to. *)
TypesIn(lines) == UNION {{moves[u[1]].kind[1], moves[u[1]].kind[2]} : u \in lines}

TrialBalance(to) ==
    LET lines == Posted(1, to) IN
    [t \in TypesIn(lines) |->
        [debit |-> Debit(lines, {t}), credit |-> Credit(lines, {t})]]

GeneralLedger(from, to) == Posted(from, to)

IsReceivable(i) == "asset_receivable" \in {moves[i].kind[1], moves[i].kind[2]}
IsOpen(u) == u[2] > moves[u[1]].paid
Age(u, to) == to - moves[u[1]].day
OfName(name, lines) == {u \in lines : ShownAs[moves[u[1]].partner] = name}
NamesIn(lines) == {ShownAs[moves[u[1]].partner] : u \in lines}

Residual(lines) == Balance(lines, {"asset_receivable"})

(* The aging report.  It does not look at the partner the wizard asks for.  *)

(* What is open now on receivables, of up to some day. *)
ReportLines(to) == {u \in Posted(1, to) : IsReceivable(u[1]) /\ IsOpen(u)}

ReportBucket(age) ==
    CASE age <= BucketDays                                -> 1
      [] age > BucketDays /\ age <= 2 * BucketDays        -> 2
      [] age > 2 * BucketDays /\ age <= 3 * BucketDays    -> 3
      [] age > 3 * BucketDays                             -> 4

InBucket(b, lines, to) == {u \in lines : ReportBucket(Age(u, to)) = b}

(* A row for each name, with the sum in each bucket and a total kept apart. *)
Aging(to) ==
    LET lines == ReportLines(to) IN
    [bucket |-> [b \in 1..4 |-> Residual(InBucket(b, lines, to))],
     partner |-> [name \in NamesIn(lines) |->
        LET own == OfName(name, lines) IN
        [bucket |-> [b \in 1..4 |-> Residual(InBucket(b, own, to))],
         total |-> Residual(own)]]]

(* The sheet of the workbook: a row for each name, and the rows' totals. *)

SheetLines(to) == {u \in Posted(1, to) : IsReceivable(u[1]) /\ IsOpen(u)}

SheetColumn(age) ==
    CASE age <= BucketDays                                -> 1
      [] age > BucketDays /\ age <= 2 * BucketDays        -> 2
      [] age > 2 * BucketDays /\ age <= 3 * BucketDays    -> 3
      [] age > 3 * BucketDays                             -> 4

InColumn(b, lines, to) == {u \in lines : SheetColumn(Age(u, to)) = b}

AgingRows(to) ==
    LET lines == SheetLines(to) IN
    [name \in NamesIn(lines) |->
        [b \in 1..4 |-> Residual(InColumn(b, OfName(name, lines), to))]]

AgingTotals(to) ==
    LET rows == AgingRows(to) IN
    [b \in 1..4 |-> MapThenSumSet(LAMBDA name : rows[name][b], DOMAIN rows)]

-----------------------------------------------------------------------------
(* The dashboard, of today *)

ChartLines == {u \in Posted(1, Today) : IsReceivable(u[1]) /\ IsOpen(u)}

(* Mutant: a limit that is off by a day. *)
ChartBucketEarly(age) ==
    CASE age < BucketDays                                 -> 1
      [] age >= BucketDays /\ age <= 2 * BucketDays       -> 2
      [] age > 2 * BucketDays /\ age <= 3 * BucketDays    -> 3
      [] age > 3 * BucketDays                             -> 4

ChartBucket(age) ==
    CASE age <= BucketDays                                -> 1
      [] age > BucketDays /\ age <= 2 * BucketDays        -> 2
      [] age > 2 * BucketDays /\ age <= 3 * BucketDays    -> 3
      [] age > 3 * BucketDays                             -> 4

AgingBuckets ==
    [b \in 1..4 |-> Residual({u \in ChartLines : ChartBucket(Age(u, Today)) = b})]

PeriodTotals(from, to) ==
    LET lines == Posted(from, to) IN
    [revenue |-> -Balance(lines, Income), expense |-> Balance(lines, Expense)]

(* round(n / d): to the nearest, and a half to the even neighbour. *)
Rounded(n, d) ==
    LET q == n \div d
        r == n % d
    IN  IF 2 * r < d \/ (2 * r = d /\ q % 2 = 0) THEN q ELSE q + 1

Size(n) == IF n < 0 THEN -n ELSE n

Growth(n) == CASE n > 0 -> Precision [] n < 0 -> -Precision [] n = 0 -> 0

(* Mutant: by the previous amount, which may be a loss. *)
DeltaOfPrevious(current, previous) ==
    CASE previous = 0 -> Growth(current)
      [] previous > 0 -> Rounded(Precision * (current - previous), previous)
      [] previous < 0 -> Rounded(Precision * (previous - current), -previous)

(* _delta_pct, by the size of the previous amount, in steps of a tenth of a *)
(* per cent.                                                                *)
DeltaPct(current, previous) ==
    IF previous = 0
      THEN Growth(current)
      ELSE Rounded(Precision * (current - previous), Size(previous))

KpiSummary(month) ==
    DeltaPct(Net(PeriodTotals(month, month)),
             Net(PeriodTotals(month - 1, month - 1)))

-----------------------------------------------------------------------------
(* The wizard.  A report is rendered, by the Core or from Odoo's moves, and *)
(* then put into the cache, which fails: a time is no JSON.  So each ends   *)
(* as an error, the cache stays empty, and none is exported from the form.  *)

GenerateReport ==
    /\ report' = [state |-> "error", html |-> TRUE]
    /\ UNCHANGED moves

ResetReport ==
    /\ report' = [state |-> "draft", html |-> FALSE]
    /\ UNCHANGED moves

-----------------------------------------------------------------------------
ReportsNext ==
    \/ EnterMove
    \/ \E i \in DOMAIN moves :
          \/ PostMove(i) \/ ResetToDraft(i)
          \/ \E j \in DOMAIN moves : Reconcile(i, j)
    \/ GenerateReport \/ ResetReport

ReportsSpec == ReportsInit /\ [][ReportsNext]_reportsVars

-----------------------------------------------------------------------------
(* Properties *)

(* Every variable has its type. *)
ReportsTypeOK ==
    /\ moves \in Seq(Move) /\ Len(moves) <= MaxMoves
    /\ \A i \in DOMAIN moves : moves[i].paid <= Amount[i]
    /\ report \in Report

(* The balance sheet does not show the result of the years: it is out of    *)
(* balance by the profit since the first day, no more and no less, apart    *)
(* from the account types it does not list.                                 *)
SheetGapIsProfit ==
    \A day \in Days :
       LET sheet == BalanceSheet(day) IN
       sheet.asset + sheet.liability + sheet.equity
         = Net(ProfitLoss(1, day)) - Balance(Posted(1, day), Unlisted)

EntryOn(balance, t) ==
    IF t \in DOMAIN balance THEN balance[t] ELSE [debit |-> 0, credit |-> 0]

(* Between two trial balances lies the general ledger of the days between   *)
(* them, account by account.                                                *)
TrialBalancesAgree ==
    \A from, to \in Days : from <= to =>
       LET opening == TrialBalance(from - 1)
           closing == TrialBalance(to)
           lines == GeneralLedger(from, to)
       IN  /\ DOMAIN closing = DOMAIN opening \union TypesIn(lines)
           /\ \A t \in DOMAIN closing :
                 /\ closing[t].debit - EntryOn(opening, t).debit = Debit(lines, {t})
                 /\ closing[t].credit - EntryOn(opening, t).credit = Credit(lines, {t})

(* Balance sheet, result, trial balance and general ledger agree with each  *)
(* other for every period, whatever is posted, changed or taken back.       *)
ReportsAgree == SheetGapIsProfit /\ TrialBalancesAgree

(* The aging of the report, of its sheet and of the dashboard agree, name   *)
(* by name and bucket by bucket, though each has limits of its own; and as  *)
(* of today the total of a name is what those who are called so owe         *)
(* together by the ledger, nothing if it has no row.                        *)
AgingAgrees ==
    /\ \A day \in Days :
          LET partner == Aging(day).partner
              rows == AgingRows(day)
          IN  /\ Aging(day).bucket = AgingTotals(day)
              /\ DOMAIN partner = DOMAIN rows
              /\ \A name \in DOMAIN rows : partner[name].bucket = rows[name]
    /\ AgingBuckets = Aging(Today).bucket
    /\ LET partner == Aging(Today).partner
           ledger == Posted(1, Today)
       IN  /\ DOMAIN partner \subseteq NamesIn(ledger)
           /\ \A name \in NamesIn(ledger) :
                 Residual(OfName(name, ledger))
                   = IF name \in DOMAIN partner THEN partner[name].total ELSE 0

(* The figures of the dashboard never point against the way the result of   *)
(* the reports went, through profits and losses, and stand still for no     *)
(* change of more than half a step.                                         *)
DeltaPointsRight ==
    \A month \in Days \ {1} :
       LET before == Net(ProfitLoss(month - 1, month - 1))
           now == Net(ProfitLoss(month, month))
       IN /\ KpiSummary(month) > 0 => now > before
          /\ KpiSummary(month) < 0 => now < before
          /\ KpiSummary(month) = 0 =>
                2 * Precision * Size(now - before) <= Size(before)

=============================================================================
