---------------------------- MODULE Bridge_proofs ----------------------------
(* Proofs about the bridge: what holds for every set of partners.           *)
EXTENDS Bridge, TLAPS

(* A run's resolved lines are in the Core; until it ends, a line that is    *)
(* not resolved is still to be pushed or waits to be queued.                *)
RunIsSound ==
    /\ \A k \in run.resolved : k[1] \in core
    /\ run.phase # "done" =>
          \A k \in run.drift : k \in run.todo \/ k \in run.resolved \/ k[1] \in run.rows

BridgeInv == BridgeTypeOK /\ RunIsSound /\ PushedOrQueued

LEMMA NoRunType == NoRun \in Run
BY DEF NoRun, Run

LEMMA BridgeInvInit == BridgeInit => BridgeInv
<1> SUFFICES ASSUME BridgeInit PROVE BridgeInv
  OBVIOUS
<1>1. record \in PushedRecord /\ ~record.pushed
  BY DEF BridgeInit, PushedRecord
<1>2. /\ run \in Run /\ run.phase = "idle" /\ run.drift = {} /\ run.resolved = {}
  BY NoRunType DEF BridgeInit, NoRun
<1>3. BridgeTypeOK
  BY <1>1, <1>2 DEF BridgeInit, BridgeTypeOK
<1> QED BY <1>1, <1>2, <1>3 DEF BridgeInv, RunIsSound, PushedOrQueued

(* What the Core has it keeps, a record that was queued stays in the queue, *)
(* be it as failed, and no step but a push makes a record pushed.           *)
LEMMA PushInv ==
    ASSUME BridgeInv, UNCHANGED run,
           record' \in PushedRecord, configured' \in BOOLEAN,
           core \subseteq core', core' \subseteq Things,
           queued' \in [Things -> {"none", "pending", "failed"}],
           \A t \in Things : queued[t] # "none" => queued'[t] # "none",
           record'.pushed => record.pushed \/ Record \in core' \/ queued'[Record] # "none"
    PROVE  BridgeInv'
<1> USE DEF BridgeInv
<1>1. BridgeTypeOK'
  BY DEF BridgeTypeOK
<1>2. RunIsSound'
  BY DEF RunIsSound
<1>3. \A k \in run.drift : k[1] \in Things
  BY DEF BridgeTypeOK, Run, PartnerKeys, Things
<1>4. PushedOrQueued'
  BY <1>3 DEF PushedOrQueued, Things
<1> QED BY <1>1, <1>2, <1>4

LEMMA PushRecordInv ==
    ASSUME BridgeInv, NEW kind \in Kinds, PushRecord(kind)
    PROVE  BridgeInv'
<1>1. /\ core \subseteq core' /\ core' \subseteq Things
      /\ queued' \in [Things -> {"none", "pending", "failed"}]
      /\ \A t \in Things : queued[t] # "none" => queued'[t] # "none"
      /\ Record \in core' \/ queued'[Record] # "none"
  <2>1. /\ core \subseteq Things /\ Record \in Things
        /\ queued \in [Things -> {"none", "pending", "failed"}]
    BY DEF BridgeInv, BridgeTypeOK, Things
  <2>2. CASE Pushed(Record)
    BY <2>1, <2>2 DEF Pushed
  <2>3. CASE Queued(Record)
    BY <2>1, <2>3 DEF Queued
  <2> QED BY <2>2, <2>3 DEF PushRecord, SafePush
<1>2. /\ record' \in PushedRecord /\ configured' \in BOOLEAN /\ UNCHANGED run
  BY DEF PushRecord, BridgeInv, BridgeTypeOK, PushedRecord
<1> QED BY <1>1, <1>2, PushInv

(* A step of a run by itself: it leaves the queue alone. *)
LEMMA RunInv ==
    ASSUME BridgeInv, UNCHANGED <<record, configured, queued>>,
           core \subseteq core', core' \subseteq Things,
           run' \in Run, RunIsSound',
           run'.phase = "done" => run'.drift = {}
    PROVE  BridgeInv'
<1>1. BridgeTypeOK'
  BY DEF BridgeInv, BridgeTypeOK
<1>2. PushedOrQueued'
  BY DEF BridgeInv, PushedOrQueued
<1> QED BY <1>1, <1>2 DEF BridgeInv

LEMMA BridgeInvStep == BridgeInv /\ [BridgeNext]_bridgeVars => BridgeInv'
<1> SUFFICES ASSUME BridgeInv, [BridgeNext]_bridgeVars PROVE BridgeInv'
  OBVIOUS
<1>1. /\ record \in PushedRecord /\ configured \in BOOLEAN /\ core \subseteq Things
      /\ queued \in [Things -> {"none", "pending", "failed"}] /\ run \in Run
  BY DEF BridgeInv, BridgeTypeOK
<1>2. RunIsSound
  BY DEF BridgeInv
<1>3. CASE UNCHANGED bridgeVars
  BY <1>3 DEF bridgeVars, BridgeInv, BridgeTypeOK, RunIsSound, PushedOrQueued
<1>4. CASE Configure
  BY <1>1, <1>4, PushInv DEF Configure
<1>5. CASE ResyncAll \/ OnRecordSaved
  BY <1>5, PushRecordInv
     DEF ResyncAll, OnRecordSaved, PushAccountMove, PushPayment, PushProduct, PushAsset,
         PushWarehouse, PushCostCenter, PushTax, PushAccount, Kinds, Documents
<1>6. CASE PostRecord
  <2>1. record' \in PushedRecord /\ record'.pushed = record.pushed
    BY <1>1, <1>6 DEF PostRecord, PushedRecord
  <2> QED BY <1>1, <1>6, <2>1, PushInv DEF PostRecord
<1>7. ASSUME NEW t \in Things, ProcessPushRow(t) PROVE BridgeInv'
  BY <1>1, <1>7, PushInv DEF ProcessPushRow
<1>8. CASE BeginRun
  <2>1. /\ run' \in Run /\ run'.resolved = {} /\ run'.drift = {}
    BY <1>8, NoRunType DEF BeginRun, NoRun, Run
  <2>2. RunIsSound'
    BY <2>1 DEF RunIsSound
  <2> QED BY <1>1, <1>8, <2>1, <2>2, RunInv DEF BeginRun
<1>9. CASE KillRun
  <2>1. RunIsSound' /\ run' \in Run /\ run'.phase = "idle"
    BY <1>9, NoRunType DEF KillRun, RunIsSound, NoRun
  <2> QED BY <1>1, <1>9, <2>1, RunInv DEF KillRun
<1>10. CASE FetchPeriodTotals
  <2>1. PICK verdict \in PeriodVerdicts :
           run' = [run EXCEPT !.phase = "receivable", !.state = verdict]
    BY <1>10 DEF FetchPeriodTotals
  <2>2. /\ run' \in Run /\ run'.phase = "receivable" /\ run'.drift = run.drift
        /\ run'.todo = run.todo /\ run'.resolved = run.resolved /\ run'.rows = run.rows
    BY <1>1, <2>1 DEF Run, PeriodVerdicts
  <2>3. run.phase = "period"
    BY <1>10 DEF FetchPeriodTotals
  <2>4. RunIsSound'
    BY <1>2, <1>10, <2>2, <2>3 DEF RunIsSound, FetchPeriodTotals
  <2> QED BY <1>1, <1>10, <2>2, <2>4, RunInv DEF FetchPeriodTotals
<1>11. ASSUME NEW account \in {"receivable", "payable"}, NEW next \in {"payable", "resync"},
              ComparePartnerBalances(account, next)
       PROVE  BridgeInv'
  <2>1. PICK drift \in PartnerDrifts(account) :
           run' = [run EXCEPT !.phase = next, !.drift = @ \union drift, !.todo = @ \union drift]
    BY <1>11 DEF ComparePartnerBalances
  <2>2. drift \subseteq PartnerKeys /\ run.phase # "done"
    BY <1>11 DEF PartnerDrifts, ComparePartnerBalances
  <2>3. /\ run' \in Run /\ run'.phase = next /\ run'.drift = run.drift \union drift
        /\ run'.todo = run.todo \union drift
        /\ run'.resolved = run.resolved /\ run'.rows = run.rows
    BY <1>1, <2>1, <2>2 DEF Run
  <2>4. RunIsSound'
    BY <1>2, <1>11, <2>2, <2>3 DEF RunIsSound, ComparePartnerBalances
  <2> QED BY <1>1, <1>11, <2>3, <2>4, RunInv DEF ComparePartnerBalances
<1>12. ASSUME NEW k \in PartnerKeys, Resync(k) PROVE BridgeInv'
  <2>1. k[1] \in Partners /\ k[1] \in Things /\ run.phase = "resync"
    BY <1>12 DEF PartnerKeys, Things, Resync
  <2>2. core \subseteq core' /\ core' \subseteq Things /\ UNCHANGED <<record, configured, queued>>
    BY <1>1, <1>12, <2>1 DEF Resync
  <2>3. /\ run' \in Run /\ run'.phase = "resync" /\ run'.drift = run.drift
        /\ run'.todo = run.todo \ {k}
        /\ \/ /\ run'.resolved = run.resolved \union {k} /\ run'.rows = run.rows
              /\ k[1] \in core'
           \/ run'.resolved = run.resolved /\ run'.rows = run.rows \union {k[1]}
    <3>1. CASE core' = core \union {k[1]} /\
               run' = [run EXCEPT !.todo = @ \ {k}, !.resolved = @ \union {k}]
      BY <1>1, <2>1, <3>1 DEF Run
    <3>2. CASE run' = [run EXCEPT !.todo = @ \ {k}, !.rows = @ \union {k[1]}]
      BY <1>1, <2>1, <3>2 DEF Run
    <3> QED BY <1>12, <3>1, <3>2 DEF Resync
  <2>4. RunIsSound'
    BY <1>2, <2>1, <2>2, <2>3 DEF RunIsSound
  <2> QED BY <2>2, <2>3, <2>4, RunInv
<1>13. CASE EndRun
  <2>1. /\ run' \in Run /\ run'.phase = "done" /\ run'.drift = run.drift
        /\ run'.resolved = run.resolved
    BY <1>1, <1>13 DEF EndRun, Run
  <2>2. /\ run.phase = "resync" /\ run.todo = {}
        /\ UNCHANGED <<record, configured, core>>
        /\ queued' = [t \in Things |-> IF t \in run.rows THEN "pending" ELSE queued[t]]
    BY <1>13 DEF EndRun
  <2>3. BridgeTypeOK'
    BY <1>1, <2>1, <2>2 DEF BridgeTypeOK
  <2>4. RunIsSound'
    BY <1>2, <2>1, <2>2 DEF RunIsSound
  <2>5. record'.pushed => Record \in core' \/ queued'[Record] # "none"
    BY <1>1, <2>2 DEF BridgeInv, PushedOrQueued, Things
  <2>6. ASSUME NEW k \in run.drift, k \notin run.resolved
        PROVE  queued'[k[1]] # "none"
    <3>1. k[1] \in run.rows /\ k[1] \in Things
      BY <1>1, <1>2, <2>2, <2>6 DEF RunIsSound, Run, PartnerKeys, Things
    <3> QED BY <2>2, <3>1
  <2>7. \A k \in run.resolved : k[1] \in core'
    BY <1>2, <2>2 DEF RunIsSound
  <2>8. PushedOrQueued'
    BY <2>1, <2>5, <2>6, <2>7 DEF PushedOrQueued
  <2> QED BY <2>3, <2>4, <2>8 DEF BridgeInv
<1> QED BY <1>3, <1>4, <1>5, <1>6, <1>7, <1>8, <1>9, <1>10, <1>11, <1>12, <1>13 DEF BridgeNext

(* The inductive invariant of the bridge. *)
THEOREM BridgeSafe == BridgeSpec => []BridgeInv
BY BridgeInvInit, BridgeInvStep, PTL DEF BridgeSpec

(* What was pushed is in the Core or in the queue, and a finished run has   *)
(* resolved what the Core has or queued the rest: _safe_push and            *)
(* nexus_reconciliation_run.                                                *)
THEOREM NothingForgotten == BridgeSpec => []PushedOrQueued
<1>1. BridgeInv => PushedOrQueued
  BY DEF BridgeInv
<1> QED BY <1>1, BridgeSafe, PTL

=============================================================================
