------------------------------- MODULE Bridge -------------------------------
(***************************************************************************)
(* The bridge of ai_enterprise_copilot to the Nexus Core: pushing a record *)
(* at once with the queue to fall back on, and the daily reconciliation,   *)
(* which pushes the partners whose balances differ.                        *)
(*                                                                         *)
(* A push is a call followed by a row of the queue if it failed; calls and *)
(* rows belong to the transaction of whoever pushes.  A reconciliation is  *)
(* one transaction with many calls, each of which may fail.  Balances move *)
(* all the time, on both sides.                                            *)
(***************************************************************************)
EXTENDS FiniteSets

CONSTANTS
    Partners,   \* partners with balances
    Record      \* one more record of the accounts, of any kind

ASSUME BridgeAssumption == Record \notin Partners

VARIABLES
    record,      \* kind and state of Record
    configured,  \* url, key and secret of the Core are set
    core,        \* records the Core has
    queued,      \* the rows of the queue: those of a record that are alike are one
    run          \* the latest reconciliation

bridgeVars == <<record, configured, core, queued, run>>

Things == Partners \union {Record}

Documents == {"move", "payment"}
Kinds == Documents \union {"product", "asset", "warehouse", "analytic", "tax",
                           "account"}

(* posted: a document has been posted, or the kind needs no posting. *)
PushedRecord == [kind : Kinds, posted : BOOLEAN, pushed : BOOLEAN]

(* Drift keys; the totals of the month are one, with nothing to push. *)
PartnerKeys == Partners \X {"receivable", "payable"}

(* rows: partners whose rows are not committed yet. *)
Run == [phase : {"idle", "period", "receivable", "payable", "resync", "done"},
        state : {"running", "ok", "drift_found", "error"},
        todo : SUBSET PartnerKeys, drift : SUBSET PartnerKeys,
        resolved : SUBSET PartnerKeys, rows : SUBSET Partners]

NoRun == [phase |-> "idle", state |-> "running", todo |-> {}, drift |-> {},
          resolved |-> {}, rows |-> {}]

-----------------------------------------------------------------------------
BridgeInit ==
    /\ record \in {r \in [kind : Kinds, posted : BOOLEAN, pushed : {FALSE}] :
                      r.kind \in Documents \/ r.posted}
    /\ configured = TRUE
    /\ core = {}
    /\ queued = [t \in Things |-> "none"]
    /\ run = NoRun

Running == run.phase \notin {"idle", "done"}

(* A run goes on with the settings it began with. *)
Configure ==
    /\ ~Running
    /\ configured' = ~configured
    /\ UNCHANGED <<record, core, queued, run>>

-----------------------------------------------------------------------------
(* Pushing *)

(* _safe_push: the Core takes it, or it is queued: at once when the bridge  *)
(* is not configured, else for whatever went wrong with the call.  With the *)
(* answer lost it is queued though the Core has it.                         *)
Pushed(t) == configured /\ core' = core \union {t} /\ UNCHANGED queued
Queued(t) ==
    /\ queued' = [queued EXCEPT ![t] = "pending"]
    /\ core' \in {core, IF configured THEN core \union {t} ELSE core}

(* Mutant: a call that failed is not queued. *)
QueuedIfUnset(t) ==
    /\ queued' = IF configured THEN queued ELSE [queued EXCEPT ![t] = "pending"]
    /\ UNCHANGED core

(* Mutant: only a bridge that is not configured queues. *)
SafePushOrForget(t) == Pushed(t) \/ QueuedIfUnset(t)

SafePush(t) == Pushed(t) \/ Queued(t)

PushRecord(kind) ==
    /\ record.kind = kind /\ record.posted
    /\ SafePush(Record)
    /\ record' = [record EXCEPT !.pushed = TRUE]
    /\ UNCHANGED <<configured, run>>

PushAccountMove == PushRecord("move")
PushPayment == PushRecord("payment")
PushProduct == PushRecord("product")
PushAsset == PushRecord("asset")
PushWarehouse == PushRecord("warehouse")
PushCostCenter == PushRecord("analytic")
PushTax == PushRecord("tax")
PushAccount == PushRecord("account")

ResyncAll == PushAccountMove \/ PushPayment

OnRecordSaved ==
    \/ PushProduct \/ PushAsset \/ PushWarehouse
    \/ PushCostCenter \/ PushTax \/ PushAccount

PostRecord ==
    /\ ~record.posted
    /\ record' = [record EXCEPT !.posted = TRUE]
    /\ UNCHANGED <<configured, core, queued, run>>

(* The queue has no payload builder for the operations of the bridge: every *)
(* row fails, whatever the Core does.                                       *)
ProcessPushRow(t) ==
    /\ queued[t] = "pending"
    /\ queued' = [queued EXCEPT ![t] = "failed"]
    /\ UNCHANGED <<record, configured, core, run>>

-----------------------------------------------------------------------------
(* Reconciliation *)

BeginRun ==
    /\ ~Running
    /\ run' = IF configured THEN [NoRun EXCEPT !.phase = "period"]
              ELSE [NoRun EXCEPT !.phase = "done", !.state = "error"]
    /\ UNCHANGED <<record, configured, core, queued>>

PeriodVerdicts == {"running", "drift_found"}

FetchPeriodTotals ==
    /\ run.phase = "period"
    /\ \E verdict \in PeriodVerdicts :
          run' = [run EXCEPT !.phase = "receivable", !.state = verdict]
    /\ UNCHANGED <<record, configured, core, queued>>

(* A fetch that fails reads as zero: any partner may then seem to differ.   *)
PartnerDrifts(account) == SUBSET {k \in PartnerKeys : k[2] = account}

ComparePartnerBalances(account, next) ==
    /\ run.phase = account
    /\ \E drift \in PartnerDrifts(account) :
          run' = [run EXCEPT !.phase = next, !.drift = @ \union drift,
                             !.todo = @ \union drift]
    /\ UNCHANGED <<record, configured, core, queued>>

(* The rows of a run are committed with it.  A push that fails would open   *)
(* an incident if the drift persisted; it never does: the test for the      *)
(* incident model is on an empty recordset.                                 *)
Resync(k) ==
    /\ run.phase = "resync" /\ k \in run.todo
    /\ \/ /\ core' = core \union {k[1]}
          /\ run' = [run EXCEPT !.todo = @ \ {k}, !.resolved = @ \union {k}]
       \/ /\ run' = [run EXCEPT !.todo = @ \ {k}, !.rows = @ \union {k[1]}]
          /\ core' \in {core, core \union {k[1]}}
    /\ UNCHANGED <<record, configured, queued>>

EndRun ==
    /\ run.phase = "resync" /\ run.todo = {}
    /\ queued' = [t \in Things |->
                     IF t \in run.rows THEN "pending" ELSE queued[t]]
    /\ run' = [run EXCEPT !.phase = "done", !.rows = {},
                  !.state = IF run.drift = {} /\ @ = "running" THEN "ok"
                            ELSE "drift_found"]
    /\ UNCHANGED <<record, configured, core>>

(* The worker dies: no trace is left of the run but in the Core. *)
KillRun ==
    /\ Running
    /\ run' = NoRun
    /\ UNCHANGED <<record, configured, core, queued>>

-----------------------------------------------------------------------------
BridgeNext ==
    \/ Configure
    \/ ResyncAll \/ OnRecordSaved \/ PostRecord
    \/ \E t \in Things : ProcessPushRow(t)
    \/ BeginRun \/ EndRun \/ KillRun
    \/ FetchPeriodTotals
    \/ ComparePartnerBalances("receivable", "payable")
    \/ ComparePartnerBalances("payable", "resync")
    \/ \E k \in PartnerKeys : Resync(k)

BridgeSpec == BridgeInit /\ [][BridgeNext]_bridgeVars

-----------------------------------------------------------------------------
(* Properties *)

(* Every variable has its type. *)
BridgeTypeOK ==
    /\ record \in PushedRecord
    /\ configured \in BOOLEAN
    /\ core \subseteq Things
    /\ queued \in [Things -> {"none", "pending", "failed"}]
    /\ run \in Run

(* "Synchronous failure -> enqueue for retry": a record that was pushed is  *)
(* in the Core or in the queue, whatever failed, and a drift line of a      *)
(* finished run is resolved only if the Core has its partner, with a row of *)
(* the queue to show otherwise.                                             *)
PushedOrQueued ==
    /\ record.pushed => Record \in core \/ queued[Record] # "none"
    /\ run.phase = "done" =>
          \A k \in run.drift :
             IF k \in run.resolved THEN k[1] \in core ELSE queued[k[1]] # "none"

=============================================================================
