---------------------------- MODULE SetupJourney ----------------------------
(***************************************************************************)
(* The setup journey of a company (ai_enterprise_copilot): its steps, its  *)
(* stage, and what the Nexus Core is told of it.                           *)
(*                                                                         *)
(* A step is told to the Core by a call in the middle of the transaction   *)
(* that completes it: the Core may have been told of what Odoo then undid. *)
(***************************************************************************)
EXTENDS Naturals

CONSTANTS
    GoLive      \* the last of the codes in STEP_CODES, here numbered from 1

ASSUME JourneyAssumption == GoLive \in Nat \ {0}

VARIABLES
    journey,    \* the journey and its steps
    told        \* steps the Core has been told of, and whether as ready

journeyVars == <<journey, told>>

Steps == 1..GoLive
StageDone == GoLive + 1

(* steps: those not deleted.  All are required; done: the completed ones.   *)
(* synced: last_sync_status is success.                                     *)
Journey == [state : {"draft", "in_progress", "done"}, stage : 1..StageDone,
            steps : SUBSET Steps, done : SUBSET Steps, synced : SUBSET Steps]

Complete(j) == j.steps # {} /\ j.steps \subseteq j.done

-----------------------------------------------------------------------------
(* create *)
JourneyInit ==
    /\ journey = [state |-> "draft", stage |-> 1, steps |-> Steps,
                  done |-> {}, synced |-> {}]
    /\ told = {}

Started(j) == [j EXCEPT !.state = IF @ = "draft" THEN "in_progress" ELSE @]

(* _advance_stage: the first step that is there and not done. *)
Advanced(j) ==
    LET open == (j.steps \ j.done) \union {StageDone} IN
    [Started(j) EXCEPT !.stage = CHOOSE c \in open : \A d \in open : c <= d]

Payload(j, code) == <<code, code = GoLive /\ Complete(j)>>

(* Mutant: whatever came of the call, the step is noted as told. *)
SyncAnyway(j, code) ==
    /\ told' \in {told, told \union {Payload(j, code)}}
    /\ journey' = [j EXCEPT !.synced = @ \union {code}]

(* action_sync_step_to_core, at the end of what led to j: the Core is told  *)
(* and the step notes it, or the step notes a failure (no URL, a refusal, a *)
(* timeout after which the Core may yet have heard); or the transaction is  *)
(* undone after the call.                                                   *)
SyncStepToCore(j, code) ==
    \/ /\ told' = told \union {Payload(j, code)}
       /\ journey' \in {[j EXCEPT !.synced = @ \union {code}], journey}
    \/ /\ told' \in {told, told \union {Payload(j, code)}}
       /\ journey' = [j EXCEPT !.synced = @ \ {code}]

(* action_mark_step_done, which no view or code calls: by RPC.  It syncs    *)
(* before it advances the stage; the payload does not tell the stage.       *)
MarkStepDone(code) ==
    /\ code \in journey.steps
    /\ SyncStepToCore(Advanced([journey EXCEPT !.done = @ \union {code}]), code)

(* action_sync_all: one step after the other. *)
SyncAll == \E code \in journey.steps : SyncStepToCore(journey, code)

DeleteStep(code) ==
    /\ code \in journey.steps
    /\ journey' = [journey EXCEPT !.steps = @ \ {code}, !.done = @ \ {code},
                                  !.synced = @ \ {code}]
    /\ UNCHANGED told

NextStage ==
    /\ journey.stage < StageDone
    /\ journey' = [Started(journey) EXCEPT !.stage = @ + 1]
    /\ UNCHANGED told

PrevStage ==
    /\ journey.stage > 1
    /\ journey' = [journey EXCEPT !.stage = @ - 1]
    /\ UNCHANGED told

(* The onboarding wizard starts a draft, the document hunter any journey,   *)
(* a live one included.                                                     *)
ActionStart ==
    /\ journey' = [journey EXCEPT !.state = "in_progress"]
    /\ UNCHANGED told

GoneLive ==
    [journey EXCEPT !.stage = StageDone, !.state = "done",
                    !.done = @ \union (journey.steps \intersect {GoLive})]

(* Mutant: by the stage, which the arrows of the form move as well. *)
ValidateByStage ==
    /\ journey.stage = StageDone
    /\ journey' = GoneLive
    /\ UNCHANGED told

(* action_validate_go_live: go_live is one of the steps that must be done   *)
(* before.  Without that step there is nothing to tell.                     *)
ValidateGoLive ==
    /\ Complete(journey)
    /\ IF GoLive \in journey.steps
         THEN SyncStepToCore(GoneLive, GoLive)
         ELSE journey' = GoneLive /\ UNCHANGED told

-----------------------------------------------------------------------------
JourneyNext ==
    \/ \E code \in Steps : MarkStepDone(code) \/ DeleteStep(code)
    \/ NextStage \/ PrevStage \/ ActionStart \/ ValidateGoLive \/ SyncAll

JourneySpec == JourneyInit /\ [][JourneyNext]_journeyVars

-----------------------------------------------------------------------------
(* Properties *)

(* Every variable has its type. *)
JourneyTypeOK ==
    /\ journey \in Journey
    /\ journey.synced \union journey.done \subseteq journey.steps
    /\ told \subseteq Steps \X BOOLEAN

(* "You must complete all setup stages before going live": however the      *)
(* stage was moved by hand and steps deleted, in a live journey every step  *)
(* is done.                                                                 *)
LiveIsComplete == journey.state = "done" => journey.steps \subseteq journey.done

(* A step noted as synced has been told to the Core, and once the journey   *)
(* is live its go_live step has been told as ready.                         *)
SyncedWasTold ==
    \A code \in journey.synced :
       IF code = GoLive /\ journey.state = "done" THEN <<code, TRUE>> \in told
       ELSE \E ready \in BOOLEAN : <<code, ready>> \in told

=============================================================================
