------------------------- MODULE SetupJourney_proofs -------------------------
(* Proofs about the setup journey: what holds for any number of steps.      *)
EXTENDS SetupJourney, FiniteSetTheorems, TLAPS

(* Any set of numbers that is not empty has a least element: of the         *)
(* intervals up to its elements, one is included in the others.             *)
LEMMA LeastNumber ==
    ASSUME NEW T \in SUBSET Nat, T # {}
    PROVE  \E x \in T : \A y \in T : x <= y
<1> DEFINE W == {0..n : n \in T}
<1>1. \A n \in T : 0..n \in FiniteSubsetsOf(Nat)
  <2> SUFFICES ASSUME NEW n \in T PROVE 0..n \in FiniteSubsetsOf(Nat)
    OBVIOUS
  <2>1. IsFiniteSet(0..n)
    BY FS_Interval
  <2> QED BY <2>1 DEF FiniteSubsetsOf
<1>2. W \subseteq FiniteSubsetsOf(Nat) /\ W # {}
  BY <1>1
<1>3. \E u \in W : \A v \in W : ~(<<v, u>> \in StrictSubsetOrdering(Nat))
  BY <1>2, WFMin, FS_StrictSubsetOrderingWellFounded
<1>4. PICK x \in T : \A y \in T : ~(<<0..y, 0..x>> \in StrictSubsetOrdering(Nat))
  BY <1>3
<1>5. ASSUME NEW y \in T, y < x PROVE FALSE
  <2>1. 0..y \subseteq 0..x /\ 0..y # 0..x /\ 0..y \in SUBSET Nat /\ 0..x \in SUBSET Nat
    BY <1>5
  <2> QED BY <2>1, <1>4 DEF StrictSubsetOrdering
<1> QED BY <1>5

JourneyInv == JourneyTypeOK /\ LiveIsComplete /\ SyncedWasTold

(* The next stage is a step that is there and not done, or the last.        *)
LEMMA AdvancedStep ==
    ASSUME NEW j \in Journey
    PROVE  /\ Advanced(j) \in Journey
           /\ Advanced(j).state \in {j.state, "in_progress"}
           /\ Advanced(j).state = "done" <=> j.state = "done"
           /\ Advanced(j).steps = j.steps /\ Advanced(j).done = j.done
           /\ Advanced(j).synced = j.synced
<1> DEFINE open == (j.steps \ j.done) \union {StageDone}
           stage == CHOOSE c \in open : \A d \in open : c <= d
<1>1. open \subseteq 1..StageDone /\ open \in SUBSET Nat /\ open # {}
  BY JourneyAssumption DEF Journey, Steps, StageDone
<1>2. stage \in 1..StageDone
  BY <1>1, LeastNumber
<1>3. Advanced(j) = [Started(j) EXCEPT !.stage = stage]
  BY DEF Advanced
<1> HIDE DEF stage
<1> QED BY <1>2, <1>3 DEF Started, Journey

(* What telling the Core of a step keeps: the step was there before, and    *)
(* the transaction it belongs to leaves the journey as it should be.        *)
LEMMA SyncInv ==
    ASSUME JourneyInv, NEW code \in Steps, NEW j \in Journey,
           SyncStepToCore(j, code),
           code \in j.steps,
           j.synced \union j.done \subseteq j.steps,
           j.synced \subseteq journey.synced,
           j.state = "done" => j.steps \subseteq j.done /\ j.steps # {},
           j.state = "done" => journey.state = "done" \/ code = GoLive
    PROVE  JourneyInv'
<1> USE DEF JourneyInv
<1> DEFINE ready == code = GoLive /\ Complete(j)
<1>1. Payload(j, code) = <<code, ready>> /\ ready \in BOOLEAN
  BY DEF Payload
<1>2. told \subseteq told' /\ told' \subseteq told \union {<<code, ready>>}
  BY <1>1 DEF SyncStepToCore
<1>3. \/ journey' = journey
      \/ journey' = [j EXCEPT !.synced = @ \union {code}] /\ <<code, ready>> \in told'
      \/ journey' = [j EXCEPT !.synced = @ \ {code}]
  BY <1>1 DEF SyncStepToCore
<1>4. j.state = "done" => ready = (code = GoLive)
  BY DEF Complete
<1> HIDE DEF ready
<1>5. JourneyTypeOK'
  <2>1. journey' \in Journey /\ journey'.synced \union journey'.done \subseteq journey'.steps
    BY <1>3 DEF JourneyTypeOK, Journey
  <2>2. told' \subseteq Steps \X BOOLEAN
    BY <1>1, <1>2 DEF JourneyTypeOK
  <2> QED BY <2>1, <2>2 DEF JourneyTypeOK
<1>6. LiveIsComplete'
  BY <1>3 DEF LiveIsComplete, Journey
<1>7. SyncedWasTold'
  <2>1. /\ journey'.synced = journey.synced /\ journey'.state = journey.state
        \/ /\ journey'.state = j.state
           /\ \/ journey'.synced = j.synced \union {code} /\ <<code, ready>> \in told'
              \/ journey'.synced = j.synced \ {code}
    BY <1>3 DEF Journey
  <2>2. \A c \in journey.synced : \E b \in BOOLEAN : <<c, b>> \in told
    BY DEF SyncedWasTold
  <2> SUFFICES ASSUME NEW c \in journey'.synced
               PROVE  IF c = GoLive /\ journey'.state = "done" THEN <<c, TRUE>> \in told'
                      ELSE \E b \in BOOLEAN : <<c, b>> \in told'
    BY DEF SyncedWasTold
  <2>3. CASE journey'.synced = journey.synced /\ journey'.state = journey.state
    BY <1>2, <2>3 DEF SyncedWasTold
  <2>4. CASE c = code /\ journey'.state = j.state /\ <<code, ready>> \in told'
    BY <1>1, <1>4, <2>4
  <2>5. CASE c # code /\ c \in j.synced /\ journey'.state = j.state
    <3>1. c \in journey.synced /\ (c = GoLive /\ j.state = "done" => journey.state = "done")
      BY <2>5
    <3> QED BY <1>2, <2>2, <2>5, <3>1 DEF SyncedWasTold
  <2> QED BY <2>1, <2>3, <2>4, <2>5
<1> QED BY <1>5, <1>6, <1>7

-----------------------------------------------------------------------------
LEMMA JourneyInvInit == JourneyInit => JourneyInv
BY JourneyAssumption DEF JourneyInit, JourneyInv, JourneyTypeOK, LiveIsComplete,
   SyncedWasTold, Journey, Steps, StageDone

(* Steps that tell the Core nothing, and leave the journey no more live     *)
(* than it was: arrows of the form, the start, deleting a step.             *)
LEMMA UntoldInv ==
    ASSUME JourneyInv, UNCHANGED told, journey' \in Journey,
           journey'.synced \union journey'.done \subseteq journey'.steps,
           journey'.synced \subseteq journey.synced,
           journey'.state = "done" =>
              journey.state = "done" /\ journey'.steps \subseteq journey'.done
    PROVE  JourneyInv'
BY DEF JourneyInv, JourneyTypeOK, LiveIsComplete, SyncedWasTold

LEMMA GoneLiveJourney ==
    ASSUME JourneyInv, Complete(journey)
    PROVE  /\ GoneLive \in Journey /\ GoneLive.state = "done"
           /\ GoneLive.steps = journey.steps /\ GoneLive.synced = journey.synced
           /\ GoneLive.steps \subseteq GoneLive.done /\ GoneLive.done \subseteq GoneLive.steps
<1>1. journey \in Journey /\ journey.done \subseteq journey.steps
  BY DEF JourneyInv, JourneyTypeOK
<1>2. journey.steps \subseteq journey.done
  BY DEF Complete
<1>3. StageDone \in 1..StageDone
  BY JourneyAssumption DEF StageDone
<1> QED BY <1>1, <1>2, <1>3 DEF GoneLive, Journey

LEMMA JourneyInvStep == JourneyInv /\ [JourneyNext]_journeyVars => JourneyInv'
<1> SUFFICES ASSUME JourneyInv, [JourneyNext]_journeyVars PROVE JourneyInv'
  OBVIOUS
<1>1. journey \in Journey /\ journey.synced \union journey.done \subseteq journey.steps
  BY DEF JourneyInv, JourneyTypeOK
<1>2. journey.state = "done" => journey.steps \subseteq journey.done
  BY DEF JourneyInv, LiveIsComplete
<1>3. CASE UNCHANGED journeyVars
  BY <1>3 DEF journeyVars, JourneyInv, JourneyTypeOK, LiveIsComplete, SyncedWasTold
<1>4. ASSUME NEW code \in Steps, MarkStepDone(code) PROVE JourneyInv'
  <2> DEFINE i == [journey EXCEPT !.done = @ \union {code}]
  <2>1. code \in journey.steps /\ SyncStepToCore(Advanced(i), code)
    BY <1>4 DEF MarkStepDone
  <2>2. /\ i \in Journey /\ i.steps = journey.steps /\ i.synced = journey.synced
        /\ i.state = journey.state /\ i.done = journey.done \union {code}
    BY <1>1 DEF Journey
  <2> HIDE DEF i
  <2> DEFINE j == Advanced(i)
  <2>3. /\ j \in Journey /\ j.steps = i.steps /\ j.synced = i.synced /\ j.done = i.done
        /\ j.state = "done" <=> i.state = "done"
    BY <2>2, AdvancedStep
  <2>4. SyncStepToCore(j, code)
    BY <2>1
  <2> HIDE DEF j
  <2>5. /\ j.synced \union j.done \subseteq j.steps /\ j.synced \subseteq journey.synced
        /\ j.state = "done" => j.steps \subseteq j.done /\ j.steps # {}
        /\ j.state = "done" => journey.state = "done" \/ code = GoLive
    BY <1>1, <1>2, <2>1, <2>2, <2>3
  <2> QED BY <2>1, <2>2, <2>3, <2>4, <2>5, SyncInv
<1>5. CASE SyncAll
  <2>1. PICK code \in journey.steps : SyncStepToCore(journey, code)
    BY <1>5 DEF SyncAll
  <2>2. code \in Steps
    BY <1>1 DEF Journey
  <2> QED BY <1>1, <1>2, <2>1, <2>2, SyncInv
<1>6. ASSUME NEW code \in Steps, DeleteStep(code) PROVE JourneyInv'
  <2>1. /\ journey' \in Journey
        /\ journey'.synced = journey.synced \ {code} /\ journey'.done = journey.done \ {code}
        /\ journey'.steps = journey.steps \ {code} /\ journey'.state = journey.state
    BY <1>1, <1>6 DEF DeleteStep, Journey
  <2> QED BY <1>1, <1>2, <1>6, <2>1, UntoldInv DEF DeleteStep
<1>7. CASE NextStage \/ PrevStage \/ ActionStart
  <2>1. /\ journey' \in Journey /\ UNCHANGED told
        /\ journey'.synced = journey.synced /\ journey'.done = journey.done
        /\ journey'.steps = journey.steps
        /\ journey'.state = "done" => journey.state = "done"
    <3>1. CASE NextStage
      <4>1. journey.stage + 1 \in 1..StageDone
        BY <1>1, <3>1, JourneyAssumption DEF NextStage, Journey, StageDone
      <4> QED BY <1>1, <3>1, <4>1 DEF NextStage, Started, Journey
    <3>2. CASE PrevStage
      <4>1. journey.stage - 1 \in 1..StageDone
        BY <1>1, <3>2, JourneyAssumption DEF PrevStage, Journey, StageDone
      <4> QED BY <1>1, <3>2, <4>1 DEF PrevStage, Journey
    <3>3. CASE ActionStart
      BY <1>1, <3>3 DEF ActionStart, Journey
    <3> QED BY <1>7, <3>1, <3>2, <3>3
  <2> QED BY <1>1, <1>2, <2>1, UntoldInv
<1>8. CASE ValidateGoLive
  <2>1. /\ GoneLive \in Journey /\ GoneLive.state = "done"
        /\ GoneLive.steps = journey.steps /\ GoneLive.synced = journey.synced
        /\ GoneLive.steps \subseteq GoneLive.done /\ GoneLive.done \subseteq GoneLive.steps
        /\ journey.steps # {}
    BY <1>8, GoneLiveJourney DEF ValidateGoLive, Complete
  <2>2. CASE GoLive \in journey.steps
    <3>1. SyncStepToCore(GoneLive, GoLive) /\ GoLive \in Steps
      BY <1>1, <1>8, <2>2 DEF ValidateGoLive, Journey
    <3> QED BY <1>1, <2>1, <2>2, <3>1, SyncInv
  <2>3. CASE GoLive \notin journey.steps
    <3>1. journey' = GoneLive /\ UNCHANGED told
      BY <1>8, <2>3 DEF ValidateGoLive
    <3>2. GoLive \notin journey'.synced
      BY <1>1, <2>1, <2>3, <3>1
    <3> QED BY <1>1, <2>1, <3>1, <3>2
            DEF JourneyInv, JourneyTypeOK, LiveIsComplete, SyncedWasTold
  <2> QED BY <2>2, <2>3
<1> QED BY <1>3, <1>4, <1>5, <1>6, <1>7, <1>8 DEF JourneyNext

(* The inductive invariant of the journey. *)
THEOREM JourneySafe == JourneySpec => []JourneyInv
BY JourneyInvInit, JourneyInvStep, PTL DEF JourneySpec

(* A journey is live only with every step that is left done, wherever the   *)
(* arrows have moved the stage: action_validate_go_live.                    *)
THEOREM LiveJourneysComplete == JourneySpec => []LiveIsComplete
<1>1. JourneyInv => LiveIsComplete
  BY DEF JourneyInv
<1> QED BY <1>1, JourneySafe, PTL

(* What a step notes as synced the Core has been told, though calls fail    *)
(* and transactions are undone: action_sync_step_to_core.                   *)
THEOREM SyncedStepsTold == JourneySpec => []SyncedWasTold
<1>1. JourneyInv => SyncedWasTold
  BY DEF JourneyInv
<1> QED BY <1>1, JourneySafe, PTL

=============================================================================
