---------------------- MODULE ForecourtPipeline_proofs ----------------------
(* Proofs about the whole pipeline, for every station and any batch size:  *)
(* types, no reading is lost, a call carries the front of the queue, the   *)
(* station keeps its books behind the bridge, and the pipeline implements  *)
(* the fill-up ledger.                                                     *)
EXTENDS ForecourtPipeline, FuelStation_proofs

(* Every reading that travels was captured before. *)
OnlyCaptured ==
    /\ ToSet(queue) \subseteq captured
    /\ ToSet(call.batch) \subseteq captured
    /\ \A batch \in late : ToSet(batch) \subseteq captured
    /\ ToSet(tx.todo) \subseteq captured
    /\ Buffered(work) \subseteq captured

BridgeInv ==
    /\ queue \in Seq(Refs)
    /\ captured \subseteq Refs
    /\ call \in Call
    /\ late \subseteq Seq(Refs)
    /\ NothingLost
    /\ AnswerIsTrue
    /\ OnlyCaptured

PipelineInv == StationInv /\ BridgeInv

-----------------------------------------------------------------------------
LEMMA NoCallType == NoCall \in Call /\ NothingSafe \in Answer /\ ToSet(NoCall.batch) = {}
<1>1. NothingSafe \in Answer
  BY DEF NothingSafe, Answer
<1>2. ToSet(<<>>) = {}
  BY DEF ToSet
<1> QED BY <1>1, <1>2 DEF NoCall, Call

(* The front of a sequence. *)
LEMMA QueueFront ==
    ASSUME NEW S, NEW s \in Seq(S), NEW k \in 0..Len(s)
    PROVE  SubSeq(s, 1, k) \in Seq(S) /\ ToSet(SubSeq(s, 1, k)) \subseteq ToSet(s)
<1>1. SubSeq(s, 1, k) \in Seq(S) /\ Len(SubSeq(s, 1, k)) = k
  OBVIOUS
<1>2. \A i \in 1..k : SubSeq(s, 1, k)[i] = s[i] /\ i \in 1..Len(s)
  OBVIOUS
<1>3. ToSet(s) = {s[i] : i \in 1..Len(s)}
  BY Elements
<1>4. ToSet(SubSeq(s, 1, k)) = {SubSeq(s, 1, k)[i] : i \in 1..k}
  BY <1>1, Elements
<1> QED BY <1>1, <1>2, <1>3, <1>4

LEMMA BatchFromQueue ==
    ASSUME queue \in Seq(Refs)
    PROVE  PeekBatch \in Seq(Refs) /\ ToSet(PeekBatch) \subseteq ToSet(queue)
<1>1. (IF Len(queue) < BatchSize THEN Len(queue) ELSE BatchSize) \in 0..Len(queue)
  BY BatchAssumption
<1> QED BY <1>1, QueueFront DEF PeekBatch

(* What a step of the station other than the arrival of a batch does to the *)
(* rows: Odoo forgets none it has committed, and buffers only what it was   *)
(* sent.                                                                    *)
LEMMA RowsOnlyGrow ==
    ASSUME StationInv,
           \/ \E r \in Refs : Dispense(r) \/ ReadingStep(r)
           \/ StaffStep \/ BeginSweep \/ CommitTx \/ AbortTx
    PROVE  /\ Buffered(db) \subseteq Buffered(db')
           /\ ToSet(tx'.todo) \subseteq ToSet(tx.todo)
           /\ Buffered(work') \subseteq Buffered(work) \union ToSet(tx.todo)
<1> DEFINE Goal == /\ Buffered(db) \subseteq Buffered(db')
                   /\ ToSet(tx'.todo) \subseteq ToSet(tx.todo)
                   /\ Buffered(work') \subseteq Buffered(work) \union ToSet(tx.todo)
<1>a. tx \in Transaction /\ work \in Tables /\ db \in Tables
  BY DEF StationInv, StationTypeOK
<1>b. Buffered(db) \subseteq Buffered(work)
  BY DEF StationInv, WorkExtends, Buffered
<1>c. ToSet(NoTx.todo) = {}
  BY DEF NoTx, ToSet
<1>1. ASSUME UNCHANGED <<db, work, tx>> PROVE Goal
  BY <1>1 DEF Buffered
<1>2. ASSUME NEW k \in Tanks, Deliver(k) PROVE Goal
  <2>1. db'.buffer = db.buffer /\ work' = db' /\ tx' = tx /\ work = db
    BY <1>2, <1>a DEF Deliver, Tables, StationInv, IdleIsClean
  <2> QED BY <2>1 DEF Buffered
<1>3. ASSUME NEW l \in ManualLogs, ConfirmLog(l) PROVE Goal
  <2>1. db'.buffer = db.buffer /\ work' = db' /\ tx' = tx /\ work = db
    BY <1>3, <1>a DEF ConfirmLog, Sold, Tables, StationInv, IdleIsClean
  <2> QED BY <2>1 DEF Buffered
<1>4. ASSUME BeginSweep \/ \E r \in Refs : BeginRetry(r) PROVE Goal
  <2>1. tx'.todo = <<>> /\ work' = work /\ db' = db
    BY <1>4 DEF BeginSweep, BeginRetry, NoTx
  <2> QED BY <2>1, <1>c DEF Buffered, NoTx
<1>5. ASSUME NEW r \in Refs, RejectReading(r) \/ ReportDuplicate(r) PROVE Goal
  <2>1. tx'.todo = Tail(tx.todo) /\ work' = work /\ db' = db /\ tx.todo # <<>>
    BY <1>5, <1>a DEF RejectReading, ReportDuplicate, Receiving, Transaction
  <2>2. ToSet(Tail(tx.todo)) \subseteq ToSet(tx.todo)
    BY <2>1, <1>a, HeadTail DEF Transaction
  <2> QED BY <2>1, <2>2 DEF Buffered
<1>6. ASSUME NEW r \in Refs, AcceptReading(r) PROVE Goal
  <2>1. tx'.todo = Tail(tx.todo) /\ db' = db /\ tx.todo # <<>> /\ r = Head(tx.todo)
    BY <1>6, <1>a DEF AcceptReading, Receiving, Transaction
  <2>2. ToSet(tx.todo) = {r} \union ToSet(tx'.todo)
    BY <2>1, <1>a, HeadTail DEF Transaction
  <2>3. Buffered(work') = Buffered(work) \union {r}
    BY <1>6, RowMarked DEF AcceptReading, RowState
  <2> QED BY <2>1, <2>2, <2>3 DEF Buffered
<1>7. ASSUME NEW r \in Refs, SkipRow(r) \/ IgnoreRow(r) \/ PostRow(r) \/ FailRow(r)
      PROVE  Goal
  <2>1. tx'.todo = tx.todo /\ db' = db /\ Processing(r)
    BY <1>7, <1>a DEF SkipRow, IgnoreRow, PostRow, FailRow, NextRow, Transaction
  <2>2. r \in ToSet(tx.rows)
    BY <2>1, <1>a, HeadTail DEF Processing, Transaction
  <2>3. Buffered(work') \subseteq Buffered(work) \union {r}
    <3>1. CASE SkipRow(r)
      BY <3>1 DEF SkipRow, Buffered
    <3>2. CASE IgnoreRow(r)
      BY <3>2, RowMarked DEF IgnoreRow, RowState
    <3>3. CASE FailRow(r)
      BY <3>3, RowMarked DEF FailRow, RowState
    <3>4. CASE PostRow(r)
      <4>1. work'.buffer = [work.buffer EXCEPT ![r] = "processed"]
        BY <3>4, <1>a, PostedType DEF PostRow, StationInv
      <4> QED BY <4>1, <1>a DEF Buffered, Tables
    <3> QED BY <1>7, <3>1, <3>2, <3>3, <3>4
  <2>4. r \in Buffered(work)
    BY <2>2, <2>1 DEF StationInv, ReportsStored
  <2> QED BY <2>1, <2>3, <2>4 DEF Buffered
<1>8. ASSUME CommitTx PROVE Goal
  BY <1>8, <1>b, <1>c DEF CommitTx, Buffered
<1>9. ASSUME AbortTx PROVE Goal
  BY <1>9, <1>b, <1>c DEF AbortTx, Buffered
<1>10. (\E r \in Refs : Dispense(r)) => UNCHANGED <<db, work, tx>>
  BY DEF Dispense
<1>11. (\E n \in Nozzles : AddNozzle(n)) => UNCHANGED <<db, work, tx>>
  BY DEF AddNozzle
<1>12. (\E l \in ManualLogs, n \in Nozzles, o \in TypedMeters, c \in TypedMeters : DraftLog(l, n, o, c))
          => UNCHANGED <<db, work, tx>>
  BY DEF DraftLog
<1> HIDE DEF Goal
<1>13. Goal
  BY <1>1, <1>2, <1>3, <1>4, <1>5, <1>6, <1>7, <1>8, <1>9, <1>10, <1>11, <1>12
  DEF StaffStep, ReadingStep
<1> QED BY <1>13 DEF Goal

(* A running transaction that loses its caller goes on all the same. *)
LEMMA CallerGone ==
    ASSUME StationInv, tx' = [tx EXCEPT !.live = FALSE], UNCHANGED <<site, db, work>>
    PROVE  /\ StationInv'
           /\ tx'.todo = tx.todo
<1>1. tx \in Transaction
  BY DEF StationInv, StationTypeOK
<1>2. /\ tx'.kind = tx.kind /\ tx'.todo = tx.todo /\ tx'.rows = tx.rows
      /\ tx'.accepted = tx.accepted /\ tx'.duplicates = tx.duplicates
      /\ tx' \in Transaction
  BY <1>1 DEF Transaction
<1>3. StationTypeOK'
  BY <1>2 DEF site, StationInv, StationTypeOK
<1>4. PostedOnce' /\ WorkExtends' /\ NonePending'
  BY TablesKept
<1>5. IdleIsClean' /\ PendingIsQueued' /\ ReportsStored'
  BY <1>2 DEF StationInv, IdleIsClean, Idle, PendingIsQueued, ReportsStored, Buffered
<1> QED BY <1>2, <1>3, <1>4, <1>5 DEF StationInv

(* A step of the station in which no batch arrives, and which leaves the *)
(* bridge alone, keeps the bridge's invariant.                           *)
LEMMA BridgeUntouched ==
    ASSUME PipelineInv, UNCHANGED bridgeVars,
           \/ \E r \in Refs : Dispense(r) \/ ReadingStep(r)
           \/ StaffStep \/ BeginSweep
    PROVE  BridgeInv'
<1>1. /\ Buffered(db) \subseteq Buffered(db')
      /\ ToSet(tx'.todo) \subseteq ToSet(tx.todo)
      /\ Buffered(work') \subseteq Buffered(work) \union ToSet(tx.todo)
  BY RowsOnlyGrow DEF PipelineInv
<1>2. NothingLost' /\ AnswerIsTrue'
  BY <1>1 DEF PipelineInv, BridgeInv, bridgeVars, NothingLost, AnswerIsTrue
<1>3. OnlyCaptured'
  BY <1>1 DEF PipelineInv, BridgeInv, bridgeVars, OnlyCaptured
<1> QED BY <1>2, <1>3 DEF PipelineInv, BridgeInv, bridgeVars

(* A batch whose readings were captured arrives. *)
LEMMA BatchArrives ==
    ASSUME PipelineInv, NEW batch \in Seq(Refs), NEW waiting \in BOOLEAN,
           ToSet(batch) \subseteq captured, BeginPush(batch, waiting)
    PROVE  /\ StationInv'
           /\ ToSet(tx'.todo) \subseteq captured
           /\ work' = work /\ db' = db
<1>1. StationInv'
  BY StationInvStep DEF PipelineInv, StationStep
<1>2. tx'.todo = batch /\ work' = work /\ db' = db
  BY DEF BeginPush, NoTx
<1> QED BY <1>1, <1>2

(* Changing the phase of the call, or its answer to a true one. *)
LEMMA CallChanges ==
    ASSUME call \in Call, NEW ph \in {"poll", "sent", "served", "answered"}, NEW a \in Answer
    PROVE  /\ [call EXCEPT !.phase = ph] \in Call
           /\ [call EXCEPT !.phase = ph].batch = call.batch
           /\ [call EXCEPT !.phase = ph].answer = call.answer
           /\ [call EXCEPT !.phase = ph, !.answer = a] \in Call
           /\ [call EXCEPT !.phase = ph, !.answer = a].batch = call.batch
           /\ [call EXCEPT !.phase = ph, !.answer = a].answer = a
BY DEF Call

(* Every step of the pipeline preserves the invariant. *)
LEMMA PipelineInvStep ==
    ASSUME PipelineInv, Next
    PROVE  PipelineInv'
<1>a. StationInv /\ BridgeInv /\ call \in Call /\ call.batch \in Seq(Refs)
  BY DEF PipelineInv, BridgeInv, Call
<1>b. tx \in Transaction
  BY <1>a DEF StationInv, StationTypeOK
<1>1. CASE (StaffStep \/ \E r \in Refs : Dispense(r)) /\ UNCHANGED bridgeVars
  BY <1>1, <1>a, StationInvStep, BridgeUntouched DEF StationStep, PipelineInv
<1>2. CASE (BeginSweep \/ \E r \in Refs : ReadingStep(r)) /\ UNCHANGED bridgeVars
  BY <1>2, <1>a, StationInvStep, BridgeUntouched DEF StationStep, PipelineInv
<1>3. ASSUME NEW r \in Refs, Capture(r) PROVE PipelineInv'
  <2>1. UNCHANGED stationVars /\ call' = call /\ late' = late
    BY <1>3 DEF Capture
  <2>2. queue' \in Seq(Refs) /\ ToSet(queue') = ToSet(queue) \union {r}
    BY <1>3, <1>a, AppendSet DEF Capture, BridgeInv
  <2>3. captured' = captured \union {r}
    BY <1>3 DEF Capture
  <2>4. BridgeInv'
    BY <1>a, <2>1, <2>2, <2>3
    DEF BridgeInv, NothingLost, AnswerIsTrue, OnlyCaptured, Buffered, stationVars
  <2> QED BY <2>1, <2>4, <1>a, StationInvStutter DEF PipelineInv
<1>4. CASE Push
  <2>1. UNCHANGED <<stationVars, queue, captured, late>>
    BY <1>4 DEF Push
  <2>2. PeekBatch \in Seq(Refs) /\ ToSet(PeekBatch) \subseteq ToSet(queue)
    BY <1>a, BatchFromQueue DEF BridgeInv
  <2>3. call' \in Call /\ call'.batch = PeekBatch /\ call'.answer = NothingSafe
    BY <1>4, <2>2, NoCallType DEF Push, NoCall, Call
  <2>4. call'.answer.accepted \union call'.answer.duplicates = {}
    BY <2>3 DEF NothingSafe
  <2>5. NothingLost' /\ AnswerIsTrue' /\ OnlyCaptured'
    BY <1>a, <2>1, <2>2, <2>3, <2>4
    DEF BridgeInv, NothingLost, AnswerIsTrue, OnlyCaptured, Buffered, stationVars
  <2> QED BY <2>1, <2>3, <2>5, <1>a, StationInvStutter DEF PipelineInv, BridgeInv
<1>5. CASE MarkSent
  <2>1. UNCHANGED <<stationVars, captured, late>> /\ call' = NoCall
    BY <1>5 DEF MarkSent
  <2>2. PICK q \in SetToSeqs(ToSet(queue) \ SafeToDelete) :
           Without(q, queue, SafeToDelete) /\ queue' = q
    BY <1>5 DEF MarkSent
  <2>3. ToSet(queue) \subseteq Refs
    BY <1>a DEF BridgeInv, OnlyCaptured
  <2>4. queue' \in Seq(Refs) /\ ToSet(queue') = ToSet(queue) \ SafeToDelete
    BY <2>2, <2>3, OrderedRows DEF Without
  <2>5. SafeToDelete \subseteq Buffered(db)
    BY <1>a DEF BridgeInv, AnswerIsTrue, SafeToDelete
  <2>6. NothingLost'
    BY <1>a, <2>1, <2>4, <2>5 DEF BridgeInv, NothingLost, Buffered, stationVars
  <2>7. AnswerIsTrue'
    BY <2>1 DEF AnswerIsTrue, NoCall, NothingSafe
  <2>8. OnlyCaptured'
    BY <1>a, <2>1, <2>4, NoCallType DEF BridgeInv, OnlyCaptured, Buffered, stationVars
  <2> QED BY <2>1, <2>4, <2>6, <2>7, <2>8, <1>a, NoCallType, StationInvStutter
          DEF PipelineInv, BridgeInv
<1>6. CASE Serve
  <2>1. BeginPush(call.batch, TRUE) /\ UNCHANGED <<queue, captured, late>>
    BY <1>6 DEF Serve
  <2>2. StationInv' /\ ToSet(tx'.todo) \subseteq captured /\ work' = work /\ db' = db
    BY <1>a, <2>1, BatchArrives DEF BridgeInv, OnlyCaptured
  <2>3. call' \in Call /\ call'.batch = call.batch /\ call'.answer = call.answer
    BY <1>6, <1>a DEF Serve, Call
  <2>4. NothingLost' /\ AnswerIsTrue' /\ OnlyCaptured'
    BY <1>a, <2>1, <2>2, <2>3 DEF BridgeInv, NothingLost, AnswerIsTrue, OnlyCaptured, Buffered
  <2> QED BY <1>a, <2>1, <2>2, <2>3, <2>4 DEF PipelineInv, BridgeInv
<1>7. ASSUME NEW batch \in late, ServeLate(batch) PROVE PipelineInv'
  <2>1. BeginPush(batch, FALSE) /\ UNCHANGED <<queue, captured, call>> /\ late' \subseteq late
    BY <1>7 DEF ServeLate
  <2>2. batch \in Seq(Refs) /\ ToSet(batch) \subseteq captured
    BY <1>a DEF BridgeInv, OnlyCaptured
  <2>3. StationInv' /\ ToSet(tx'.todo) \subseteq captured /\ work' = work /\ db' = db
    BY <2>1, <2>2, BatchArrives
  <2>4. NothingLost' /\ AnswerIsTrue' /\ OnlyCaptured'
    BY <1>a, <2>1, <2>3 DEF BridgeInv, NothingLost, AnswerIsTrue, OnlyCaptured, Buffered
  <2> QED BY <1>a, <2>1, <2>3, <2>4 DEF PipelineInv, BridgeInv
<1>8. CASE Refuse
  <2>1. UNCHANGED <<stationVars, queue, captured, late>>
    BY <1>8 DEF Refuse
  <2>2. call' \in Call /\ call'.batch = call.batch /\ call'.answer = call.answer
    BY <1>8, <1>a DEF Refuse, Call
  <2>3. NothingLost' /\ AnswerIsTrue' /\ OnlyCaptured'
    BY <1>a, <2>1, <2>2 DEF BridgeInv, NothingLost, AnswerIsTrue, OnlyCaptured, Buffered, stationVars
  <2> QED BY <1>a, <2>1, <2>2, <2>3, StationInvStutter DEF PipelineInv, BridgeInv
<1>9. CASE Commit \/ Abort
  <2>1. StationInv'
    BY <1>9, <1>a, StationInvStep DEF Commit, Abort, StationStep
  <2>2. UNCHANGED <<queue, captured, late>>
    BY <1>9 DEF Commit, Abort
  <2>3. /\ Buffered(db) \subseteq Buffered(db')
        /\ ToSet(tx'.todo) \subseteq ToSet(tx.todo)
        /\ Buffered(work') \subseteq Buffered(work) \union ToSet(tx.todo)
    BY <1>9, <1>a, RowsOnlyGrow DEF Commit, Abort
  <2>4. /\ call' \in Call /\ call'.batch = call.batch
        /\ call'.answer.accepted \union call'.answer.duplicates \subseteq Buffered(db')
    <3>1. CASE call' = call \/ call' = [call EXCEPT !.phase = "answered"]
      <4>1. call' \in Call /\ call'.batch = call.batch /\ call'.answer = call.answer
        BY <3>1, <1>a DEF Call
      <4> QED BY <4>1, <2>3, <1>a DEF BridgeInv, AnswerIsTrue
    <3>2. CASE /\ Commit
               /\ call' = [call EXCEPT !.phase = "answered",
                                       !.answer = [accepted |-> tx.accepted,
                                                   duplicates |-> tx.duplicates]]
      <4> DEFINE a == [accepted |-> tx.accepted, duplicates |-> tx.duplicates]
      <4>1. a \in Answer
        BY <1>b DEF Answer, Transaction
      <4>2. call' \in Call /\ call'.batch = call.batch /\ call'.answer = a
        BY <3>2, <4>1, <1>a, CallChanges
      <4>3. db' = work
        BY <3>2 DEF Commit, CommitTx
      <4>4. tx.accepted \union tx.duplicates \subseteq Buffered(work)
        BY <1>a DEF StationInv, ReportsStored
      <4> QED BY <4>2, <4>3, <4>4
    <3> QED BY <1>9, <3>1, <3>2 DEF Commit, Abort
  <2>5. NothingLost' /\ AnswerIsTrue' /\ OnlyCaptured'
    BY <1>a, <2>2, <2>3, <2>4 DEF BridgeInv, NothingLost, AnswerIsTrue, OnlyCaptured
  <2> QED BY <1>a, <2>1, <2>2, <2>4, <2>5 DEF PipelineInv, BridgeInv
<1>10. CASE GiveUp
  <2>1. /\ UNCHANGED <<site, db, work, queue, captured>> /\ call' = NoCall
        /\ late' \in {late, late \union {call.batch}}
    BY <1>10 DEF GiveUp
  <2>2. StationInv' /\ tx'.todo = tx.todo
    BY <1>10, <1>a, <2>1, CallerGone DEF GiveUp
  <2>3. AnswerIsTrue'
    BY <2>1 DEF AnswerIsTrue, NoCall, NothingSafe
  <2>4. NothingLost' /\ OnlyCaptured'
    BY <1>a, <2>1, <2>2, NoCallType DEF BridgeInv, NothingLost, OnlyCaptured, Buffered
  <2> QED BY <1>a, <2>1, <2>2, <2>3, <2>4, NoCallType DEF PipelineInv, BridgeInv
<1>11. ASSUME NEW batch \in late, Lose(batch) PROVE PipelineInv'
  <2>1. UNCHANGED <<stationVars, queue, captured, call>> /\ late' \subseteq late
    BY <1>11 DEF Lose
  <2>2. NothingLost' /\ AnswerIsTrue' /\ OnlyCaptured'
    BY <1>a, <2>1 DEF BridgeInv, NothingLost, AnswerIsTrue, OnlyCaptured, Buffered, stationVars
  <2> QED BY <1>a, <2>1, <2>2, StationInvStutter DEF PipelineInv, BridgeInv
<1> QED
  BY <1>1, <1>2, <1>3, <1>4, <1>5, <1>6, <1>7, <1>8, <1>9, <1>10, <1>11
  DEF Next, BridgeStep, ServerStep

LEMMA PipelineInvInit == Init => PipelineInv
<1> SUFFICES ASSUME Init PROVE PipelineInv
  OBVIOUS
<1>1. StationInv
  BY StationInvInit DEF Init
<1>2. queue = <<>> /\ captured = {} /\ call = NoCall /\ late = {} /\ tx = NoTx /\ Buffered(work) = {}
  BY DEF Init, StationInit, Buffered
<1>3. NothingLost /\ AnswerIsTrue
  BY <1>2 DEF NothingLost, AnswerIsTrue, NoCall, NothingSafe
<1>4. OnlyCaptured
  BY <1>2, NoElements, NoCallType DEF OnlyCaptured, NoTx
<1> QED BY <1>1, <1>2, <1>3, <1>4, NoCallType DEF PipelineInv, BridgeInv

(* The queue, the calls and the station's tables always fit together. *)
THEOREM PipelineSafe == Spec => []PipelineInv
<1>1. PipelineInv /\ [Next]_vars => PipelineInv'
  <2>1. CASE Next
    BY <2>1, PipelineInvStep
  <2>2. ASSUME PipelineInv, UNCHANGED vars PROVE PipelineInv'
    <3>1. UNCHANGED stationVars /\ UNCHANGED <<queue, captured, call, late>>
      BY <2>2 DEF vars, bridgeVars
    <3> QED BY <2>2, <3>1, StationInvStutter
        DEF PipelineInv, BridgeInv, NothingLost, AnswerIsTrue, OnlyCaptured, Buffered, stationVars
  <2> QED BY <2>1, <2>2
<1> QED BY PipelineInvInit, <1>1, PTL DEF Spec

(* The state of the bridge, the calls and the station is always well formed. *)
THEOREM PipelineTypes == Spec => []TypeOK
<1>1. PipelineInv => TypeOK
  BY DEF PipelineInv, BridgeInv, StationInv, TypeOK
<1> QED BY <1>1, PipelineSafe, PTL

(* Whatever is lost, refused, answered too late or rolled back, and however  *)
(* often the bridge restarts, a captured reading is in the bridge's queue or *)
(* committed in Odoo.                                                        *)
THEOREM NoReadingLost == Spec => []NothingLost
<1>1. PipelineInv => NothingLost
  BY DEF PipelineInv, BridgeInv
<1> QED BY <1>1, PipelineSafe, PTL

(* The bridge is never told that a reading is stored that is not committed. *)
THEOREM AnswersAreTrue == Spec => []AnswerIsTrue
<1>1. PipelineInv => AnswerIsTrue
  BY DEF PipelineInv, BridgeInv
<1> QED BY <1>1, PipelineSafe, PTL

-----------------------------------------------------------------------------
(* What the bridge pushes stays where it was in its queue. *)

(* A transaction whose answer is awaited is the one the bridge's call is at. *)
AwaitedIsServed == tx.live => call.phase = "served"

FrontInv == CallIsQueueFront /\ AwaitedIsServed

(* No step but the arrival of a batch makes a transaction an awaited one. *)
LEMMA NobodyStartsWaiting ==
    ASSUME tx \in Transaction,
           \/ \E r \in Refs : Dispense(r) \/ ReadingStep(r)
           \/ StaffStep \/ BeginSweep \/ CommitTx \/ AbortTx
    PROVE  tx'.live => tx.live
<1>1. ~NoTx.live
  BY DEF NoTx
<1>2. ASSUME NEW r \in Refs, ReadingStep(r) PROVE tx'.live => tx.live
  BY <1>2 DEF ReadingStep, RejectReading, ReportDuplicate, AcceptReading, SkipRow, IgnoreRow,
              PostRow, FailRow, NextRow, Transaction
<1>3. CASE BeginSweep \/ (\E r \in Refs : BeginRetry(r)) \/ CommitTx \/ AbortTx
  BY <1>1, <1>3 DEF BeginSweep, BeginRetry, CommitTx, AbortTx, NoTx
<1> QED BY <1>2, <1>3 DEF StaffStep, Dispense, AddNozzle, Deliver, DraftLog, ConfirmLog

(* The peeked batch is a front of the queue, and not an empty one. *)
LEMMA PeekIsFront ==
    ASSUME queue \in Seq(Refs), queue # <<>>
    PROVE  /\ Len(PeekBatch) \in 1..Len(queue)
           /\ PeekBatch = SubSeq(queue, 1, Len(PeekBatch))
<1> DEFINE k == IF Len(queue) < BatchSize THEN Len(queue) ELSE BatchSize
<1>1. k \in 1..Len(queue)
  BY BatchAssumption
<1>2. PeekBatch = SubSeq(queue, 1, k)
  BY DEF PeekBatch
<1> HIDE DEF k
<1>3. Len(PeekBatch) = k
  BY <1>1, <1>2
<1> QED BY <1>1, <1>2, <1>3

LEMMA FrontStep ==
    ASSUME PipelineInv, FrontInv, Next
    PROVE  FrontInv'
<1>a. queue \in Seq(Refs) /\ call \in Call /\ tx \in Transaction
  BY DEF PipelineInv, BridgeInv, StationInv, StationTypeOK
<1>1. ASSUME UNCHANGED <<queue, call>>, tx'.live => tx.live PROVE FrontInv'
  BY <1>1 DEF FrontInv, CallIsQueueFront, AwaitedIsServed
<1>2. ASSUME queue' = queue, call'.phase # "poll", call.phase # "poll", call'.batch = call.batch,
             tx'.live => call'.phase = "served"
      PROVE  FrontInv'
  BY <1>2 DEF FrontInv, CallIsQueueFront, AwaitedIsServed
<1>3. ASSUME queue' = queue, call' = NoCall, ~tx'.live PROVE FrontInv'
  BY <1>3 DEF FrontInv, CallIsQueueFront, AwaitedIsServed, NoCall
<1>4. CASE \/ (StaffStep \/ \E r \in Refs : Dispense(r)) /\ UNCHANGED bridgeVars
           \/ (BeginSweep \/ \E r \in Refs : ReadingStep(r)) /\ UNCHANGED bridgeVars
  <2>1. tx'.live => tx.live
    BY <1>a, <1>4, NobodyStartsWaiting
  <2> QED BY <1>1, <1>4, <2>1 DEF bridgeVars
<1>5. ASSUME NEW r \in Refs, Capture(r) PROVE FrontInv'
  <2>1. queue' = Append(queue, r) /\ call' = call /\ tx' = tx /\ call.phase = "poll"
    BY <1>5 DEF Capture, stationVars
  <2>2. \A i \in 1..Len(queue) : queue[i] # r
    BY <1>5, <1>a, Elements DEF Capture
  <2>3. \A i \in 1..Len(queue') : queue'[i] = IF i = Len(queue) + 1 THEN r ELSE queue[i]
    BY <2>1, <1>a
  <2>4. Len(queue') = Len(queue) + 1 /\ Len(queue) \in Nat
    BY <2>1, <1>a
  <2>5. \A i, j \in 1..Len(queue') : i # j => queue'[i] # queue'[j]
    BY <2>2, <2>3, <2>4 DEF FrontInv, CallIsQueueFront
  <2> QED BY <2>1, <2>5 DEF FrontInv, CallIsQueueFront, AwaitedIsServed
<1>6. CASE Push
  <2>1. /\ queue' = queue /\ tx' = tx /\ call.phase = "poll"
        /\ call'.phase = "sent" /\ call'.batch = PeekBatch
    BY <1>6 DEF Push, NoCall, stationVars
  <2>2. Len(PeekBatch) \in 1..Len(queue) /\ PeekBatch = SubSeq(queue, 1, Len(PeekBatch))
    BY <1>6, <1>a, PeekIsFront DEF Push
  <2> QED BY <2>1, <2>2 DEF FrontInv, CallIsQueueFront, AwaitedIsServed
<1>7. CASE MarkSent
  <2>1. tx' = tx /\ call' = NoCall /\ call.phase = "answered"
    BY <1>7 DEF MarkSent, stationVars
  <2>2. PICK q \in SetToSeqs(ToSet(queue) \ SafeToDelete) : queue' = q
    BY <1>7 DEF MarkSent
  <2> DEFINE S == ToSet(queue) \ SafeToDelete
  <2>3. S \subseteq Refs
    BY <1>a DEF ToSet
  <2>4. Cardinality(S) \in Nat
    BY <2>3, FS_CardinalityType, FS_Subset, StationAssumption
  <2>5. /\ q \in [1..Cardinality(S) -> S]
        /\ \A i, j \in 1..Cardinality(S) : i # j => q[i] # q[j]
    BY <2>2 DEF SetToSeqs
  <2> HIDE DEF S
  <2>6. Len(q) = Cardinality(S)
    BY <2>4, <2>5
  <2>7. \A i, j \in 1..Len(queue') : i # j => queue'[i] # queue'[j]
    BY <2>2, <2>5, <2>6
  <2> QED BY <2>1, <2>7 DEF FrontInv, CallIsQueueFront, AwaitedIsServed, NoCall
<1>8. CASE Serve
  BY <1>a, <1>8, <1>2 DEF Serve, Call
<1>9. ASSUME NEW batch \in late, ServeLate(batch) PROVE FrontInv'
  BY <1>9, <1>1 DEF ServeLate, BeginPush, NoTx
<1>10. CASE Refuse
  BY <1>a, <1>10, <1>2 DEF Refuse, Call, stationVars, FrontInv, AwaitedIsServed
<1>11. CASE Commit \/ Abort
  <2>1. queue' = queue /\ ~tx'.live
    BY <1>11 DEF Commit, Abort, CommitTx, AbortTx, NoTx
  <2>2. CASE tx.live
    <3>1. call.phase = "served" /\ call'.phase = "answered" /\ call'.batch = call.batch
      BY <1>a, <1>11, <2>2 DEF Commit, Abort, Call, FrontInv, AwaitedIsServed
    <3> QED BY <2>1, <3>1, <1>2
  <2>3. CASE ~tx.live
    BY <1>11, <2>1, <2>3, <1>1 DEF Commit, Abort
  <2> QED BY <2>2, <2>3
<1>12. CASE GiveUp
  <2>1. queue' = queue /\ call' = NoCall /\ ~tx'.live
    BY <1>a, <1>12 DEF GiveUp, Transaction
  <2> QED BY <2>1, <1>3
<1>13. ASSUME NEW batch \in late, Lose(batch) PROVE FrontInv'
  BY <1>13, <1>1 DEF Lose, stationVars
<1> QED
  BY <1>4, <1>5, <1>6, <1>7, <1>8, <1>9, <1>10, <1>11, <1>12, <1>13
  DEF Next, BridgeStep, ServerStep

(* The queue never holds a reading twice, and whatever is captured, refused *)
(* or given up meanwhile, a call carries the oldest rows and finds them at  *)
(* the front of the queue when its answer comes.                            *)
THEOREM CallsCarryTheFront == Spec => []CallIsQueueFront
<1>1. Init => FrontInv
  BY DEF Init, StationInit, FrontInv, CallIsQueueFront, AwaitedIsServed, NoCall, NoTx
<1>2. PipelineInv /\ FrontInv /\ [Next]_vars => FrontInv'
  <2>1. CASE Next
    BY <2>1, FrontStep
  <2>2. CASE UNCHANGED vars
    BY <2>2 DEF vars, stationVars, bridgeVars, FrontInv, CallIsQueueFront, AwaitedIsServed
  <2> QED BY <2>1, <2>2
<1>3. FrontInv => CallIsQueueFront
  BY DEF FrontInv
<1> QED BY <1>1, <1>2, <1>3, PipelineSafe, PTL DEF Spec

-----------------------------------------------------------------------------
(* The station's books are kept whatever the bridge and the network do. *)

CapturedDispensed == \A r \in captured : Dispensed(r)

LEMMA PipelineBooksStep ==
    ASSUME PipelineInv, CapturedDispensed, BooksInv, Next
    PROVE  CapturedDispensed' /\ BooksInv'
<1>a. StationInv /\ StationTypeOK /\ captured \subseteq Refs
  BY DEF PipelineInv, BridgeInv, StationInv
<1>b. OnlyCaptured'
  BY PipelineInvStep DEF PipelineInv, BridgeInv
<1>1. CASE StationStep /\ captured' = captured
  <2>1. CapturedDispensed'
    BY <1>a, <1>1, StaysDispensed DEF CapturedDispensed
  <2>2. TodoDispensed'
    BY <1>b, <1>1, <2>1 DEF CapturedDispensed, OnlyCaptured, TodoDispensed
  <2> QED BY <1>a, <1>1, <2>1, <2>2, BooksStep
<1>2. CASE UNCHANGED <<site, db, work>> /\ tx'.todo = tx.todo
  <2>1. \A r \in captured' : Dispensed(r)'
    <3>1. shown' = shown
      BY <1>2 DEF site
    <3>2. captured' = captured \/ \E r \in Refs : captured' = captured \union {r} /\ Dispensed(r)
      BY DEF Next, BridgeStep, ServerStep, Capture, Push, MarkSent, Serve, Commit, Refuse, Abort,
             GiveUp, ServeLate, Lose, bridgeVars
    <3> QED BY <3>1, <3>2 DEF CapturedDispensed, Dispensed
  <2>2. TodoDispensed' /\ PumpsCount' /\ HandInOrder'
    BY <1>2 DEF BooksInv, TodoDispensed, PumpsCount, HandInOrder, DispensedOn, Dispensed, site
  <2>3. \A t : InBooks(t) => InBooks(t)'
    BY <1>2, SiteKept
  <2>4. \A t \in {db', work'} : InBooks(t)'
    BY <1>2, <2>3 DEF BooksInv
  <2> QED BY <2>1, <2>2, <2>4 DEF BooksInv, CapturedDispensed
<1>3. ASSUME UNCHANGED stationVars PROVE UNCHANGED <<site, db, work>> /\ tx'.todo = tx.todo
  BY <1>3 DEF stationVars
<1>4. CASE BridgeStep \/ Refuse \/ \E batch \in late : Lose(batch)
  BY <1>2, <1>3, <1>4 DEF BridgeStep, Capture, Push, MarkSent, Refuse, Lose
<1>5. CASE GiveUp
  <2>1. tx'.todo = tx.todo
    BY <1>a, <1>5 DEF GiveUp, StationTypeOK, Transaction
  <2> QED BY <1>2, <1>5, <2>1 DEF GiveUp
<1>6. CASE Serve \/ \E batch \in late : ServeLate(batch)
  <2>1. call.batch \in Seq(Refs) /\ late \subseteq Seq(Refs)
    BY DEF PipelineInv, BridgeInv, Call
  <2>2. StationStep
    BY <1>6, <2>1 DEF Serve, ServeLate, StationStep
  <2> QED BY <1>1, <1>6, <2>2 DEF Serve, ServeLate
<1>7. CASE Commit \/ Abort
  BY <1>1, <1>7 DEF Commit, Abort, StationStep
<1>8. CASE \/ (StaffStep \/ \E r \in Refs : Dispense(r)) /\ UNCHANGED bridgeVars
           \/ (BeginSweep \/ \E r \in Refs : ReadingStep(r)) /\ UNCHANGED bridgeVars
  BY <1>1, <1>8 DEF StationStep, bridgeVars
<1> QED BY <1>4, <1>5, <1>6, <1>7, <1>8 DEF Next, ServerStep

(* However batches are lost, repeated, given up or served late, the tanks are *)
(* conserved, no litre is charged twice and no meter runs ahead of its pump.  *)
THEOREM PipelineKeepsBooks == Spec => [](StockConserved /\ NoLitreTwice /\ MeterNeverAhead)
<1>1. Init => CapturedDispensed /\ BooksInv
  BY BooksInit DEF Init, CapturedDispensed
<1>2. PipelineInv /\ CapturedDispensed /\ BooksInv /\ [Next]_vars => CapturedDispensed' /\ BooksInv'
  <2>1. ASSUME PipelineInv, CapturedDispensed, BooksInv, UNCHANGED vars
        PROVE  CapturedDispensed' /\ BooksInv'
    <3>1. UNCHANGED stationVars /\ captured' = captured
      BY <2>1 DEF vars, bridgeVars
    <3>2. CapturedDispensed'
      BY <2>1, <3>1 DEF CapturedDispensed, Dispensed, stationVars, site
    <3> QED BY <2>1, <3>1, <3>2, BooksStutter
  <2> QED BY <2>1, PipelineBooksStep
<1>3. PipelineInv /\ BooksInv => StockConserved /\ NoLitreTwice /\ MeterNeverAhead
  BY BooksConserveStock, BooksChargeOnce, BooksFollowPump DEF PipelineInv
<1> QED BY <1>1, <1>2, <1>3, PipelineSafe, PTL DEF Spec

-----------------------------------------------------------------------------
(* The pipeline implements the ledger. *)

(* The stage of one fill-up. *)
LEMMA StageOfOne ==
    ASSUME NEW r \in Refs
    PROVE  stageOf[r] = IF db.buffer[r] = "processed" THEN "posted"
                        ELSE IF r \in Buffered(db) THEN "received"
                        ELSE IF r \in ToSet(queue) THEN "held" ELSE "unseen"
BY DEF stageOf

LEMMA StagesKept ==
    ASSUME \A r \in Refs : db'.buffer[r] = db.buffer[r],
           \A r \in Refs \ Buffered(db) : r \in ToSet(queue') <=> r \in ToSet(queue)
    PROVE  stageOf' = stageOf
<1>1. Buffered(db') = Buffered(db)
  BY DEF Buffered
<1> QED BY <1>1 DEF stageOf

(* Every step of the pipeline is a step of the ledger or leaves it alone. *)
LEMMA LedgerStep ==
    ASSUME PipelineInv, Next
    PROVE  Ledger!Next \/ stageOf' = stageOf
<1>a. StationInv /\ BridgeInv /\ db \in Tables
  BY DEF PipelineInv, StationInv, StationTypeOK
<1>1. ASSUME db' = db, queue' = queue PROVE stageOf' = stageOf
  BY <1>1, StagesKept
<1>2. CASE (StaffStep \/ \E r \in Refs : Dispense(r)) /\ UNCHANGED bridgeVars
  <2>1. queue' = queue
    BY <1>2 DEF bridgeVars
  <2>2. CASE \E k \in Tanks : Deliver(k)
    <3>1. db'.buffer = db.buffer
      BY <1>a, <2>2 DEF Deliver, Tables
    <3> QED BY <2>1, <3>1, StagesKept
  <2>3. CASE \E l \in ManualLogs : ConfirmLog(l)
    <3>1. db'.buffer = db.buffer
      BY <1>a, <2>3 DEF ConfirmLog, Sold, Tables
    <3> QED BY <2>1, <3>1, StagesKept
  <2>4. db' = db \/ (\E k \in Tanks : Deliver(k)) \/ (\E l \in ManualLogs : ConfirmLog(l))
    BY <1>2 DEF StaffStep, Dispense, AddNozzle, BeginRetry, DraftLog
  <2> QED BY <1>1, <2>1, <2>2, <2>3, <2>4
<1>3. CASE (BeginSweep \/ \E r \in Refs : ReadingStep(r)) /\ UNCHANGED bridgeVars
  <2>1. queue' = queue /\ db' = db
    BY <1>3 DEF bridgeVars, BeginSweep, ReadingStep, RejectReading, ReportDuplicate, AcceptReading,
                SkipRow, IgnoreRow, PostRow, FailRow
  <2> QED BY <1>1, <2>1
<1>4. ASSUME NEW r \in Refs, Capture(r) PROVE Ledger!Next \/ stageOf' = stageOf
  <2>1. db' = db /\ r \notin ToSet(queue) /\ ToSet(queue') = ToSet(queue) \union {r}
    BY <1>4, <1>a, AppendSet DEF Capture, stationVars, BridgeInv
  <2>2. CASE r \in Buffered(db)
    BY <2>1, <2>2, StagesKept
  <2>3. CASE r \notin Buffered(db)
    <3>1. db.buffer[r] # "processed"
      BY <2>3 DEF Buffered
    <3>2. stageOf[r] = "unseen"
      BY <2>1, <2>3, <3>1, StageOfOne
    <3>3. Buffered(db') = Buffered(db)
      BY <2>1 DEF Buffered
    <3>4. stageOf' = [stageOf EXCEPT ![r] = "held"]
      BY <2>1, <2>3, <3>1, <3>3 DEF stageOf
    <3> QED BY <3>2, <3>4 DEF Ledger!Next, Ledger!Hold
  <2> QED BY <2>2, <2>3
<1>5. CASE MarkSent
  <2>1. PICK q \in SetToSeqs(ToSet(queue) \ SafeToDelete) :
           Without(q, queue, SafeToDelete) /\ queue' = q
    BY <1>5 DEF MarkSent
  <2>2. ToSet(queue') = ToSet(queue) \ SafeToDelete /\ db' = db
    BY <1>5, <2>1 DEF MarkSent, Without, stationVars
  <2>3. SafeToDelete \subseteq Buffered(db)
    BY <1>a DEF BridgeInv, AnswerIsTrue, SafeToDelete
  <2> QED BY <2>2, <2>3, StagesKept
<1>6. CASE Commit
  <2> DEFINE received == {r \in Refs \ Buffered(db) : r \in Buffered(work) /\ work.buffer[r] # "processed"}
             posted == {r \in Refs : db.buffer[r] # "processed" /\ work.buffer[r] = "processed"}
  <2>1. db' = work /\ queue' = queue
    BY <1>6 DEF Commit, CommitTx
  <2>2. \A r \in Buffered(work) \ Buffered(db) : r \in ToSet(queue)
    BY <1>a DEF BridgeInv, NothingLost, OnlyCaptured
  <2>3. \A r \in received : stageOf[r] = "held"
    <3> SUFFICES ASSUME NEW r \in received PROVE stageOf[r] = "held"
      OBVIOUS
    <3>1. db.buffer[r] # "processed" /\ r \in ToSet(queue)
      BY <2>2 DEF Buffered
    <3> QED BY <3>1, StageOfOne
  <2>4. \A r \in posted : stageOf[r] \in {"held", "received"}
    <3> SUFFICES ASSUME NEW r \in posted PROVE stageOf[r] \in {"held", "received"}
      OBVIOUS
    <3>1. r \in Buffered(work) /\ db.buffer[r] # "processed"
      BY DEF Buffered
    <3> QED BY <3>1, <2>2, StageOfOne
  <2>5. \A r \in Refs :
          /\ db.buffer[r] = "processed" => work.buffer[r] = "processed"
          /\ r \in Buffered(db) => r \in Buffered(work)
    BY <1>a DEF StationInv, WorkExtends
  <2>6. stageOf' = [r \in Refs |-> IF r \in posted THEN "posted"
                                  ELSE IF r \in received THEN "received"
                                  ELSE stageOf[r]]
    <3>1. stageOf' = [r \in Refs |->
                         IF work.buffer[r] = "processed" THEN "posted"
                         ELSE IF r \in Buffered(work) THEN "received"
                         ELSE IF r \in ToSet(queue) THEN "held" ELSE "unseen"]
      BY <2>1 DEF stageOf, Buffered
    <3>2. ASSUME NEW r \in Refs
          PROVE  (IF work.buffer[r] = "processed" THEN "posted"
                  ELSE IF r \in Buffered(work) THEN "received"
                  ELSE IF r \in ToSet(queue) THEN "held" ELSE "unseen")
                 = (IF r \in posted THEN "posted"
                    ELSE IF r \in received THEN "received" ELSE stageOf[r])
      BY <2>5, StageOfOne DEF Buffered
    <3> QED BY <3>1, <3>2
  <2> HIDE DEF received, posted
  <2>7. Ledger!Settle(received, posted)
    BY <2>3, <2>4, <2>6 DEF Ledger!Settle
  <2>8. received \in SUBSET Refs /\ posted \in SUBSET Refs
    BY DEF received, posted
  <2> QED BY <2>7, <2>8 DEF Ledger!Next
<1>7. CASE Push \/ Serve \/ Refuse \/ Abort \/ GiveUp \/ \E batch \in late : ServeLate(batch) \/ Lose(batch)
  <2>1. db' = db /\ queue' = queue
    BY <1>7 DEF Push, Serve, BeginPush, Refuse, Abort, AbortTx, GiveUp, ServeLate, Lose, stationVars
  <2> QED BY <2>1, <1>1
<1> QED
  BY <1>2, <1>3, <1>4, <1>5, <1>6, <1>7 DEF Next, BridgeStep, ServerStep

(* A captured fill-up only ever moves on, from the bridge to Odoo and from *)
(* there to the books: the pipeline is a fill-up ledger.                    *)
THEOREM PipelineIsLedger == Spec => ImplementsLedger
<1>1. Init => Ledger!Init
  <2> SUFFICES ASSUME Init PROVE stageOf = [r \in Refs |-> "unseen"]
    BY DEF Ledger!Init
  <2>1. queue = <<>> /\ \A r \in Refs : db.buffer[r] = "absent"
    BY DEF Init, StationInit
  <2> QED BY <2>1, NoElements DEF stageOf, Buffered
<1>2. PipelineInv /\ [Next]_vars => [Ledger!Next]_stageOf
  <2>1. CASE Next
    BY <2>1, LedgerStep
  <2>2. CASE UNCHANGED vars
    BY <2>2, StagesKept DEF vars, stationVars, bridgeVars
  <2> QED BY <2>1, <2>2
<1> QED BY <1>1, <1>2, PipelineSafe, PTL DEF Spec, ImplementsLedger, Ledger!Spec

=============================================================================
