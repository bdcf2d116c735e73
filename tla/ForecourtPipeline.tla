------------------------- MODULE ForecourtPipeline -------------------------
(***************************************************************************)
(* The whole path of a reading: the forecourt bridge on the station's      *)
(* gateway PC (forecourt-bridge), the HTTP call, and the Odoo station      *)
(* (module FuelStation).                                                   *)
(*                                                                         *)
(* The bridge is one thread: it enqueues what the adapter yields, and from *)
(* time to time pushes the oldest rows and waits for the answer.  Its only *)
(* durable state is the SQLite queue.  A call may fail before, during or   *)
(* after the server's work; a request the bridge has given up on may still *)
(* be served later.                                                        *)
(***************************************************************************)
EXTENDS FuelStation

CONSTANT BatchSize   \* odoo.batch_size

ASSUME BatchAssumption == BatchSize \in Nat \ {0}

VARIABLES
    queue,     \* refs in pending_readings, by row id
    captured,  \* refs that were ever enqueued
    call,      \* the bridge's call: its phase, batch and answer
    late       \* batches given up by the bridge that may still reach Odoo

bridgeVars == <<queue, captured, call, late>>
vars == <<stationVars, bridgeVars>>

Answer == [accepted : SUBSET Refs, duplicates : SUBSET Refs]
NothingSafe == [accepted |-> {}, duplicates |-> {}]

(* "poll": reading the pumps; "sent": waiting for the server to begin;       *)
(* "served": the server works on the batch; "answered": the answer is there. *)
Call == [phase : {"poll", "sent", "served", "answered"},
         batch : Seq(Refs), answer : Answer]
NoCall == [phase |-> "poll", batch |-> <<>>, answer |-> NothingSafe]

-----------------------------------------------------------------------------
Init ==
    /\ StationInit
    /\ queue = <<>>
    /\ captured = {}
    /\ call = NoCall
    /\ late = {}

(* Mutant: transaction_ref is not unique in the queue. *)
CaptureAgain(r) ==
    /\ call.phase = "poll"
    /\ Dispensed(r)
    /\ Len(queue) <= Cardinality(Refs)
    /\ queue' = Append(queue, r)
    /\ captured' = captured \union {r}
    /\ UNCHANGED <<stationVars, call, late>>

(* QueueStore.enqueue of what the adapter yields: a new reading, or a frame *)
(* sent again.  A ref that is still queued is left alone.                   *)
Capture(r) ==
    /\ call.phase = "poll"
    /\ Dispensed(r)
    /\ r \notin ToSet(queue)
    /\ queue' = Append(queue, r)
    /\ captured' = captured \union {r}
    /\ UNCHANGED <<stationVars, call, late>>

(* Mutant: rows are pushed one by one. *)
PeekOne == SubSeq(queue, 1, 1)

(* QueueStore.peek_batch: the oldest rows, at most BatchSize of them. *)
PeekBatch ==
    SubSeq(queue, 1, IF Len(queue) < BatchSize THEN Len(queue) ELSE BatchSize)

(* Mutant: the rows are deleted when they are sent. *)
PushAndForget ==
    /\ call.phase = "poll"
    /\ queue # <<>>
    /\ call' = [NoCall EXCEPT !.phase = "sent", !.batch = PeekBatch]
    /\ queue' = SubSeq(queue, Len(PeekBatch) + 1, Len(queue))
    /\ UNCHANGED <<stationVars, captured, late>>

(* push_interval_seconds have passed and the queue is not empty. *)
Push ==
    /\ call.phase = "poll"
    /\ queue # <<>>
    /\ call' = [NoCall EXCEPT !.phase = "sent", !.batch = PeekBatch]
    /\ UNCHANGED <<stationVars, queue, captured, late>>

(* Odoo starts on the batch the bridge is waiting for. *)
Serve ==
    /\ call.phase = "sent"
    /\ BeginPush(call.batch, TRUE)
    /\ call' = [call EXCEPT !.phase = "served"]
    /\ UNCHANGED <<queue, captured, late>>

(* Odoo starts on a batch nobody waits for any more. *)
ServeLate(batch) ==
    /\ batch \in late
    /\ BeginPush(batch, FALSE)
    /\ late' = late \ {batch}
    /\ UNCHANGED <<queue, captured, call>>

(* The key is refused (401), the body is (400), or the server is down (5xx). *)
Refuse ==
    /\ call.phase = "sent"
    /\ call' = [call EXCEPT !.phase = "answered"]
    /\ UNCHANGED <<stationVars, queue, captured, late>>

(* The request's transaction commits and its answer is on the way back. *)
Commit ==
    /\ CommitTx
    /\ call' = IF tx.live
               THEN [call EXCEPT !.phase = "answered",
                                 !.answer = [accepted |-> tx.accepted,
                                             duplicates |-> tx.duplicates]]
               ELSE call
    /\ UNCHANGED <<queue, captured, late>>

(* Mutant: the answer is sent although the commit failed. *)
AbortAnswered ==
    /\ AbortTx
    /\ call' = IF tx.live
               THEN [call EXCEPT !.phase = "answered",
                                 !.answer = [accepted |-> tx.accepted,
                                             duplicates |-> tx.duplicates]]
               ELSE call
    /\ UNCHANGED <<queue, captured, late>>

(* The request fails inside Odoo: an HTTP 500 with nothing stored. *)
Abort ==
    /\ AbortTx
    /\ call' = IF tx.live THEN [call EXCEPT !.phase = "answered"] ELSE call
    /\ UNCHANGED <<queue, captured, late>>

(* The bridge gives up: the connection breaks or the timeout expires, or the *)
(* bridge stops and starts again with its queue.  The request may be lost,   *)
(* may arrive later, or may be being served; the answer is never read.       *)
GiveUp ==
    /\ call.phase # "poll"
    /\ call' = NoCall
    /\ tx' = [tx EXCEPT !.live = FALSE]
    /\ late' \in {late} \union
                 (IF call.phase = "sent" THEN {late \union {call.batch}} ELSE {})
    /\ UNCHANGED <<site, db, work, queue, captured>>

(* A request that never reaches Odoo after all. *)
Lose(batch) ==
    /\ batch \in late
    /\ late' = late \ {batch}
    /\ UNCHANGED <<stationVars, queue, captured, call>>

(* Mutant: an answered call clears its whole batch. *)
WholeBatch == ToSet(call.batch)

(* The rows of the batch that Odoo has reported as accepted or as duplicates. *)
SafeToDelete ==
    {r \in ToSet(call.batch) :
        r \in call.answer.accepted \union call.answer.duplicates}

(* q holds the elements of p that are not in S, in the order they have in p. *)
Without(q, p, S) ==
    /\ ToSet(q) = ToSet(p) \ S
    /\ \A i, j \in 1..Len(q) : i < j =>
         \E a, b \in 1..Len(p) : a < b /\ p[a] = q[i] /\ p[b] = q[j]

(* The answer is read, and QueueStore.mark_sent deletes the safe rows. *)
MarkSent ==
    /\ call.phase = "answered"
    /\ \E q \in SetToSeqs(ToSet(queue) \ SafeToDelete) :
         /\ Without(q, queue, SafeToDelete)
         /\ queue' = q
    /\ call' = NoCall
    /\ UNCHANGED <<stationVars, captured, late>>

-----------------------------------------------------------------------------
BridgeStep == (\E r \in Refs : Capture(r)) \/ Push \/ MarkSent

ServerStep ==
    \/ Serve
    \/ Commit
    \/ (BeginSweep \/ \E r \in Refs : ReadingStep(r)) /\ UNCHANGED bridgeVars

Next ==
    \/ (StaffStep \/ \E r \in Refs : Dispense(r)) /\ UNCHANGED bridgeVars
    \/ BridgeStep
    \/ ServerStep
    \/ Refuse \/ Abort \/ GiveUp
    \/ \E batch \in late : ServeLate(batch) \/ Lose(batch)

Spec == Init /\ [][Next]_vars

(* The path has trouble when a call is refused, given up or fails inside     *)
(* Odoo, or when storing or posting a reading raises for a passing reason.    *)
(* A commit that stored nothing looks like an abort, and reading an answer    *)
(* that clears nothing looks like giving up: these are no trouble.            *)
Trouble ==
    \/ Refuse
    \/ Abort /\ ~Commit
    \/ GiveUp /\ ~MarkSent
    \/ \E r \in Refs \ Malformed : RejectReading(r)
    \/ \E r \in Refs : FailRow(r) /\ Postable(work, r)

TroubleEnds == <>[][~Trouble]_vars

(* The loop of bridge.main never stops, Odoo's workers carry on what they    *)
(* began, and the retry cron runs for ever.  Serve and BeginSweep are strongly *)
(* fair because Odoo serves a request beside the cron, each in a worker of its *)
(* own: in the model they take turns, and neither keeps the other out.         *)
Fairness ==
    /\ WF_vars(Push)
    /\ WF_vars(MarkSent)
    /\ SF_vars(Serve)
    /\ WF_vars(Commit)
    /\ WF_vars((\E r \in Refs : ReadingStep(r)) /\ UNCHANGED bridgeVars)
    /\ SF_vars(BeginSweep /\ UNCHANGED bridgeVars)

FairSpec == Spec /\ Fairness

-----------------------------------------------------------------------------
(* Properties *)

TypeOK ==
    /\ StationTypeOK
    /\ queue \in Seq(Refs)
    /\ captured \subseteq Refs
    /\ call \in Call
    /\ late \subseteq Seq(Refs)

(* A reading the bridge has captured is in its queue until it is committed  *)
(* in Odoo, whatever fails or crashes on the way ("This bridge never loses  *)
(* a transaction", forecourt-bridge/README.md).                             *)
NothingLost == captured \subseteq ToSet(queue) \union Buffered(db)

(* What the bridge is told is stored, is stored: an answer never outruns the *)
(* commit it reports, and a later failure does not take it back.             *)
AnswerIsTrue ==
    call.answer.accepted \union call.answer.duplicates \subseteq Buffered(db)

(* The rows in the queue are distinct and a call carries its oldest rows,    *)
(* still at the front when the answer comes.                                 *)
CallIsQueueFront ==
    /\ \A i, j \in 1..Len(queue) : i # j => queue[i] # queue[j]
    /\ call.phase # "poll" =>
         /\ Len(call.batch) \in 1..Len(queue)
         /\ call.batch = SubSeq(queue, 1, Len(call.batch))

(* Once the trouble ends, every well-formed reading that was captured is      *)
(* stored in Odoo, provided fewer malformed ones than a batch holds can block *)
(* the front of the queue ("flush automatically once it's back").             *)
EveryReadingArrives ==
    Cardinality(Malformed) < BatchSize /\ TroubleEnds =>
        \A r \in Refs \ Malformed : r \in captured ~> r \in Buffered(db)

(* Once the trouble ends, a reading stuck in error that the meters and the   *)
(* tank allow to be posted is posted by the retry cron, or stops being       *)
(* allowed.                                                                  *)
ErrorsAreRetried ==
    TroubleEnds =>
        \A r \in Refs :
            db.buffer[r] = "error" /\ Postable(db, r)
            ~> db.buffer[r] = "processed" \/ ~Postable(db, r)

(* The same of a reading that found no nozzle, once its nozzle is configured: *)
(* the gateway's docstring names it as the example of what the cron sweeps up. *)
UnmatchedAreRetried ==
    TroubleEnds =>
        \A r \in Refs :
            db.buffer[r] = "ignored" /\ Postable(db, r)
            ~> db.buffer[r] = "processed" \/ ~Postable(db, r)

-----------------------------------------------------------------------------
(* The abstract view of a fill-up *)

stageOf == [r \in Refs |->
    IF db.buffer[r] = "processed" THEN "posted"
    ELSE IF r \in Buffered(db) THEN "received"
    ELSE IF r \in ToSet(queue) THEN "held"
    ELSE "unseen"]

Ledger == INSTANCE FillUpLedger WITH stage <- stageOf

(* The pipeline implements the ledger: a captured fill-up only ever moves on, *)
(* from the bridge to Odoo and from there to the books.                       *)
ImplementsLedger == Ledger!Spec

=============================================================================
