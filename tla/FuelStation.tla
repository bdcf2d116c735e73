---------------------------- MODULE FuelStation ----------------------------
(***************************************************************************)
(* The Odoo side of the forecourt pipeline (addon nexus_fuel_station): the *)
(* reading buffer, the shift logs generated from it, the nozzle meters and *)
(* the tank volumes.                                                       *)
(*                                                                         *)
(* Every entry point (a pushed batch, the retry cron, the Retry Processing *)
(* button, a manual shift log) is one PostgreSQL transaction at REPEATABLE *)
(* READ.  A transaction that posts a reading reads and then updates the    *)
(* nozzle and the tank, so of two concurrent ones the second to update     *)
(* fails: committed transactions are serialisable.  The model therefore    *)
(* lets at most one transaction, tx, be in progress; it works on a copy,   *)
(* work, of the committed tables, db, and a failed update is one of the    *)
(* causes of FailRow and AbortTx.                                          *)
(***************************************************************************)
EXTENDS Naturals, Sequences, FiniteSetsExt, SequencesExt

CONSTANTS
    Refs,           \* transaction_ref values the pump controller issues
    Nozzles,        \* controller addresses of the physical nozzles
    Tanks,
    NozzleOf,       \* Refs -> Nozzles: the address a reading carries
    TankOf,         \* Nozzles -> Tanks
    Volume,         \* Refs -> litres dispensed
    Malformed,      \* the refs whose payload lacks a required field
    MeterStart,     \* totalizer of every nozzle when the station opens
    InitialVolume,  \* litres in each tank when the station opens
    Capacity,       \* litres a tank can hold
    Drop,           \* litres a delivery truck brings
    ManualLogs,     \* shift logs the attendants may type in
    TypedMeters,    \* meter values an attendant may type
    Batches         \* batches a controller may push

ASSUME StationAssumption ==
    /\ IsFiniteSet(Refs)
    /\ Nozzles # {}
    /\ NozzleOf \in [Refs -> Nozzles]
    /\ TankOf \in [Nozzles -> Tanks]
    /\ Volume \in [Refs -> Nat \ {0}]
    /\ Malformed \subseteq Refs
    /\ MeterStart \in Nat
    /\ InitialVolume \in Nat
    /\ Capacity \in Nat
    /\ InitialVolume <= Capacity
    /\ Drop \in Nat \ {0}
    /\ TypedMeters \subseteq Nat
    /\ Batches \subseteq Seq(Refs)

VARIABLES
    totalizer,   \* the physical totalizer of each nozzle
    shown,       \* what the totalizer showed after a fill-up; 0: not yet dispensed
    metered,     \* the refs whose reading reports that value as meter_total
    configured,  \* addresses for which a fuel.pump.nozzle record exists
    delivered,   \* litres delivered to each tank so far
    manual,      \* the manual shift logs
    db,          \* the committed tables
    work,        \* the tables as the running transaction sees them
    tx           \* the running transaction

site == <<totalizer, shown, metered, configured, delivered, manual>>
stationVars == <<site, db, work, tx>>

-----------------------------------------------------------------------------
(* Data *)

RowState == {"absent", "pending", "processed", "error", "ignored"}

(* A confirmed shift log: the nozzle sold closing - opening litres. *)
ShiftLog == [opening : Nat, closing : Nat]

(* The tables: a buffer row per ref, the confirmed shift logs generated from *)
(* it, meter_end of each nozzle and current_volume of each tank.             *)
Tables == [buffer   : [Refs -> RowState],
           logs     : [Refs -> Seq(ShiftLog)],
           meterEnd : [Nozzles -> Nat],
           tank     : [Tanks -> Nat]]

ManualLog == [state : {"absent", "draft", "confirmed"},
              nozzle : Nozzles, opening : Nat, closing : Nat]

(* A transaction: the readings of the request still to be buffered, the rows *)
(* still to be processed, and the answer being built.  live: somebody still  *)
(* waits for that answer.                                                    *)
Transaction == [kind : {"none", "push", "sweep"}, live : BOOLEAN,
                todo : Seq(Refs), rows : Seq(Refs),
                accepted : SUBSET Refs, duplicates : SUBSET Refs]

NoTx == [kind |-> "none", live |-> FALSE, todo |-> <<>>, rows |-> <<>>,
         accepted |-> {}, duplicates |-> {}]

Idle == tx.kind = "none"

Dispensed(r) == shown[r] > 0

Buffered(t) == {r \in Refs : t.buffer[r] # "absent"}

-----------------------------------------------------------------------------
(* One reading, as _process_one sees it in tables t *)

(* Mutant: a reading whose meter_total is behind falls back to its volume. *)
ClosingFallsBack(t, r) ==
    IF r \in metered /\ shown[r] >= t.meterEnd[NozzleOf[r]]
    THEN shown[r] ELSE t.meterEnd[NozzleOf[r]] + Volume[r]

(* self.meter_total if self.meter_total else opening_meter + self.volume *)
Closing(t, r) ==
    IF r \in metered THEN shown[r] ELSE t.meterEnd[NozzleOf[r]] + Volume[r]

(* _check_meter_consistency, checked when a shift log is created. *)
Consistent(t, n, opening, closing) ==
    /\ opening <= closing
    /\ closing - opening <= t.tank[TankOf[n]]

(* Mutant: the nozzle's meter_end is not updated. *)
SoldMeterKept(t, n, opening, closing) ==
    [t EXCEPT !.tank[TankOf[n]] = @ - (closing - opening)]

(* The effect of FuelShiftLog.action_confirm on the tank and the nozzle. *)
Sold(t, n, opening, closing) ==
    [t EXCEPT !.tank[TankOf[n]] = @ - (closing - opening),
              !.meterEnd[n] = closing]

(* Mutant: the tank is not checked again when a draft is confirmed. *)
ConfirmableMeterOnly(t, n, opening, closing) == closing >= MeterStart

(* The rules of the tank and nozzle tables that action_confirm must meet. *)
Confirmable(t, n, opening, closing) ==
    /\ closing - opening <= t.tank[TankOf[n]]
    /\ closing >= MeterStart

Matched(r) == NozzleOf[r] \in configured

(* Mutant: no rule of the shift log, the tank or the nozzle is checked. *)
PostableIfMatched(t, r) == Matched(r)

Postable(t, r) ==
    LET n == NozzleOf[r] IN
      /\ Matched(r)
      /\ Consistent(t, n, t.meterEnd[n], Closing(t, r))
      /\ Confirmable(t, n, t.meterEnd[n], Closing(t, r))

(* The row becomes processed together with its confirmed shift log. *)
Posted(t, r) ==
    LET n == NozzleOf[r]
        entry == [opening |-> t.meterEnd[n], closing |-> Closing(t, r)]
    IN  [Sold(t, n, entry.opening, entry.closing) EXCEPT
            !.buffer[r] = "processed", !.logs[r] = Append(@, entry)]

-----------------------------------------------------------------------------
StationInit ==
    /\ totalizer = [n \in Nozzles |-> MeterStart]
    /\ shown = [r \in Refs |-> 0]
    /\ metered = {}
    /\ configured \in SUBSET Nozzles
    /\ delivered = [k \in Tanks |-> 0]
    /\ manual = [l \in ManualLogs |->
                    [state |-> "absent", nozzle |-> CHOOSE n \in Nozzles : TRUE,
                     opening |-> 0, closing |-> 0]]
    /\ db = [buffer   |-> [r \in Refs |-> "absent"],
             logs     |-> [r \in Refs |-> <<>>],
             meterEnd |-> [n \in Nozzles |-> MeterStart],
             tank     |-> [k \in Tanks |-> InitialVolume]]
    /\ work = db
    /\ tx = NoTx

(* A customer fills up: the pump's totalizer moves and a reading exists, with *)
(* or without meter_total, which the protocol leaves optional.                *)
Dispense(r) ==
    /\ ~Dispensed(r)
    /\ LET n == NozzleOf[r] IN
         /\ totalizer' = [totalizer EXCEPT ![n] = @ + Volume[r]]
         /\ shown' = [shown EXCEPT ![r] = totalizer[n] + Volume[r]]
    /\ metered' \in {metered, metered \union {r}}
    /\ UNCHANGED <<configured, delivered, manual, db, work, tx>>

(* A manager adds the fuel.pump.nozzle record of a physical nozzle, with the *)
(* totalizer it showed when the station opened.                              *)
AddNozzle(n) ==
    /\ Idle
    /\ n \notin configured
    /\ configured' = configured \union {n}
    /\ UNCHANGED <<totalizer, shown, metered, delivered, manual, db, work, tx>>

(* A manager records a fuel delivery by raising current_volume. *)
Deliver(k) ==
    /\ Idle
    /\ db.tank[k] + Drop <= Capacity
    /\ db' = [db EXCEPT !.tank[k] = @ + Drop]
    /\ work' = db'
    /\ delivered' = [delivered EXCEPT ![k] = @ + Drop]
    /\ UNCHANGED <<totalizer, shown, metered, configured, manual, tx>>

-----------------------------------------------------------------------------
(* POST /nexus_fuel/forecourt/readings *)

(* The device is authenticated and the batch parsed. *)
BeginPush(batch, waiting) ==
    /\ Idle
    /\ batch # <<>>
    /\ tx' = [NoTx EXCEPT !.kind = "push", !.live = waiting, !.todo = batch]
    /\ UNCHANGED <<site, db, work>>

(* The next reading of the batch, none of the rows being processed yet. *)
Receiving(r) ==
    /\ tx.kind = "push"
    /\ tx.todo # <<>>
    /\ r = Head(tx.todo)

(* A required field is missing, or creating the row failed and its savepoint *)
(* was rolled back: the reading is reported under "errors".                  *)
RejectReading(r) ==
    /\ Receiving(r)
    /\ r \in Malformed \/ work.buffer[r] = "absent"
    /\ tx' = [tx EXCEPT !.todo = Tail(@)]
    /\ UNCHANGED <<site, db, work>>

(* Mutant: a duplicate overwrites the row instead of leaving it. *)
DuplicateReopens(r) ==
    /\ Receiving(r)
    /\ r \notin Malformed
    /\ work.buffer[r] # "absent"
    /\ work' = [work EXCEPT !.buffer[r] = "pending"]
    /\ tx' = [tx EXCEPT !.todo = Tail(@), !.duplicates = @ \union {r}]
    /\ UNCHANGED <<site, db>>

(* The (device, transaction_ref) pair is known, from an earlier push or from *)
(* earlier in this batch: reported under "duplicates".                       *)
ReportDuplicate(r) ==
    /\ Receiving(r)
    /\ r \notin Malformed
    /\ work.buffer[r] # "absent"
    /\ tx' = [tx EXCEPT !.todo = Tail(@), !.duplicates = @ \union {r}]
    /\ UNCHANGED <<site, db, work>>

(* Mutant: the stored row is left to the cron. *)
AcceptUnprocessed(r) ==
    /\ Receiving(r)
    /\ r \notin Malformed
    /\ work.buffer[r] = "absent"
    /\ work' = [work EXCEPT !.buffer[r] = "pending"]
    /\ tx' = [tx EXCEPT !.todo = Tail(@), !.accepted = @ \union {r}]
    /\ UNCHANGED <<site, db>>

(* The reading is stored as a pending row, to be processed once the whole *)
(* batch is stored.                                                       *)
AcceptReading(r) ==
    /\ Receiving(r)
    /\ r \notin Malformed
    /\ work.buffer[r] = "absent"
    /\ work' = [work EXCEPT !.buffer[r] = "pending"]
    /\ tx' = [tx EXCEPT !.todo = Tail(@), !.rows = Append(@, r),
                        !.accepted = @ \union {r}]
    /\ UNCHANGED <<site, db>>

-----------------------------------------------------------------------------
(* The retry cron and the Retry Processing button *)

(* Mutant: the cron looks for pending rows. *)
SweepPending ==
    /\ Idle
    /\ LET stuck == {r \in Refs : db.buffer[r] = "pending"} IN
         /\ stuck # {}
         /\ \E rows \in SetToSeqs(stuck) :
              tx' = [NoTx EXCEPT !.kind = "sweep", !.rows = rows]
    /\ UNCHANGED <<site, db, work>>

(* _cron_retry_errors collects every row in state error.  They are ordered  *)
(* by received_at, which has a resolution of one second: any order may come. *)
BeginSweep ==
    /\ Idle
    /\ LET stuck == {r \in Refs : db.buffer[r] = "error"} IN
         /\ stuck # {}
         /\ \E rows \in SetToSeqs(stuck) :
              tx' = [NoTx EXCEPT !.kind = "sweep", !.rows = rows]
    /\ UNCHANGED <<site, db, work>>

(* A manager presses Retry Processing.  The button is hidden on a processed   *)
(* row, but the form may be stale: the cron may have posted the row meanwhile. *)
BeginRetry(r) ==
    /\ Idle
    /\ db.buffer[r] # "absent"
    /\ tx' = [NoTx EXCEPT !.kind = "sweep", !.rows = <<r>>]
    /\ UNCHANGED <<site, db, work>>

-----------------------------------------------------------------------------
(* fuel.reading.buffer.process, a row at a time, each in its savepoint *)

Processing(r) ==
    /\ ~Idle
    /\ tx.todo = <<>>
    /\ tx.rows # <<>>
    /\ r = Head(tx.rows)

NextRow == tx' = [tx EXCEPT !.rows = Tail(@)]

SkipRow(r) ==
    /\ Processing(r)
    /\ work.buffer[r] = "processed"
    /\ NextRow
    /\ UNCHANGED <<site, db, work>>

(* No nozzle has the reading's address: the row is parked as ignored. *)
IgnoreRow(r) ==
    /\ Processing(r)
    /\ work.buffer[r] # "processed"
    /\ ~Matched(r)
    /\ work' = [work EXCEPT !.buffer[r] = "ignored"]
    /\ NextRow
    /\ UNCHANGED <<site, db>>

PostRow(r) ==
    /\ Processing(r)
    /\ work.buffer[r] # "processed"
    /\ Postable(work, r)
    /\ work' = Posted(work, r)
    /\ NextRow
    /\ UNCHANGED <<site, db>>

(* Mutant: the savepoint is not rolled back. *)
FailRowHalfway(r) ==
    /\ Processing(r)
    /\ work.buffer[r] # "processed"
    /\ Postable(work, r)
    /\ work' = [Posted(work, r) EXCEPT !.buffer[r] = "error"]
    /\ NextRow
    /\ UNCHANGED <<site, db>>

(* _process_one raised: a meter or tank rule is broken, the station lacks an *)
(* outgoing operation type, or a concurrent update won.  The savepoint is    *)
(* rolled back and only the row's state changes.                             *)
FailRow(r) ==
    /\ Processing(r)
    /\ work.buffer[r] # "processed"
    /\ Matched(r)
    /\ work' = [work EXCEPT !.buffer[r] = "error"]
    /\ NextRow
    /\ UNCHANGED <<site, db>>

-----------------------------------------------------------------------------
(* End of a transaction *)

CommitTx ==
    /\ ~Idle
    /\ tx.todo = <<>>
    /\ tx.rows = <<>>
    /\ db' = work
    /\ tx' = NoTx
    /\ UNCHANGED <<site, work>>

(* The worker dies or the request fails: nothing of it remains. *)
AbortTx ==
    /\ ~Idle
    /\ work' = db
    /\ tx' = NoTx
    /\ UNCHANGED <<site, db>>

-----------------------------------------------------------------------------
(* Manual shift logs *)

(* An attendant saves a draft with the meters read off the pump. *)
DraftLog(l, n, opening, closing) ==
    /\ Idle
    /\ n \in configured
    /\ manual[l].state = "absent"
    /\ Consistent(db, n, opening, closing)
    /\ manual' = [manual EXCEPT ![l] = [state |-> "draft", nozzle |-> n,
                                        opening |-> opening, closing |-> closing]]
    /\ UNCHANGED <<totalizer, shown, metered, configured, delivered, db, work, tx>>

(* Mutant: a confirmed log can be confirmed again. *)
ConfirmLogAgain(l) ==
    /\ Idle
    /\ manual[l].state # "absent"
    /\ LET m == manual[l] IN
         /\ Confirmable(db, m.nozzle, m.opening, m.closing)
         /\ db' = Sold(db, m.nozzle, m.opening, m.closing)
    /\ work' = db'
    /\ manual' = [manual EXCEPT ![l].state = "confirmed"]
    /\ UNCHANGED <<totalizer, shown, metered, configured, delivered, tx>>

(* The draft is confirmed, perhaps long after it was saved; the opening and *)
(* closing meters of the draft are used as they are.                        *)
ConfirmLog(l) ==
    /\ Idle
    /\ manual[l].state = "draft"
    /\ LET m == manual[l] IN
         /\ Confirmable(db, m.nozzle, m.opening, m.closing)
         /\ db' = Sold(db, m.nozzle, m.opening, m.closing)
    /\ work' = db'
    /\ manual' = [manual EXCEPT ![l].state = "confirmed"]
    /\ UNCHANGED <<totalizer, shown, metered, configured, delivered, tx>>

-----------------------------------------------------------------------------
(* The steps of a running transaction, and those of the staff. *)

ReadingStep(r) ==
    \/ RejectReading(r)
    \/ ReportDuplicate(r)
    \/ AcceptReading(r)
    \/ SkipRow(r)
    \/ IgnoreRow(r)
    \/ PostRow(r)
    \/ FailRow(r)

StaffStep ==
    \/ \E n \in Nozzles : AddNozzle(n)
    \/ \E k \in Tanks : Deliver(k)
    \/ \E r \in Refs : BeginRetry(r)
    \/ \E l \in ManualLogs, n \in Nozzles, o \in TypedMeters, c \in TypedMeters :
          DraftLog(l, n, o, c)
    \/ \E l \in ManualLogs : ConfirmLog(l)

-----------------------------------------------------------------------------
(* The station by itself, fed by any controller that pushes dispensed readings. *)

StationNext ==
    \/ \E r \in Refs : Dispense(r) \/ ReadingStep(r)
    \/ StaffStep
    \/ \E batch \in Batches :
          (\A i \in DOMAIN batch : Dispensed(batch[i])) /\ BeginPush(batch, FALSE)
    \/ BeginSweep \/ CommitTx \/ AbortTx

StationSpec == StationInit /\ [][StationNext]_stationVars

-----------------------------------------------------------------------------
(* Properties of the station *)

StationTypeOK ==
    /\ totalizer \in [Nozzles -> Nat]
    /\ shown \in [Refs -> Nat]
    /\ metered \subseteq Refs
    /\ configured \subseteq Nozzles
    /\ delivered \in [Tanks -> Nat]
    /\ manual \in [ManualLogs -> ManualLog]
    /\ db \in Tables
    /\ work \in Tables
    /\ tx \in Transaction

(* A reading is processed exactly when one confirmed shift log stands for it: *)
(* neither resending a batch, nor the cron, nor the retry button posts a      *)
(* fill-up twice, and no row is marked processed without its log              *)
(* (fuel_reading_buffer.process and the savepoint around _process_one).       *)
PostedOnce ==
    \A r \in Refs : \A t \in {db, work} :
        Len(t.logs[r]) = IF t.buffer[r] = "processed" THEN 1 ELSE 0

(* No row is ever committed as pending.  The cron looks for error rows only, *)
(* so a pending row that outlived its request would never be processed: the  *)
(* endpoint must process what it stored before it commits.                   *)
NonePending == \A r \in Refs : db.buffer[r] # "pending"

(* The litres the confirmed logs of tank k account for, each known by its log *)
(* and by what the meter shows after it.                                      *)
Litres(log) == log.opening + 1 .. log.closing

ForecourtLitres(t, k) ==
    UNION {{r} \X Litres(t.logs[r][1]) :
              r \in {q \in Refs : TankOf[NozzleOf[q]] = k /\ t.logs[q] # <<>>}}

HandLitres(k) ==
    UNION {{l} \X Litres(manual[l]) :
              l \in {m \in ManualLogs : /\ manual[m].state = "confirmed"
                                        /\ TankOf[manual[m].nozzle] = k}}

SoldFrom(t, k) == Cardinality(ForecourtLitres(t, k)) + Cardinality(HandLitres(k))

(* The stock of a tank is what was there and was delivered, less what the  *)
(* confirmed shift logs sold: a failed posting leaves no trace in the tank *)
(* and a confirmed one is never missing from it.                           *)
StockConserved ==
    \A k \in Tanks : db.tank[k] + SoldFrom(db, k) = InitialVolume + delivered[k]

(* No manual log was confirmed for nozzle n. *)
NothingByHand(n) ==
    \A l \in ManualLogs : manual[l].state = "confirmed" => manual[l].nozzle # n

(* On a nozzle without confirmed manual logs, two readings are never charged *)
(* for the same stretch of its meter, in whatever order they were posted.    *)
NoLitreTwice ==
    \A r, q \in Refs :
        /\ r # q /\ NozzleOf[r] = NozzleOf[q] /\ NothingByHand(NozzleOf[r])
        /\ db.logs[r] # <<>> /\ db.logs[q] # <<>>
        => \/ db.logs[r][1].closing <= db.logs[q][1].opening
           \/ db.logs[q][1].closing <= db.logs[r][1].opening

(* Every reading of nozzle n so far reports meter_total, or none does. *)
Uniform(n) ==
    LET readings == {r \in Refs : NozzleOf[r] = n /\ Dispensed(r)}
    IN  readings \subseteq metered \/ readings \intersect metered = {}

(* On a nozzle without confirmed manual logs whose readings are uniform, the *)
(* meter kept in Odoo never runs ahead of the totalizer of the pump: nothing *)
(* is sold that was not dispensed.  (With both kinds of reading on a nozzle, *)
(* a reading that is retried late can be counted twice.)                     *)
MeterNeverAhead ==
    \A n \in Nozzles :
        NothingByHand(n) /\ Uniform(n) => db.meterEnd[n] <= totalizer[n]

(* A processed reading stays processed, with the same shift log. *)
ProcessedIsFinal ==
    [][\A r \in Refs : db.buffer[r] = "processed" =>
          db'.buffer[r] = "processed" /\ db'.logs[r] = db.logs[r]]_stationVars

=============================================================================
