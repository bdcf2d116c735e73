------------------------- MODULE FuelStation_proofs -------------------------
(***************************************************************************)
(* Proofs about the station: what holds for every set of readings,         *)
(* nozzles, tanks and manual logs.                                         *)
(*                                                                         *)
(* StationInv is about the rows of the buffer and the logs made of them,   *)
(* BooksInv about what the logs say: the stretches of the meter they       *)
(* charge, the litres in the tanks and what the pumps have shown.  Both    *)
(* hold of the committed tables and of the running transaction's copy.     *)
(* Litres are counted as sets of litres, so that a log that is posted adds *)
(* a set apart from all the others and no sum has to be reordered.         *)
(***************************************************************************)
EXTENDS FuelStation, FiniteSetTheorems, TLAPS

(* Any step of the station, whoever pushes the batches. *)
StationStep ==
    \/ \E r \in Refs : Dispense(r) \/ ReadingStep(r)
    \/ StaffStep
    \/ \E batch \in Seq(Refs), waiting \in BOOLEAN : BeginPush(batch, waiting)
    \/ BeginSweep \/ CommitTx \/ AbortTx

(* The elements of a sequence, by index. *)
LEMMA Elements ==
    ASSUME NEW S, NEW s \in Seq(S)
    PROVE  ToSet(s) = {s[i] : i \in 1..Len(s)}
<1>1. DOMAIN s = 1..Len(s)
  OBVIOUS
<1> QED BY <1>1 DEF ToSet

LEMMA NoElements == ToSet(<<>>) = {}
BY DEF ToSet

(* Reading the front of a queue and dropping it. *)
LEMMA HeadTail ==
    ASSUME NEW S, NEW s \in Seq(S), s # <<>>
    PROVE  /\ Head(s) \in S
           /\ Tail(s) \in Seq(S)
           /\ ToSet(s) = {Head(s)} \union ToSet(Tail(s))
<1>1. Len(s) \in Nat \ {0} /\ Tail(s) \in Seq(S) /\ Len(Tail(s)) = Len(s) - 1
  OBVIOUS
<1>2. \A i \in 1..Len(Tail(s)) : Tail(s)[i] = s[i + 1]
  OBVIOUS
<1>3. Head(s) = s[1] /\ s[1] \in S
  OBVIOUS
<1>4. ToSet(s) = {s[i] : i \in 1..Len(s)} /\ ToSet(Tail(s)) = {Tail(s)[i] : i \in 1..Len(Tail(s))}
  BY <1>1, Elements
<1>5. ToSet(s) \subseteq {Head(s)} \union ToSet(Tail(s))
  <2> SUFFICES ASSUME NEW i \in 1..Len(s), i # 1
               PROVE  s[i] \in ToSet(Tail(s))
    BY <1>3, <1>4
  <2>1. i - 1 \in 1..Len(Tail(s)) /\ s[i] = Tail(s)[i - 1]
    BY <1>1, <1>2
  <2> QED BY <2>1, <1>4
<1>6. {Head(s)} \union ToSet(Tail(s)) \subseteq ToSet(s)
  BY <1>1, <1>2, <1>3, <1>4
<1> QED BY <1>1, <1>3, <1>5, <1>6

(* Adding at the end of a queue. *)
LEMMA AppendSet ==
    ASSUME NEW S, NEW s \in Seq(S), NEW e \in S
    PROVE  /\ Append(s, e) \in Seq(S)
           /\ ToSet(Append(s, e)) = ToSet(s) \union {e}
<1>1. Append(s, e) \in Seq(S) /\ Len(Append(s, e)) = Len(s) + 1 /\ Len(s) \in Nat
  OBVIOUS
<1>2. /\ \A i \in 1..Len(s) : Append(s, e)[i] = s[i]
      /\ Append(s, e)[Len(s) + 1] = e
  OBVIOUS
<1>3. ToSet(s) = {s[i] : i \in 1..Len(s)} /\ ToSet(Append(s, e)) = {Append(s, e)[i] : i \in 1..Len(s) + 1}
  BY <1>1, Elements
<1>4. ToSet(Append(s, e)) \subseteq ToSet(s) \union {e}
  <2> SUFFICES ASSUME NEW i \in 1..Len(s) + 1, i # Len(s) + 1
               PROVE  Append(s, e)[i] \in ToSet(s)
    BY <1>2, <1>3
  <2>1. i \in 1..Len(s)
    BY <1>1
  <2> QED BY <2>1, <1>2, <1>3
<1>5. ToSet(s) \union {e} \subseteq ToSet(Append(s, e))
  BY <1>1, <1>2, <1>3
<1> QED BY <1>1, <1>4, <1>5

(* An ordering of a set of readings is a sequence of exactly them. *)
LEMMA OrderedRows ==
    ASSUME NEW S \in SUBSET Refs, NEW s \in SetToSeqs(S)
    PROVE  s \in Seq(Refs) /\ s \in Seq(S)
<1>1. Cardinality(S) \in Nat
  BY FS_CardinalityType, FS_Subset, StationAssumption
<1>2. s \in [1..Cardinality(S) -> S]
  BY DEF SetToSeqs
<1> QED BY <1>1, <1>2

-----------------------------------------------------------------------------
(* Selling keeps the tables well typed when the meters and the tank allow it. *)
LEMMA SoldType ==
    ASSUME NEW t \in Tables, NEW n \in Nozzles, NEW o \in Nat, NEW c \in Nat,
           Confirmable(t, n, o, c)
    PROVE  /\ Sold(t, n, o, c).buffer = t.buffer
           /\ Sold(t, n, o, c).logs = t.logs
           /\ Sold(t, n, o, c) \in Tables
<1>1. TankOf[n] \in Tanks /\ t.tank[TankOf[n]] \in Nat
  BY StationAssumption DEF Tables
<1>2. t.tank[TankOf[n]] - (c - o) \in Nat
  BY <1>1 DEF Confirmable
<1> QED BY <1>1, <1>2 DEF Sold, Tables

LEMMA PostedType ==
    ASSUME StationTypeOK, NEW t \in Tables, NEW r \in Refs, Postable(t, r)
    PROVE  /\ Posted(t, r) \in Tables
           /\ Posted(t, r).buffer = [t.buffer EXCEPT ![r] = "processed"]
           /\ \A q \in Refs : q # r => Posted(t, r).logs[q] = t.logs[q]
           /\ Len(Posted(t, r).logs[r]) = Len(t.logs[r]) + 1
<1> DEFINE n == NozzleOf[r]
           o == t.meterEnd[n]
           c == Closing(t, r)
           e == [opening |-> o, closing |-> c]
<1>1. n \in Nozzles /\ o \in Nat /\ c \in Nat
  <2>1. NozzleOf[r] \in Nozzles /\ Volume[r] \in Nat
    BY StationAssumption
  <2>2. shown[r] \in Nat
    BY DEF StationTypeOK
  <2>3. t.meterEnd[NozzleOf[r]] \in Nat
    BY <2>1 DEF Tables
  <2> QED BY <2>1, <2>2, <2>3 DEF Closing
<1>2. Confirmable(t, n, o, c)
  BY DEF Postable
<1> HIDE DEF n, o, c
<1>3. Sold(t, n, o, c) \in Tables /\ Sold(t, n, o, c).buffer = t.buffer /\ Sold(t, n, o, c).logs = t.logs
  BY <1>1, <1>2, SoldType
<1>4. e \in ShiftLog
  BY <1>1 DEF ShiftLog
<1> DEFINE u == Sold(t, n, o, c)
<1>5. Posted(t, r) = [u EXCEPT !.buffer[r] = "processed", !.logs[r] = Append(@, e)]
  BY DEF Posted, n, o, c
<1>6. t.logs[r] \in Seq(ShiftLog)
  BY DEF Tables
<1>7. /\ Append(t.logs[r], e) \in Seq(ShiftLog)
      /\ Len(Append(t.logs[r], e)) = Len(t.logs[r]) + 1
  BY <1>4, <1>6
<1> HIDE DEF u, e
<1>8. /\ u.buffer \in [Refs -> RowState] /\ u.logs \in [Refs -> Seq(ShiftLog)]
      /\ u \in Tables /\ u.buffer = t.buffer /\ u.logs = t.logs
  BY <1>3 DEF u, Tables
<1> DEFINE b == [u.buffer EXCEPT ![r] = "processed"]
           l == [u.logs EXCEPT ![r] = Append(u.logs[r], e)]
<1>9. b \in [Refs -> RowState]
  BY <1>8 DEF RowState
<1>10. l \in [Refs -> Seq(ShiftLog)] /\ l[r] = Append(t.logs[r], e) /\ \A q \in Refs : q # r => l[q] = t.logs[q]
  BY <1>7, <1>8
<1>11. Posted(t, r) = [u EXCEPT !.buffer = b, !.logs = l]
  BY <1>5
<1> HIDE DEF b, l
<1>12. /\ Posted(t, r).buffer = b /\ Posted(t, r).logs = l
       /\ Posted(t, r) \in Tables
  BY <1>8, <1>9, <1>10, <1>11 DEF Tables
<1>13. b = [t.buffer EXCEPT ![r] = "processed"]
  BY <1>8 DEF b
<1> QED BY <1>7, <1>10, <1>12, <1>13

-----------------------------------------------------------------------------
LEMMA NoTxType == NoTx \in Transaction
BY DEF NoTx, Transaction

(* Every step of the station preserves the types. *)
LEMMA StationTypeStep ==
    ASSUME StationTypeOK, StationStep
    PROVE  StationTypeOK'
<1> USE DEF site
<1>0. tx \in Transaction /\ work \in Tables /\ db \in Tables /\ manual \in [ManualLogs -> ManualLog]
  BY DEF StationTypeOK
<1> USE <1>0
<1>1. ASSUME NEW r \in Refs, Dispense(r) PROVE StationTypeOK'
  <2>1. NozzleOf[r] \in Nozzles /\ Volume[r] \in Nat
    BY StationAssumption
  <2>2. totalizer[NozzleOf[r]] + Volume[r] \in Nat
    BY <2>1 DEF StationTypeOK
  <2> QED BY <1>1, <2>1, <2>2 DEF Dispense, StationTypeOK
<1>2. ASSUME NEW n \in Nozzles, AddNozzle(n) PROVE StationTypeOK'
  BY <1>2 DEF AddNozzle, StationTypeOK
<1>3. ASSUME NEW k \in Tanks, Deliver(k) PROVE StationTypeOK'
  <2>1. Drop \in Nat /\ db.tank[k] + Drop \in Nat /\ delivered[k] + Drop \in Nat
    BY StationAssumption DEF Tables, StationTypeOK
  <2>2. db' \in Tables
    BY <1>3, <2>1 DEF Deliver, Tables
  <2>3. delivered' \in [Tanks -> Nat]
    BY <1>3, <2>1 DEF Deliver, StationTypeOK
  <2> QED BY <1>3, <2>2, <2>3 DEF Deliver, StationTypeOK
<1>4. ASSUME NEW batch \in Seq(Refs), NEW waiting \in BOOLEAN, BeginPush(batch, waiting)
      PROVE  StationTypeOK'
  <2>1. tx' \in Transaction
    BY <1>4, NoTxType DEF BeginPush, Transaction
  <2> QED BY <1>4, <2>1 DEF BeginPush, StationTypeOK
<1>5. ASSUME NEW r \in Refs, RejectReading(r) \/ ReportDuplicate(r) PROVE StationTypeOK'
  <2>1. Tail(tx.todo) \in Seq(Refs)
    BY <1>5, HeadTail DEF RejectReading, ReportDuplicate, Receiving, Transaction
  <2>2. [tx EXCEPT !.todo = Tail(tx.todo)] \in Transaction
    BY <2>1 DEF Transaction
  <2>3. [tx EXCEPT !.todo = Tail(tx.todo), !.duplicates = @ \union {r}] \in Transaction
    BY <2>1 DEF Transaction
  <2> QED BY <1>5, <2>2, <2>3 DEF RejectReading, ReportDuplicate, StationTypeOK
<1>6. ASSUME NEW r \in Refs, AcceptReading(r) PROVE StationTypeOK'
  <2>1. Tail(tx.todo) \in Seq(Refs) /\ Append(tx.rows, r) \in Seq(Refs)
    BY <1>6, HeadTail, AppendSet DEF AcceptReading, Receiving, Transaction
  <2>2. tx' \in Transaction
    <3>1. [tx EXCEPT !.todo = Tail(@), !.rows = Append(@, r), !.accepted = @ \union {r}] \in Transaction
      BY <2>1 DEF Transaction
    <3> QED BY <1>6, <3>1 DEF AcceptReading
  <2>3. work' \in Tables
    BY <1>6 DEF AcceptReading, Tables, RowState
  <2> QED BY <1>6, <2>2, <2>3 DEF AcceptReading, StationTypeOK
<1>7. ASSUME BeginSweep PROVE StationTypeOK'
  <2>1. PICK rows \in SetToSeqs({r \in Refs : db.buffer[r] = "error"}) :
            tx' = [NoTx EXCEPT !.kind = "sweep", !.rows = rows]
    BY <1>7 DEF BeginSweep
  <2>2. rows \in Seq(Refs)
    BY <2>1, OrderedRows
  <2>3. tx' \in Transaction
    BY <2>1, <2>2, NoTxType DEF Transaction
  <2> QED BY <1>7, <2>3 DEF BeginSweep, StationTypeOK
<1>8. ASSUME NEW r \in Refs, BeginRetry(r) PROVE StationTypeOK'
  <2>1. <<r>> \in Seq(Refs)
    OBVIOUS
  <2>2. [NoTx EXCEPT !.kind = "sweep", !.rows = <<r>>] \in Transaction
    BY <2>1, NoTxType DEF Transaction
  <2> QED BY <1>8, <2>2 DEF BeginRetry, StationTypeOK
<1>9. ASSUME NEW r \in Refs, SkipRow(r) \/ IgnoreRow(r) \/ PostRow(r) \/ FailRow(r)
      PROVE  StationTypeOK'
  <2>1. Processing(r) /\ NextRow
    BY <1>9 DEF SkipRow, IgnoreRow, PostRow, FailRow
  <2>2. Tail(tx.rows) \in Seq(Refs)
    BY <2>1, HeadTail DEF Processing, Transaction
  <2>3. tx' \in Transaction
    <3>1. [tx EXCEPT !.rows = Tail(tx.rows)] \in Transaction
      BY <2>2 DEF Transaction
    <3> QED BY <2>1, <3>1 DEF NextRow
  <2>4. CASE SkipRow(r)
    BY <2>3, <2>4 DEF SkipRow, StationTypeOK
  <2>5. CASE IgnoreRow(r)
    <3>1. work' \in Tables
      BY <2>5 DEF IgnoreRow, Tables, RowState
    <3> QED BY <2>3, <2>5, <3>1 DEF IgnoreRow, StationTypeOK
  <2>6. CASE PostRow(r)
    <3>1. work' \in Tables
      BY <2>6, PostedType DEF PostRow
    <3> QED BY <2>3, <2>6, <3>1 DEF PostRow, StationTypeOK
  <2>7. CASE FailRow(r)
    <3>1. work' \in Tables
      BY <2>7 DEF FailRow, Tables, RowState
    <3> QED BY <2>3, <2>7, <3>1 DEF FailRow, StationTypeOK
  <2> QED BY <1>9, <2>4, <2>5, <2>6, <2>7
<1>10. ASSUME CommitTx \/ AbortTx PROVE StationTypeOK'
  BY <1>10, NoTxType DEF CommitTx, AbortTx, StationTypeOK
<1>11. ASSUME NEW l \in ManualLogs, NEW n \in Nozzles, NEW o \in TypedMeters,
              NEW c \in TypedMeters, DraftLog(l, n, o, c)
       PROVE  StationTypeOK'
  <2>1. o \in Nat /\ c \in Nat
    BY StationAssumption
  <2>2. manual' \in [ManualLogs -> ManualLog]
    BY <1>11, <2>1 DEF DraftLog, ManualLog
  <2> QED BY <1>11, <2>2 DEF DraftLog, StationTypeOK
<1>12. ASSUME NEW l \in ManualLogs, ConfirmLog(l) PROVE StationTypeOK'
  <2>1. manual[l] \in ManualLog
    OBVIOUS
  <2>2. manual[l].nozzle \in Nozzles /\ manual[l].opening \in Nat /\ manual[l].closing \in Nat
    BY <2>1 DEF ManualLog
  <2>3. db' \in Tables
    BY <1>12, <2>2, SoldType DEF ConfirmLog
  <2>4. manual' \in [ManualLogs -> ManualLog]
    BY <1>12, <2>1 DEF ConfirmLog, ManualLog
  <2> QED BY <1>12, <2>3, <2>4 DEF ConfirmLog, StationTypeOK
<1> QED
  BY <1>1, <1>2, <1>3, <1>4, <1>5, <1>6, <1>7, <1>8, <1>9, <1>10, <1>11, <1>12
  DEF StationStep, StaffStep, ReadingStep

LEMMA StationTypeInit == StationInit => StationTypeOK
<1> SUFFICES ASSUME StationInit PROVE StationTypeOK
  OBVIOUS
<1>1. MeterStart \in Nat /\ InitialVolume \in Nat
  BY StationAssumption
<1>2. db \in Tables
  <2>1. <<>> \in Seq(ShiftLog)
    OBVIOUS
  <2> QED BY <1>1, <2>1 DEF StationInit, Tables, RowState
<1>3. manual \in [ManualLogs -> ManualLog]
  BY StationAssumption DEF StationInit, ManualLog
<1>4. tx \in Transaction
  BY NoTxType DEF StationInit
<1> QED BY <1>1, <1>2, <1>3, <1>4 DEF StationInit, StationTypeOK

(* The station by itself takes the station's steps. *)
LEMMA StationNextStep == ASSUME StationNext PROVE StationStep
BY StationAssumption DEF StationNext, StationStep

(* The tables and the running transaction are always well formed: meters and *)
(* tank volumes never become negative, whatever is confirmed or retried.     *)
THEOREM StationTypes == StationSpec => []StationTypeOK
<1>1. StationInit => StationTypeOK
  BY StationTypeInit
<1>2. StationTypeOK /\ [StationNext]_stationVars => StationTypeOK'
  <2>1. CASE StationNext
    BY <2>1, StationNextStep, StationTypeStep
  <2>2. CASE UNCHANGED stationVars
    BY <2>2 DEF stationVars, site, StationTypeOK
  <2> QED BY <2>1, <2>2
<1> QED BY <1>1, <1>2, PTL DEF StationSpec

-----------------------------------------------------------------------------
(* How the working copy of the tables relates to the committed ones. *)

(* Nothing is half done when no transaction runs. *)
IdleIsClean == Idle => work = db

(* A row that is pending waits for the running transaction to process it. *)
PendingIsQueued == \A r \in Refs : work.buffer[r] = "pending" => r \in ToSet(tx.rows)

(* A transaction forgets no row and reopens no processed one. *)
WorkExtends ==
    \A r \in Refs :
        /\ r \in Buffered(db) => r \in Buffered(work)
        /\ db.buffer[r] = "processed" =>
              work.buffer[r] = "processed" /\ work.logs[r] = db.logs[r]

(* The answer being built, and the rows to be processed, are stored rows. *)
ReportsStored ==
    tx.accepted \union tx.duplicates \union ToSet(tx.rows) \subseteq Buffered(work)

StationInv ==
    /\ StationTypeOK
    /\ PostedOnce
    /\ NonePending
    /\ IdleIsClean
    /\ PendingIsQueued
    /\ WorkExtends
    /\ ReportsStored

(* A step that gives row r of the working copy a state other than processed, *)
(* where it was not processed, and leaves the logs alone.                    *)
LEMMA RowMarked ==
    ASSUME StationInv, NEW r \in Refs, NEW st \in RowState \ {"absent", "processed"},
           work.buffer[r] # "processed",
           work' = [work EXCEPT !.buffer[r] = st], db' = db
    PROVE  /\ PostedOnce' /\ WorkExtends' /\ NonePending'
           /\ Buffered(work') = Buffered(work) \union {r}
           /\ work'.buffer[r] = st
           /\ \A q \in Refs : q # r => work'.buffer[q] = work.buffer[q]
<1>1. work \in Tables /\ db \in Tables
  BY DEF StationInv, StationTypeOK
<1>2. /\ work'.logs = work.logs
      /\ work'.buffer = [work.buffer EXCEPT ![r] = st]
  BY <1>1 DEF Tables
<1>3. work.buffer \in [Refs -> RowState]
  BY <1>1 DEF Tables
<1>4. /\ work'.buffer[r] = st
      /\ \A q \in Refs : q # r => work'.buffer[q] = work.buffer[q]
  BY <1>2, <1>3
<1>5. PostedOnce'
  <2>1. \A q \in Refs : Len(db'.logs[q]) = IF db'.buffer[q] = "processed" THEN 1 ELSE 0
    BY DEF PostedOnce, StationInv
  <2>2. \A q \in Refs : Len(work.logs[q]) = IF work.buffer[q] = "processed" THEN 1 ELSE 0
    BY DEF PostedOnce, StationInv
  <2>3. \A q \in Refs : Len(work'.logs[q]) = IF work'.buffer[q] = "processed" THEN 1 ELSE 0
    <3> SUFFICES ASSUME NEW q \in Refs
                 PROVE  Len(work'.logs[q]) = IF work'.buffer[q] = "processed" THEN 1 ELSE 0
      OBVIOUS
    <3>1. work'.buffer[q] = "processed" <=> work.buffer[q] = "processed"
      BY <1>4
    <3>2. work'.logs[q] = work.logs[q]
      BY <1>2
    <3> QED BY <2>2, <3>1, <3>2
  <2> SUFFICES ASSUME NEW q \in Refs, NEW t \in {db', work'}
               PROVE  Len(t.logs[q]) = IF t.buffer[q] = "processed" THEN 1 ELSE 0
    BY DEF PostedOnce
  <2>4. CASE t = db'
    BY <2>1, <2>4
  <2>5. CASE t = work'
    BY <2>3, <2>5
  <2> QED BY <2>4, <2>5
<1>6. Buffered(work') = Buffered(work) \union {r}
  BY <1>4 DEF Buffered
<1>7. WorkExtends'
  BY <1>2, <1>4, <1>6 DEF WorkExtends, Buffered, StationInv
<1>8. NonePending'
  BY DEF NonePending, StationInv
<1> QED BY <1>4, <1>5, <1>6, <1>7, <1>8

(* A step of the station that touches neither copy of the tables. *)
LEMMA TablesKept ==
    ASSUME StationInv, work' = work, db' = db
    PROVE  PostedOnce' /\ WorkExtends' /\ NonePending'
BY DEF StationInv, PostedOnce, WorkExtends, NonePending, Buffered

(* A transaction of the staff that changes volumes and meters only. *)
LEMMA RowsKept ==
    ASSUME StationInv, Idle, tx' = tx, work' = db',
           db'.buffer = db.buffer, db'.logs = db.logs
    PROVE  PostedOnce' /\ WorkExtends' /\ NonePending' /\ IdleIsClean' /\ PendingIsQueued' /\ ReportsStored'
<1>1. work = db
  BY DEF StationInv, IdleIsClean
<1>2. PostedOnce' /\ NonePending' /\ IdleIsClean'
  BY DEF StationInv, PostedOnce, NonePending, IdleIsClean
<1>3. WorkExtends'
  BY DEF WorkExtends, Buffered
<1>4. PendingIsQueued'
  BY <1>1 DEF StationInv, PendingIsQueued
<1>5. ReportsStored'
  BY <1>1 DEF StationInv, ReportsStored, Buffered
<1> QED BY <1>2, <1>3, <1>4, <1>5

(* A transaction begins. *)
LEMMA TxBegins ==
    ASSUME StationInv, Idle, work' = work, db' = db, tx'.kind # "none",
           tx'.accepted = {}, tx'.duplicates = {}, ToSet(tx'.rows) \subseteq Buffered(work)
    PROVE  PostedOnce' /\ WorkExtends' /\ NonePending' /\ IdleIsClean' /\ PendingIsQueued' /\ ReportsStored'
<1>1. work = db
  BY DEF StationInv, IdleIsClean
<1>2. PostedOnce' /\ WorkExtends' /\ NonePending'
  BY TablesKept
<1>3. PendingIsQueued'
  BY <1>1 DEF StationInv, NonePending, PendingIsQueued
<1>4. tx'.accepted \union tx'.duplicates \union ToSet(tx'.rows) \subseteq Buffered(work')
  BY DEF Buffered
<1>5. IdleIsClean' /\ ReportsStored'
  BY <1>4 DEF IdleIsClean, Idle, ReportsStored
<1> QED BY <1>2, <1>3, <1>5

(* Every step of the station preserves the invariant. *)
LEMMA StationInvStep ==
    ASSUME StationInv, StationStep
    PROVE  StationInv'
<1> DEFINE Goal == /\ PostedOnce' /\ WorkExtends' /\ NonePending'
                   /\ IdleIsClean' /\ PendingIsQueued' /\ ReportsStored'
<1>0. StationTypeOK'
  BY StationTypeStep DEF StationInv
<1> USE DEF site
<1>a. tx \in Transaction /\ work \in Tables /\ db \in Tables
  BY DEF StationInv, StationTypeOK
<1>1. ASSUME UNCHANGED <<db, work, tx>> PROVE Goal
  BY <1>1, TablesKept DEF StationInv, IdleIsClean, Idle, PendingIsQueued, ReportsStored, Buffered
<1>2. ASSUME NEW k \in Tanks, Deliver(k) PROVE Goal
  <2>1. db'.buffer = db.buffer /\ db'.logs = db.logs
    BY <1>2, <1>a DEF Deliver, Tables
  <2> QED BY <1>2, <2>1, RowsKept DEF Deliver
<1>3. ASSUME NEW l \in ManualLogs, ConfirmLog(l) PROVE Goal
  <2>1. db'.buffer = db.buffer /\ db'.logs = db.logs
    BY <1>3, <1>a DEF ConfirmLog, Sold, Tables
  <2> QED BY <1>3, <2>1, RowsKept DEF ConfirmLog
<1>4. ASSUME NEW batch \in Seq(Refs), NEW waiting \in BOOLEAN, BeginPush(batch, waiting)
      PROVE  Goal
  <2>1. tx'.kind = "push" /\ tx'.accepted = {} /\ tx'.duplicates = {} /\ tx'.rows = <<>>
    BY <1>4 DEF BeginPush, NoTx
  <2>2. ToSet(tx'.rows) \subseteq Buffered(work)
    BY <2>1, NoElements
  <2> QED BY <1>4, <2>1, <2>2, TxBegins DEF BeginPush
<1>5. ASSUME BeginSweep \/ \E r \in Refs : BeginRetry(r) PROVE Goal
  <2>1. tx'.kind = "sweep" /\ tx'.accepted = {} /\ tx'.duplicates = {}
    BY <1>5 DEF BeginSweep, BeginRetry, NoTx
  <2>2. work = db
    BY <1>5 DEF BeginSweep, BeginRetry, StationInv, IdleIsClean
  <2>3. ASSUME BeginSweep PROVE ToSet(tx'.rows) \subseteq Buffered(work)
    <3> DEFINE stuck == {r \in Refs : db.buffer[r] = "error"}
    <3>1. PICK rows \in SetToSeqs(stuck) : tx' = [NoTx EXCEPT !.kind = "sweep", !.rows = rows]
      BY <2>3 DEF BeginSweep
    <3>2. tx'.rows = rows
      BY <3>1 DEF NoTx
    <3>3. rows \in Seq(stuck)
      BY <3>1, OrderedRows
    <3>4. ToSet(rows) \subseteq stuck
      BY <3>3, Elements
    <3> QED BY <3>2, <3>4, <2>2 DEF Buffered
  <2>4. ASSUME NEW r \in Refs, BeginRetry(r) PROVE ToSet(tx'.rows) \subseteq Buffered(work)
    <3>1. tx'.rows = <<r>> /\ r \in Buffered(work)
      BY <2>2, <2>4 DEF BeginRetry, NoTx, Buffered
    <3>2. ToSet(<<r>>) = {r}
      BY DEF ToSet
    <3> QED BY <3>1, <3>2
  <2> QED BY <1>5, <2>1, <2>3, <2>4, TxBegins DEF BeginSweep, BeginRetry
<1>6. ASSUME NEW r \in Refs, RejectReading(r) \/ ReportDuplicate(r) PROVE Goal
  <2>1. UNCHANGED <<db, work>> /\ tx.kind = "push" /\ tx'.kind = "push" /\ tx'.rows = tx.rows
    BY <1>6, <1>a DEF RejectReading, ReportDuplicate, Receiving, Transaction
  <2>2. tx'.accepted \union tx'.duplicates \union ToSet(tx'.rows) \subseteq Buffered(work)
    <3>1. CASE RejectReading(r)
      BY <3>1, <1>a DEF RejectReading, Transaction, StationInv, ReportsStored
    <3>2. CASE ReportDuplicate(r)
      <4>1. tx'.accepted = tx.accepted /\ tx'.duplicates = tx.duplicates \union {r}
        BY <3>2, <1>a DEF ReportDuplicate, Transaction
      <4>2. r \in Buffered(work)
        BY <3>2 DEF ReportDuplicate, Buffered
      <4> QED BY <2>1, <4>1, <4>2 DEF StationInv, ReportsStored
    <3> QED BY <1>6, <3>1, <3>2
  <2> QED BY <2>1, <2>2, TablesKept
      DEF StationInv, IdleIsClean, Idle, PendingIsQueued, ReportsStored, Buffered
<1>7. ASSUME NEW r \in Refs, AcceptReading(r) PROVE Goal
  <2>1. /\ tx'.kind = "push" /\ tx'.rows = Append(tx.rows, r)
        /\ tx'.accepted = tx.accepted \union {r} /\ tx'.duplicates = tx.duplicates
    BY <1>7, <1>a DEF AcceptReading, Receiving, Transaction
  <2>2. /\ PostedOnce' /\ WorkExtends' /\ NonePending'
        /\ Buffered(work') = Buffered(work) \union {r}
        /\ \A q \in Refs : q # r => work'.buffer[q] = work.buffer[q]
    BY <1>7, RowMarked DEF AcceptReading, RowState
  <2>3. ToSet(tx'.rows) = ToSet(tx.rows) \union {r}
    BY <2>1, <1>a, AppendSet DEF Transaction
  <2>4. PendingIsQueued'
    BY <2>2, <2>3 DEF StationInv, PendingIsQueued
  <2>5. ReportsStored'
    BY <2>1, <2>2, <2>3 DEF StationInv, ReportsStored
  <2> QED BY <2>1, <2>2, <2>4, <2>5 DEF IdleIsClean, Idle
<1>8. ASSUME NEW r \in Refs, SkipRow(r) \/ IgnoreRow(r) \/ PostRow(r) \/ FailRow(r)
      PROVE  Goal
  <2>1. Processing(r) /\ NextRow /\ db' = db
    BY <1>8 DEF SkipRow, IgnoreRow, PostRow, FailRow
  <2>2. /\ tx'.kind = tx.kind /\ tx'.rows = Tail(tx.rows)
        /\ tx'.accepted = tx.accepted /\ tx'.duplicates = tx.duplicates
    BY <2>1, <1>a DEF NextRow, Transaction
  <2>3. ToSet(tx.rows) = {r} \union ToSet(tx'.rows)
    BY <2>1, <2>2, <1>a, HeadTail DEF Processing, Transaction
  <2>4. /\ PostedOnce' /\ WorkExtends' /\ NonePending'
        /\ Buffered(work) \subseteq Buffered(work')
        /\ work'.buffer[r] # "pending"
        /\ \A q \in Refs : q # r => work'.buffer[q] = work.buffer[q]
    <3>1. CASE SkipRow(r)
      BY <3>1, TablesKept DEF SkipRow
    <3>2. CASE IgnoreRow(r)
      BY <3>2, RowMarked DEF IgnoreRow, RowState
    <3>3. CASE FailRow(r)
      BY <3>3, RowMarked DEF FailRow, RowState
    <3>4. CASE PostRow(r)
      <4>1. /\ work'.buffer = [work.buffer EXCEPT ![r] = "processed"]
            /\ \A q \in Refs : q # r => work'.logs[q] = work.logs[q]
            /\ Len(work'.logs[r]) = Len(work.logs[r]) + 1
        BY <3>4, <1>a, PostedType DEF PostRow, StationInv
      <4>2. work.buffer \in [Refs -> RowState] /\ work.buffer[r] # "processed"
        BY <3>4, <1>a DEF PostRow, Tables
      <4>3. /\ work'.buffer[r] = "processed"
            /\ \A q \in Refs : q # r => work'.buffer[q] = work.buffer[q]
        BY <4>1, <4>2
      <4>4. PostedOnce'
        BY <4>1, <4>2, <4>3, <2>1 DEF PostedOnce, StationInv
      <4>5. Buffered(work) \subseteq Buffered(work')
        BY <4>3 DEF Buffered
      <4>6. WorkExtends'
        BY <4>1, <4>2, <4>3, <4>5, <2>1 DEF WorkExtends, Buffered, StationInv
      <4>7. NonePending'
        BY <2>1 DEF NonePending, StationInv
      <4> QED BY <4>3, <4>4, <4>5, <4>6, <4>7
    <3> QED BY <1>8, <3>1, <3>2, <3>3, <3>4
  <2>5. PendingIsQueued'
    BY <2>3, <2>4 DEF StationInv, PendingIsQueued
  <2>6. ReportsStored'
    BY <2>2, <2>3, <2>4 DEF StationInv, ReportsStored
  <2> QED BY <2>1, <2>2, <2>4, <2>5, <2>6 DEF IdleIsClean, Idle, Processing
<1>9. ASSUME CommitTx PROVE Goal
  <2>1. db' = work /\ work' = work /\ tx' = NoTx /\ tx.rows = <<>>
    BY <1>9 DEF CommitTx
  <2>2. \A r \in Refs : work.buffer[r] # "pending"
    <3>1. ToSet(tx.rows) = {}
      BY <2>1 DEF ToSet
    <3> QED BY <3>1 DEF StationInv, PendingIsQueued
  <2>3. PostedOnce'
    BY <2>1 DEF StationInv, PostedOnce
  <2> QED BY <2>1, <2>2, <2>3, NoElements
      DEF WorkExtends, NonePending, IdleIsClean, PendingIsQueued, ReportsStored, NoTx, Buffered
<1>10. ASSUME AbortTx PROVE Goal
  <2>1. db' = db /\ work' = db /\ tx' = NoTx
    BY <1>10 DEF AbortTx
  <2>2. PostedOnce' /\ NonePending'
    BY <2>1 DEF StationInv, PostedOnce, NonePending
  <2> QED BY <2>1, <2>2, NoElements
      DEF StationInv, NonePending, WorkExtends, IdleIsClean, PendingIsQueued, ReportsStored, NoTx, Buffered
<1>11. Goal
  <2>1. (\E r \in Refs : Dispense(r)) => UNCHANGED <<db, work, tx>>
    BY DEF Dispense
  <2>2. (\E n \in Nozzles : AddNozzle(n)) => UNCHANGED <<db, work, tx>>
    BY DEF AddNozzle
  <2>3. (\E l \in ManualLogs, n \in Nozzles, o \in TypedMeters, c \in TypedMeters : DraftLog(l, n, o, c))
           => UNCHANGED <<db, work, tx>>
    BY DEF DraftLog
  <2> HIDE DEF Goal
  <2> QED
    BY <2>1, <2>2, <2>3, <1>1, <1>2, <1>3, <1>4, <1>5, <1>6, <1>7, <1>8, <1>9, <1>10
    DEF StationStep, StaffStep, ReadingStep
<1> QED BY <1>0, <1>11 DEF StationInv

LEMMA StationInvInit == StationInit => StationInv
<1> SUFFICES ASSUME StationInit PROVE StationInv
  OBVIOUS
<1>1. StationTypeOK
  BY StationTypeInit
<1>2. /\ db = work /\ tx = NoTx
      /\ \A r \in Refs : db.buffer[r] = "absent" /\ db.logs[r] = <<>>
  BY DEF StationInit
<1>3. PostedOnce
  BY <1>2 DEF PostedOnce
<1> QED BY <1>1, <1>2, <1>3, NoElements
    DEF StationInv, NonePending, IdleIsClean, PendingIsQueued, WorkExtends, ReportsStored, Buffered, NoTx

LEMMA StationInvStutter == ASSUME StationInv, UNCHANGED stationVars PROVE StationInv'
BY DEF stationVars, site, StationInv, StationTypeOK, PostedOnce, NonePending, IdleIsClean, Idle,
       PendingIsQueued, WorkExtends, ReportsStored, Buffered

(* The tables, committed and in the making, always fit together. *)
THEOREM StationSafe == StationSpec => []StationInv
<1>1. StationInv /\ [StationNext]_stationVars => StationInv'
  BY StationNextStep, StationInvStep, StationInvStutter
<1> QED BY StationInvInit, <1>1, PTL DEF StationSpec

(* Whatever is resent, retried by the cron or by hand, or rolled back, a     *)
(* reading is processed exactly when one confirmed shift log stands for it.  *)
THEOREM ReadingsPostedOnce == StationSpec => []PostedOnce
<1>1. StationInv => PostedOnce
  BY DEF StationInv
<1> QED BY <1>1, StationSafe, PTL

(* No transaction of any entry point commits a pending row, which the retry *)
(* cron would never pick up.                                                 *)
THEOREM NoPendingCommitted == StationSpec => []NonePending
<1>1. StationInv => NonePending
  BY DEF StationInv
<1> QED BY <1>1, StationSafe, PTL

(* A commit never reopens a processed reading nor changes its shift log. *)
LEMMA ProcessedKept ==
    ASSUME StationInv, StationStep \/ UNCHANGED stationVars,
           NEW r \in Refs, db.buffer[r] = "processed"
    PROVE  db'.buffer[r] = "processed" /\ db'.logs[r] = db.logs[r]
<1> SUFFICES ASSUME db' # db PROVE db'.buffer[r] = "processed" /\ db'.logs[r] = db.logs[r]
  OBVIOUS
<1>1. db \in Tables
  BY DEF StationInv, StationTypeOK
<1>2. CASE CommitTx
  BY <1>2 DEF CommitTx, StationInv, WorkExtends
<1>3. CASE \E k \in Tanks : Deliver(k)
  BY <1>1, <1>3 DEF Deliver, Tables
<1>4. CASE \E l \in ManualLogs : ConfirmLog(l)
  BY <1>1, <1>4 DEF ConfirmLog, Sold, Tables
<1> QED
  BY <1>2, <1>3, <1>4
  DEF StationStep, StaffStep, ReadingStep, Dispense, RejectReading, ReportDuplicate, AcceptReading,
      SkipRow, IgnoreRow, PostRow, FailRow, AddNozzle, BeginRetry, DraftLog, BeginPush, BeginSweep,
      AbortTx, stationVars

(* A processed reading stays processed, with the shift log it was given. *)
THEOREM ProcessedStays == StationSpec => ProcessedIsFinal
<1>1. StationInv /\ [StationNext]_stationVars =>
         [\A r \in Refs : db.buffer[r] = "processed" =>
             db'.buffer[r] = "processed" /\ db'.logs[r] = db.logs[r]]_stationVars
  BY StationNextStep, ProcessedKept
<1> QED BY <1>1, StationSafe, PTL DEF StationSpec, ProcessedIsFinal
-----------------------------------------------------------------------------
(* What the meters and the tank say of the logs. *)

(* The entry of a posted reading. *)
Entry(t, r) == t.logs[r][1]

PostedOn(t, n) == {r \in Refs : NozzleOf[r] = n /\ t.logs[r] # <<>>}

DispensedOn(n) == {r \in Refs : NozzleOf[r] = n /\ Dispensed(r)}

(* Each litre of a set of readings, known by its reading. *)
LitresOf(S) == UNION {{r} \X (1 .. Volume[r]) : r \in S}

(* Set S holds litres litres. *)
Holds(S, litres) == IsFiniteSet(S) /\ Cardinality(S) = litres

(* The stretches charged on a nozzle follow one another up to its meter. *)
InOrder(t) ==
    \A n \in Nozzles : NothingByHand(n) =>
        /\ \A r \in PostedOn(t, n) :
              Entry(t, r).opening <= Entry(t, r).closing /\ Entry(t, r).closing <= t.meterEnd[n]
        /\ \A r, q \in PostedOn(t, n) : r # q =>
              \/ Entry(t, r).closing <= Entry(t, q).opening
              \/ Entry(t, q).closing <= Entry(t, r).opening

(* The readings in the tables were dispensed. *)
OnlyDispensed(t) ==
    /\ \A r \in Buffered(t) : Dispensed(r)
    /\ \A n \in Nozzles : PostedOn(t, n) \subseteq DispensedOn(n)

(* What the meter of nozzle n shows in Odoo.  If every reading reports its *)
(* meter_total it is one of theirs; if none does, it has counted the       *)
(* volumes of those posted.                                                *)
MeterKept(t) ==
    \A n \in Nozzles : NothingByHand(n) =>
        /\ DispensedOn(n) \subseteq metered => t.meterEnd[n] <= totalizer[n]
        /\ DispensedOn(n) \intersect metered = {} =>
              MeterStart <= t.meterEnd[n] /\ Holds(LitresOf(PostedOn(t, n)), t.meterEnd[n] - MeterStart)

(* The totalizer of a pump has counted the volumes of its readings. *)
PumpsCount ==
    /\ \A n \in Nozzles :
          MeterStart <= totalizer[n] /\ Holds(LitresOf(DispensedOn(n)), totalizer[n] - MeterStart)
    /\ \A r \in Refs : shown[r] <= totalizer[NozzleOf[r]]
    /\ \A r \in metered : Dispensed(r)

(* A tank holds what it was given less the litres of the confirmed logs. *)
StockKept(t) ==
    \A k \in Tanks :
        /\ IsFiniteSet(ForecourtLitres(t, k)) /\ IsFiniteSet(HandLitres(k))
        /\ t.tank[k] + SoldFrom(t, k) = InitialVolume + delivered[k]
        /\ \A r \in Refs : t.logs[r] # <<>> => Entry(t, r).opening <= Entry(t, r).closing

(* A manual log that is typed in sells no negative volume. *)
HandInOrder == \A l \in ManualLogs : manual[l].opening <= manual[l].closing

TodoDispensed == \A r \in ToSet(tx.todo) : Dispensed(r)

InBooks(t) == InOrder(t) /\ OnlyDispensed(t) /\ MeterKept(t) /\ StockKept(t)

BooksInv ==
    /\ TodoDispensed
    /\ PumpsCount
    /\ HandInOrder
    /\ \A t \in {db, work} : InBooks(t)

(* Set U of litres and those x sold between meter values a and b. *)
With(U, x, a, b) == U \union ({x} \X (a + 1 .. b))

LEMMA LogAdds ==
    ASSUME NEW U, IsFiniteSet(U), NEW x, NEW a \in Nat, NEW b \in Nat, a <= b,
           \A y \in U : y[1] # x
    PROVE  IsFiniteSet(With(U, x, a, b)) /\ Cardinality(With(U, x, a, b)) = Cardinality(U) + (b - a)
<1> DEFINE I == a + 1 .. b
           V == {x} \X I
<1>1. IsFiniteSet(I) /\ Cardinality(I) = b - a
  <2>1. IsFiniteSet(I) /\ Cardinality(I) = IF a + 1 > b THEN 0 ELSE b - (a + 1) + 1
    BY FS_Interval
  <2> QED BY <2>1
<1> HIDE DEF I
<1>2. IsFiniteSet({x}) /\ Cardinality({x}) = 1
  BY FS_Singleton
<1>3. IsFiniteSet(V) /\ Cardinality(V) = b - a
  <2>1. IsFiniteSet(V) /\ Cardinality(V) = Cardinality({x}) * Cardinality(I)
    BY <1>1, <1>2, FS_Product, Zenon
  <2>2. 1 * (b - a) = b - a
    OBVIOUS
  <2> QED BY <1>1, <1>2, <2>1, <2>2
<1>4. U \intersect V = {} /\ With(U, x, a, b) = U \union V
  BY DEF With, I
<1> HIDE DEF V
<1>5. /\ IsFiniteSet(U \union V)
      /\ Cardinality(U \union V) = Cardinality(U) + Cardinality(V) - Cardinality({})
  BY <1>3, <1>4, FS_Union
<1>6. Cardinality(U) \in Nat /\ Cardinality({}) = 0
  BY FS_CardinalityType, FS_EmptySet
<1>7. Cardinality(U \union V) = Cardinality(U) + (b - a)
  BY <1>3, <1>5, <1>6
<1> QED BY <1>4, <1>5, <1>7

(* What posting reading r in tables t writes. *)
PostWrites(t, r, u) ==
    LET n == NozzleOf[r]
        c == Closing(t, r)
    IN  /\ n \in Nozzles /\ c \in Nat /\ TankOf[n] \in Tanks
        /\ t.meterEnd[n] \in Nat /\ t.meterEnd[n] <= c /\ MeterStart <= c
        /\ u.meterEnd = [t.meterEnd EXCEPT ![n] = c]
        /\ u.tank = [t.tank EXCEPT ![TankOf[n]] = @ - (c - t.meterEnd[n])]
        /\ u.logs[r] # <<>>
        /\ Entry(u, r) = [opening |-> t.meterEnd[n], closing |-> c]
        /\ \A q \in Refs \ {r} : u.logs[q] = t.logs[q] /\ Entry(u, q) = Entry(t, q)
        /\ Buffered(u) = Buffered(t) \union {r}

LEMMA PostedData ==
    ASSUME StationTypeOK, NEW t \in Tables, NEW r \in Refs, Postable(t, r), t.logs[r] = <<>>
    PROVE  PostWrites(t, r, Posted(t, r))
<1> DEFINE n == NozzleOf[r]
           c == Closing(t, r)
           u == Posted(t, r)
<1>1. n \in Nozzles /\ TankOf[n] \in Tanks /\ t.meterEnd[n] \in Nat /\ Volume[r] \in Nat
  BY StationAssumption DEF Tables
<1>2. c \in Nat
  <2>1. shown[r] \in Nat
    BY DEF StationTypeOK
  <2> QED BY <1>1, <2>1 DEF Closing
<1>3. t.meterEnd[n] <= c /\ MeterStart <= c
  BY <1>1, <1>2, StationAssumption DEF Postable, Consistent, Confirmable
<1> DEFINE e == [opening |-> t.meterEnd[n], closing |-> c]
           m == [t.meterEnd EXCEPT ![n] = c]
           k == [t.tank EXCEPT ![TankOf[n]] = @ - (c - t.meterEnd[n])]
           l == [t.logs EXCEPT ![r] = <<e>>]
           b == [t.buffer EXCEPT ![r] = "processed"]
<1>4. /\ t = [buffer |-> t.buffer, logs |-> t.logs, meterEnd |-> t.meterEnd, tank |-> t.tank]
      /\ t.buffer \in [Refs -> RowState] /\ t.logs \in [Refs -> Seq(ShiftLog)]
      /\ t.meterEnd \in [Nozzles -> Nat] /\ t.tank \in [Tanks -> Nat]
  BY DEF Tables
<1>5. Append(t.logs[r], e) = <<e>>
  OBVIOUS
<1>6. Sold(t, n, t.meterEnd[n], c) = [t EXCEPT !.tank = k, !.meterEnd = m]
  BY <1>4 DEF Sold
<1>7. u = [[t EXCEPT !.tank = k, !.meterEnd = m] EXCEPT
              !.buffer[r] = "processed", !.logs[r] = Append(@, e)]
  BY <1>6 DEF Posted
<1> HIDE DEF m, k
<1>8. u.meterEnd = m /\ u.tank = k /\ u.logs = l /\ u.buffer = b
  BY <1>4, <1>5, <1>7
<1>9. l[r] = <<e>> /\ \A q \in Refs \ {r} : l[q] = t.logs[q]
  BY <1>4
<1>10. b[r] = "processed" /\ \A q \in Refs \ {r} : b[q] = t.buffer[q]
  BY <1>4
<1>11. Entry(u, r) = e /\ u.logs[r] # <<>>
  BY <1>8, <1>9 DEF Entry
<1>12. \A q \in Refs \ {r} : u.logs[q] = t.logs[q] /\ Entry(u, q) = Entry(t, q)
  BY <1>8, <1>9 DEF Entry
<1>13. Buffered(u) = Buffered(t) \union {r}
  BY <1>8, <1>10 DEF Buffered
<1> QED BY <1>1, <1>2, <1>3, <1>8, <1>11, <1>12, <1>13 DEF m, k, PostWrites

(* Posting a reading keeps the books in order. *)
LEMMA PostInOrder ==
    ASSUME StationTypeOK, NEW t \in Tables, NEW r \in Refs, Postable(t, r), t.logs[r] = <<>>,
           NEW u, u = Posted(t, r), InOrder(t)
    PROVE  InOrder(u)
<1> DEFINE n == NozzleOf[r]
           c == Closing(t, r)
<1> HIDE DEF n, c
<1>0. PostWrites(t, r, u)
  BY PostedData
<1>1. /\ n \in Nozzles /\ c \in Nat /\ t.meterEnd[n] \in Nat /\ t.meterEnd[n] <= c
      /\ u.meterEnd = [t.meterEnd EXCEPT ![n] = c]
      /\ u.logs[r] # <<>>
      /\ Entry(u, r) = [opening |-> t.meterEnd[n], closing |-> c]
      /\ \A q \in Refs \ {r} : u.logs[q] = t.logs[q] /\ Entry(u, q) = Entry(t, q)
  BY <1>0 DEF PostWrites, n, c
<1>2. u.meterEnd[n] = c /\ \A m \in Nozzles \ {n} : u.meterEnd[m] = t.meterEnd[m]
  BY <1>1 DEF Tables
<1>3. ASSUME NEW m \in Nozzles, NothingByHand(m)
      PROVE  /\ \A q \in PostedOn(u, m) : /\ Entry(u, q).opening <= Entry(u, q).closing
                                          /\ Entry(u, q).closing <= u.meterEnd[m]
             /\ \A q, p \in PostedOn(u, m) : q # p =>
                   \/ Entry(u, q).closing <= Entry(u, p).opening
                   \/ Entry(u, p).closing <= Entry(u, q).opening
  <2>1. /\ \A q \in PostedOn(t, m) : /\ Entry(t, q).opening <= Entry(t, q).closing
                                     /\ Entry(t, q).closing <= t.meterEnd[m]
        /\ \A q, p \in PostedOn(t, m) : q # p =>
              \/ Entry(t, q).closing <= Entry(t, p).opening
              \/ Entry(t, p).closing <= Entry(t, q).opening
    BY <1>3 DEF InOrder
  <2>2. ASSUME NEW q \in PostedOn(t, m) PROVE Entry(t, q).opening \in Nat /\ Entry(t, q).closing \in Nat
    <3>1. t.logs[q] \in Seq(ShiftLog) /\ t.logs[q] # <<>>
      BY DEF PostedOn, Tables
    <3>2. Entry(t, q) \in ShiftLog
      BY <3>1 DEF Entry
    <3> QED BY <3>2 DEF ShiftLog
  <2>3. CASE m # n
    <3>1. PostedOn(u, m) = PostedOn(t, m) /\ r \notin PostedOn(t, m)
      BY <1>1, <2>3 DEF PostedOn, n
    <3>2. \A q \in PostedOn(t, m) : Entry(u, q) = Entry(t, q)
      BY <1>1, <3>1 DEF PostedOn
    <3> QED BY <1>2, <2>1, <2>3, <3>1, <3>2
  <2>4. CASE m = n
    <3>1. PostedOn(u, m) = PostedOn(t, m) \union {r} /\ r \notin PostedOn(t, m)
      BY <1>1, <2>4 DEF PostedOn, n
    <3>2. \A q \in PostedOn(t, m) : Entry(u, q) = Entry(t, q)
      BY <1>1, <3>1 DEF PostedOn
    <3>3. \A q \in PostedOn(t, m) : Entry(u, q).closing <= Entry(u, r).opening
      BY <1>1, <2>1, <2>4, <3>2
    <3>4. \A q \in PostedOn(t, m) : Entry(u, q).closing <= u.meterEnd[m]
      BY <1>1, <1>2, <2>1, <2>2, <2>4, <3>2
    <3>5. Entry(u, r).opening <= Entry(u, r).closing /\ Entry(u, r).closing <= u.meterEnd[m]
      BY <1>1, <1>2, <2>4
    <3> QED BY <2>1, <3>1, <3>2, <3>3, <3>4, <3>5
  <2> QED BY <2>3, <2>4
<1> QED BY <1>3 DEF InOrder

(* Posting a dispensed reading moves the meter as the pump counted it. *)
LEMMA PostMeterKept ==
    ASSUME StationTypeOK, PumpsCount, NEW t \in Tables, NEW r \in Refs, Postable(t, r),
           t.logs[r] = <<>>, Dispensed(r), NEW u, u = Posted(t, r), MeterKept(t)
    PROVE  MeterKept(u)
<1> DEFINE n == NozzleOf[r]
           c == Closing(t, r)
<1> HIDE DEF n, c
<1>0. PostWrites(t, r, u)
  BY PostedData
<1>1. /\ n \in Nozzles /\ c \in Nat /\ t.meterEnd[n] \in Nat /\ t.meterEnd[n] <= c
      /\ u.meterEnd = [t.meterEnd EXCEPT ![n] = c]
      /\ u.logs[r] # <<>>
      /\ \A q \in Refs \ {r} : u.logs[q] = t.logs[q]
  BY <1>0 DEF PostWrites, n, c
<1>2. u.meterEnd[n] = c /\ \A m \in Nozzles \ {n} : u.meterEnd[m] = t.meterEnd[m]
  BY <1>1 DEF Tables
<1>3. ASSUME NEW m \in Nozzles, NothingByHand(m), m # n
      PROVE  /\ DispensedOn(m) \subseteq metered => u.meterEnd[m] <= totalizer[m]
             /\ DispensedOn(m) \intersect metered = {} =>
                   /\ MeterStart <= u.meterEnd[m]
                   /\ Holds(LitresOf(PostedOn(u, m)), u.meterEnd[m] - MeterStart)
  <2>1. PostedOn(u, m) = PostedOn(t, m)
    BY <1>1, <1>3 DEF PostedOn, n
  <2> QED BY <1>2, <1>3, <2>1 DEF MeterKept
<1>4. r \in DispensedOn(n)
  BY DEF DispensedOn, n
<1>5. ASSUME DispensedOn(n) \subseteq metered PROVE u.meterEnd[n] <= totalizer[n]
  <2>1. c = shown[r] /\ shown[r] <= totalizer[n]
    BY <1>4, <1>5 DEF Closing, PumpsCount, c, n
  <2> QED BY <1>2, <2>1
<1>6. ASSUME NothingByHand(n), DispensedOn(n) \intersect metered = {}
      PROVE  /\ MeterStart <= u.meterEnd[n]
             /\ Holds(LitresOf(PostedOn(u, n)), u.meterEnd[n] - MeterStart)
  <2> DEFINE S == LitresOf(PostedOn(t, n))
  <2>1. c = t.meterEnd[n] + Volume[r] /\ Volume[r] \in Nat /\ MeterStart \in Nat
    BY <1>4, <1>6, StationAssumption DEF Closing, c, n
  <2>2. /\ MeterStart <= t.meterEnd[n]
        /\ IsFiniteSet(S) /\ Cardinality(S) = t.meterEnd[n] - MeterStart
    BY <1>1, <1>6 DEF MeterKept, Holds
  <2>3. PostedOn(u, n) = PostedOn(t, n) \union {r} /\ r \notin PostedOn(t, n)
    BY <1>1 DEF PostedOn, n
  <2>4. LitresOf(PostedOn(u, n)) = With(S, r, 0, Volume[r])
    BY <2>3 DEF LitresOf, With
  <2>5. \A y \in S : y[1] # r
    BY <2>3 DEF LitresOf
  <2> HIDE DEF S
  <2>6. /\ IsFiniteSet(With(S, r, 0, Volume[r]))
        /\ Cardinality(With(S, r, 0, Volume[r])) = Cardinality(S) + (Volume[r] - 0)
    BY <2>1, <2>2, <2>5, LogAdds
  <2>7. Cardinality(LitresOf(PostedOn(u, n))) = u.meterEnd[n] - MeterStart
    BY <1>1, <1>2, <2>1, <2>2, <2>4, <2>6
  <2>8. MeterStart <= u.meterEnd[n]
    BY <1>1, <1>2, <2>1, <2>2
  <2> QED BY <2>4, <2>6, <2>7, <2>8 DEF Holds
<1> QED BY <1>3, <1>5, <1>6 DEF MeterKept

(* Posting a reading takes from the tank what its log sold. *)
LEMMA PostStockKept ==
    ASSUME StationTypeOK, NEW t \in Tables, NEW r \in Refs, Postable(t, r),
           t.logs[r] = <<>>, NEW u, u = Posted(t, r), StockKept(t)
    PROVE  StockKept(u)
<1> DEFINE n == NozzleOf[r]
           c == Closing(t, r)
           k == TankOf[n]
           o == t.meterEnd[n]
<1> HIDE DEF n, c
<1>0. PostWrites(t, r, u)
  BY PostedData
<1>1. /\ k \in Tanks /\ c \in Nat /\ o \in Nat /\ o <= c
      /\ u.tank = [t.tank EXCEPT ![k] = @ - (c - o)]
      /\ u.logs[r] # <<>>
      /\ Entry(u, r) = [opening |-> o, closing |-> c]
      /\ \A q \in Refs \ {r} : u.logs[q] = t.logs[q] /\ Entry(u, q) = Entry(t, q)
  BY <1>0 DEF PostWrites, n, c
<1> HIDE DEF o, k
<1>2. /\ t.tank[k] \in Nat /\ u.tank[k] = t.tank[k] - (c - o)
      /\ \A j \in Tanks \ {k} : u.tank[j] = t.tank[j]
  BY <1>1 DEF Tables
<1>3. \A q \in Refs : u.logs[q] # <<>> => Entry(u, q).opening <= Entry(u, q).closing
  BY <1>1 DEF StockKept
<1>4. ASSUME NEW j \in Tanks, j # k
      PROVE  /\ IsFiniteSet(ForecourtLitres(u, j)) /\ IsFiniteSet(HandLitres(j))
             /\ u.tank[j] + SoldFrom(u, j) = InitialVolume + delivered[j]
  <2>1. ForecourtLitres(u, j) = ForecourtLitres(t, j)
    BY <1>1, <1>4 DEF ForecourtLitres, Entry, k, n
  <2> QED BY <1>2, <1>4, <2>1 DEF StockKept, SoldFrom
<1>5. /\ IsFiniteSet(ForecourtLitres(u, k)) /\ IsFiniteSet(HandLitres(k))
      /\ u.tank[k] + SoldFrom(u, k) = InitialVolume + delivered[k]
  <2> DEFINE S == ForecourtLitres(t, k)
  <2>1. /\ IsFiniteSet(S) /\ IsFiniteSet(HandLitres(k))
        /\ t.tank[k] + (Cardinality(S) + Cardinality(HandLitres(k))) = InitialVolume + delivered[k]
    BY <1>1 DEF StockKept, SoldFrom
  <2>2. Litres(u.logs[r][1]) = o + 1 .. c
    BY <1>1 DEF Litres, Entry
  <2>3. ForecourtLitres(u, k) = With(S, r, o, c)
    BY <1>1, <2>2 DEF ForecourtLitres, Entry, With, k, n
  <2>4. \A y \in S : y[1] # r
    BY DEF ForecourtLitres
  <2> HIDE DEF S
  <2>5. /\ IsFiniteSet(ForecourtLitres(u, k))
        /\ Cardinality(ForecourtLitres(u, k)) = Cardinality(S) + (c - o)
    BY <1>1, <2>1, <2>3, <2>4, LogAdds
  <2>6. Cardinality(S) \in Nat /\ Cardinality(HandLitres(k)) \in Nat /\ delivered[k] \in Nat /\ InitialVolume \in Nat
    BY <1>1, <2>1, FS_CardinalityType, StationAssumption DEF StationTypeOK
  <2>7. u.tank[k] + (Cardinality(ForecourtLitres(u, k)) + Cardinality(HandLitres(k)))
           = InitialVolume + delivered[k]
    BY <1>1, <1>2, <2>1, <2>5, <2>6
  <2> QED BY <2>1, <2>5, <2>7 DEF SoldFrom
<1> QED BY <1>3, <1>4, <1>5 DEF StockKept

LEMMA PostBooks ==
    ASSUME StationTypeOK, PumpsCount, NEW t \in Tables, NEW r \in Refs, Postable(t, r),
           t.logs[r] = <<>>, Dispensed(r), InBooks(t)
    PROVE  InBooks(Posted(t, r))
<1> DEFINE u == Posted(t, r)
<1>0. PostWrites(t, r, u)
  BY PostedData
<1>1. InOrder(u) /\ MeterKept(u) /\ StockKept(u)
  BY PostInOrder, PostMeterKept, PostStockKept DEF InBooks
<1>2. /\ \A q \in Refs \ {r} : u.logs[q] = t.logs[q]
      /\ Buffered(u) = Buffered(t) \union {r}
  BY <1>0 DEF PostWrites
<1> HIDE DEF u
<1>3. OnlyDispensed(u)
  <2>1. \A q \in Buffered(u) : Dispensed(q)
    BY <1>2 DEF InBooks, OnlyDispensed
  <2>2. \A n \in Nozzles : PostedOn(u, n) \subseteq DispensedOn(n)
    BY <1>2 DEF InBooks, OnlyDispensed, PostedOn, DispensedOn
  <2> QED BY <2>1, <2>2 DEF OnlyDispensed
<1> QED BY <1>1, <1>3 DEF InBooks, u

(* A row that only changes its state leaves the books alone. *)
LEMMA RowBooks ==
    ASSUME NEW t, NEW u, u.logs = t.logs, u.meterEnd = t.meterEnd, u.tank = t.tank,
           \A r \in Buffered(u) : Dispensed(r), InBooks(t)
    PROVE  InBooks(u)
<1>1. \A n \in Nozzles : PostedOn(u, n) = PostedOn(t, n)
  BY DEF PostedOn
<1>2. \A r \in Refs : Entry(u, r) = Entry(t, r)
  BY DEF Entry
<1>3. \A k \in Tanks : ForecourtLitres(u, k) = ForecourtLitres(t, k) /\ SoldFrom(u, k) = SoldFrom(t, k)
  BY DEF ForecourtLitres, SoldFrom
<1>4. InOrder(u)
  <2>1. \A n \in Nozzles : PostedOn(t, n) \subseteq Refs
    BY DEF PostedOn
  <2> QED BY <1>1, <1>2, <2>1 DEF InBooks, InOrder
<1>5. OnlyDispensed(u)
  BY <1>1 DEF InBooks, OnlyDispensed
<1>6. MeterKept(u)
  BY <1>1 DEF InBooks, MeterKept
<1>7. StockKept(u)
  BY <1>2, <1>3 DEF InBooks, StockKept
<1> QED BY <1>4, <1>5, <1>6, <1>7 DEF InBooks

(* Tables that stay as they are, at a station that sells nothing: which    *)
(* nozzles are configured makes no difference.                             *)
LEMMA BooksNeedNoNozzle ==
    ASSUME NEW t, InBooks(t), UNCHANGED <<totalizer, shown, metered, delivered, manual>>
    PROVE  InBooks(t)'
<1>1. /\ \A n \in Nozzles : NothingByHand(n)' = NothingByHand(n) /\ DispensedOn(n)' = DispensedOn(n)
      /\ \A k \in Tanks : HandLitres(k)' = HandLitres(k) /\ SoldFrom(t, k)' = SoldFrom(t, k)
  BY DEF NothingByHand, DispensedOn, Dispensed, HandLitres, SoldFrom
<1>2. InOrder(t)'
  BY <1>1 DEF InBooks, InOrder, PostedOn
<1>3. OnlyDispensed(t)'
  BY <1>1 DEF InBooks, OnlyDispensed, PostedOn, Buffered, Dispensed
<1>4. MeterKept(t)'
  BY <1>1 DEF InBooks, MeterKept, PostedOn
<1>5. StockKept(t)'
  BY <1>1 DEF InBooks, StockKept
<1> QED BY <1>2, <1>3, <1>4, <1>5 DEF InBooks

LEMMA SiteKept ==
    ASSUME NEW t, InBooks(t), UNCHANGED site
    PROVE  InBooks(t)'
BY BooksNeedNoNozzle DEF site

(* A fill-up moves the totalizer; the books learn of it later. *)
LEMMA DispenseBooks ==
    ASSUME StationTypeOK, PumpsCount, NEW r \in Refs, Dispense(r)
    PROVE  /\ PumpsCount'
           /\ \A t \in Tables : InBooks(t) => InBooks(t)'
<1> DEFINE n == NozzleOf[r]
<1>1. /\ n \in Nozzles /\ Volume[r] \in Nat \ {0} /\ MeterStart \in Nat
      /\ totalizer \in [Nozzles -> Nat] /\ shown \in [Refs -> Nat]
  BY StationAssumption DEF StationTypeOK
<1> HIDE DEF n
<1>2. /\ shown[r] = 0 /\ UNCHANGED <<configured, delivered, manual>>
      /\ metered \subseteq metered' /\ metered' \subseteq metered \union {r}
      /\ totalizer' = [totalizer EXCEPT ![n] = @ + Volume[r]]
      /\ shown' = [shown EXCEPT ![r] = totalizer[n] + Volume[r]]
  BY <1>1 DEF Dispense, Dispensed, n
<1>3. /\ totalizer'[n] = totalizer[n] + Volume[r] /\ totalizer[n] \in Nat
      /\ \A m \in Nozzles \ {n} : totalizer'[m] = totalizer[m]
      /\ \A m \in Nozzles : totalizer[m] <= totalizer'[m]
      /\ shown'[r] = totalizer'[n] /\ shown'[r] > 0
      /\ \A q \in Refs \ {r} : shown'[q] = shown[q]
  BY <1>1, <1>2
<1>4. /\ DispensedOn(n)' = DispensedOn(n) \union {r} /\ r \notin DispensedOn(n)
      /\ \A m \in Nozzles \ {n} : DispensedOn(m)' = DispensedOn(m) /\ r \notin DispensedOn(m)
  BY <1>2, <1>3 DEF DispensedOn, Dispensed, n
<1>5. PumpsCount'
  <2>1. ASSUME NEW m \in Nozzles \ {n}
        PROVE  MeterStart <= totalizer'[m] /\ Holds(LitresOf(DispensedOn(m)'), totalizer'[m] - MeterStart)
    BY <1>3, <1>4 DEF PumpsCount
  <2>2. MeterStart <= totalizer'[n] /\ Holds(LitresOf(DispensedOn(n)'), totalizer'[n] - MeterStart)
    <3> DEFINE S == LitresOf(DispensedOn(n))
    <3>1. MeterStart <= totalizer[n] /\ IsFiniteSet(S) /\ Cardinality(S) = totalizer[n] - MeterStart
      BY <1>1 DEF PumpsCount, Holds
    <3>2. LitresOf(DispensedOn(n)') = With(S, r, 0, Volume[r])
      BY <1>4 DEF LitresOf, With
    <3>3. \A y \in S : y[1] # r
      BY <1>4 DEF LitresOf
    <3> HIDE DEF S
    <3>4. /\ IsFiniteSet(With(S, r, 0, Volume[r]))
          /\ Cardinality(With(S, r, 0, Volume[r])) = Cardinality(S) + (Volume[r] - 0)
      BY <1>1, <3>1, <3>3, LogAdds
    <3>5. Cardinality(LitresOf(DispensedOn(n)')) = totalizer'[n] - MeterStart /\ MeterStart <= totalizer'[n]
      BY <1>1, <1>3, <3>1, <3>2, <3>4
    <3> QED BY <3>2, <3>4, <3>5 DEF Holds
  <2>3. \A q \in Refs : shown'[q] <= totalizer'[NozzleOf[q]]
    <3> SUFFICES ASSUME NEW q \in Refs PROVE shown'[q] <= totalizer'[NozzleOf[q]]
      OBVIOUS
    <3>1. CASE q = r
      BY <1>1, <1>3, <3>1 DEF n
    <3>2. CASE q # r
      <4>1. NozzleOf[q] \in Nozzles
        BY StationAssumption
      <4>2. shown[q] <= totalizer[NozzleOf[q]] /\ shown[q] \in Nat /\ totalizer[NozzleOf[q]] \in Nat
        BY <1>1, <4>1 DEF PumpsCount
      <4>3. totalizer'[NozzleOf[q]] \in Nat
        BY <1>1, <1>2, <4>1
      <4> QED BY <1>3, <3>2, <4>1, <4>2, <4>3
    <3> QED BY <3>1, <3>2
  <2>4. \A q \in metered' : shown'[q] > 0
    BY <1>2, <1>3 DEF PumpsCount, Dispensed, StationTypeOK
  <2> QED BY <2>1, <2>2, <2>3, <2>4 DEF PumpsCount, Dispensed
<1>6. ASSUME NEW t \in Tables, InBooks(t) PROVE InBooks(t)'
  <2>1. InOrder(t)' /\ StockKept(t)'
    <3>1. /\ \A m \in Nozzles : NothingByHand(m)' = NothingByHand(m)
          /\ \A k \in Tanks : HandLitres(k)' = HandLitres(k) /\ SoldFrom(t, k)' = SoldFrom(t, k)
      BY <1>2 DEF NothingByHand, HandLitres, SoldFrom
    <3>2. InOrder(t)'
      BY <1>6, <3>1 DEF InBooks, InOrder, PostedOn
    <3>3. StockKept(t)'
      BY <1>2, <1>6, <3>1 DEF InBooks, StockKept
    <3> QED BY <3>2, <3>3
  <2>2. OnlyDispensed(t)'
    <3>1. \A m \in Nozzles : DispensedOn(m) \subseteq DispensedOn(m)'
      BY <1>4
    <3>2. \A q \in Refs : Dispensed(q) => Dispensed(q)'
      BY <1>3 DEF Dispensed
    <3>3. Buffered(t)' = Buffered(t) /\ \A m \in Nozzles : PostedOn(t, m)' = PostedOn(t, m)
      BY DEF Buffered, PostedOn
    <3>4. Buffered(t) \subseteq Refs
      BY DEF Buffered
    <3> QED BY <1>6, <3>1, <3>2, <3>3, <3>4 DEF InBooks, OnlyDispensed
  <2>3. MeterKept(t)'
    <3> SUFFICES ASSUME NEW m \in Nozzles, NothingByHand(m)'
                 PROVE  /\ DispensedOn(m)' \subseteq metered' => t.meterEnd[m] <= totalizer'[m]
                        /\ DispensedOn(m)' \intersect metered' = {} =>
                              /\ MeterStart <= t.meterEnd[m]
                              /\ Holds(LitresOf(PostedOn(t, m)'), t.meterEnd[m] - MeterStart)
      BY DEF MeterKept
    <3>1. NothingByHand(m)
      BY <1>2 DEF NothingByHand
    <3>2. DispensedOn(m) \subseteq DispensedOn(m)' /\ r \notin DispensedOn(m)
      BY <1>4
    <3>3. ASSUME DispensedOn(m)' \subseteq metered' PROVE t.meterEnd[m] <= totalizer'[m]
      <4>1. DispensedOn(m) \subseteq metered
        BY <1>2, <3>2, <3>3
      <4>2. t.meterEnd[m] <= totalizer[m]
        BY <1>6, <3>1, <4>1 DEF InBooks, MeterKept
      <4>3. t.meterEnd[m] \in Nat /\ totalizer[m] \in Nat /\ totalizer'[m] \in Nat
        BY <1>1, <1>2 DEF Tables
      <4> QED BY <1>3, <4>2, <4>3
    <3>4. ASSUME DispensedOn(m)' \intersect metered' = {}
          PROVE  /\ MeterStart <= t.meterEnd[m]
                 /\ Holds(LitresOf(PostedOn(t, m)'), t.meterEnd[m] - MeterStart)
      <4>1. DispensedOn(m) \intersect metered = {}
        BY <1>2, <3>2, <3>4
      <4>2. PostedOn(t, m)' = PostedOn(t, m)
        BY DEF PostedOn
      <4> QED BY <1>6, <3>1, <4>1, <4>2 DEF InBooks, MeterKept
    <3> QED BY <3>3, <3>4
  <2> QED BY <2>1, <2>2, <2>3 DEF InBooks
<1> QED BY <1>5, <1>6

(* A delivery raises a tank by what was delivered. *)
LEMMA DeliverBooks ==
    ASSUME StationTypeOK, NEW k \in Tanks, Deliver(k), InBooks(db)
    PROVE  InBooks(db)'
<1>1. /\ db' = [db EXCEPT !.tank[k] = @ + Drop]
      /\ delivered' = [delivered EXCEPT ![k] = @ + Drop]
      /\ UNCHANGED <<totalizer, shown, metered, configured, manual>>
  BY DEF Deliver
<1>2. Drop \in Nat /\ InitialVolume \in Nat /\ db \in Tables /\ delivered \in [Tanks -> Nat]
  BY StationAssumption DEF StationTypeOK
<1>3. /\ db'.logs = db.logs /\ db'.meterEnd = db.meterEnd /\ db'.buffer = db.buffer
      /\ db'.tank = [db.tank EXCEPT ![k] = @ + Drop] /\ db.tank \in [Tanks -> Nat]
  BY <1>1, <1>2 DEF Tables
<1>4. /\ \A n \in Nozzles : /\ NothingByHand(n)' = NothingByHand(n)
                            /\ DispensedOn(n)' = DispensedOn(n)
                            /\ PostedOn(db, n)' = PostedOn(db, n)
      /\ \A r \in Refs : Entry(db, r)' = Entry(db, r)
  BY <1>1, <1>3 DEF NothingByHand, DispensedOn, Dispensed, PostedOn, Entry
<1>5. InOrder(db)'
  <2>1. \A n \in Nozzles : PostedOn(db, n) \subseteq Refs
    BY DEF PostedOn
  <2> QED BY <1>3, <1>4, <2>1 DEF InBooks, InOrder
<1>6. OnlyDispensed(db)'
  BY <1>1, <1>3, <1>4 DEF InBooks, OnlyDispensed, Buffered, Dispensed
<1>7. MeterKept(db)'
  BY <1>1, <1>3, <1>4 DEF InBooks, MeterKept
<1>8. StockKept(db)'
  <2>1. \A j \in Tanks : /\ ForecourtLitres(db, j)' = ForecourtLitres(db, j)
                         /\ HandLitres(j)' = HandLitres(j)
                         /\ SoldFrom(db, j)' = SoldFrom(db, j)
    BY <1>1, <1>3 DEF ForecourtLitres, HandLitres, SoldFrom
  <2>2. ASSUME NEW j \in Tanks
        PROVE  db'.tank[j] + SoldFrom(db, j) = InitialVolume + delivered'[j]
    <3>1. /\ IsFiniteSet(ForecourtLitres(db, j)) /\ IsFiniteSet(HandLitres(j))
          /\ db.tank[j] + SoldFrom(db, j) = InitialVolume + delivered[j]
      BY DEF InBooks, StockKept
    <3>2. SoldFrom(db, j) \in Nat
      BY <3>1, FS_CardinalityType DEF SoldFrom
    <3>3. /\ db.tank[j] \in Nat /\ delivered[j] \in Nat
          /\ \/ db'.tank[j] = db.tank[j] + Drop /\ delivered'[j] = delivered[j] + Drop
             \/ db'.tank[j] = db.tank[j] /\ delivered'[j] = delivered[j]
      BY <1>1, <1>2, <1>3
    <3> QED BY <1>2, <3>1, <3>2, <3>3
  <2> QED BY <1>3, <1>4, <2>1, <2>2 DEF InBooks, StockKept
<1> QED BY <1>5, <1>6, <1>7, <1>8 DEF InBooks

(* A draft changes no book. *)
LEMMA DraftBooks ==
    ASSUME StationTypeOK, HandInOrder, NEW l \in ManualLogs, NEW n \in Nozzles,
           NEW o \in TypedMeters, NEW c \in TypedMeters, DraftLog(l, n, o, c)
    PROVE  HandInOrder' /\ \A t : InBooks(t) => InBooks(t)'
<1>1. /\ manual[l].state = "absent" /\ manual \in [ManualLogs -> ManualLog]
      /\ manual' = [manual EXCEPT ![l] = [state |-> "draft", nozzle |-> n,
                                          opening |-> o, closing |-> c]]
      /\ UNCHANGED <<totalizer, shown, metered, configured, delivered>>
      /\ o <= c
  BY DEF DraftLog, Consistent, StationTypeOK
<1>2. /\ manual'[l].state = "draft" /\ manual'[l].opening = o /\ manual'[l].closing = c
      /\ \A m \in ManualLogs \ {l} : manual'[m] = manual[m]
  BY <1>1
<1>3. HandInOrder'
  BY <1>1, <1>2 DEF HandInOrder
<1>4. \A m \in Nozzles : NothingByHand(m)' = NothingByHand(m) /\ DispensedOn(m)' = DispensedOn(m)
  <2>1. ASSUME NEW m \in Nozzles PROVE NothingByHand(m)' <=> NothingByHand(m)
    BY <1>1, <1>2 DEF NothingByHand
  <2> QED BY <1>1, <2>1 DEF NothingByHand, DispensedOn, Dispensed
<1>5. \A k \in Tanks : HandLitres(k)' = HandLitres(k)
  BY <1>1, <1>2 DEF HandLitres
<1>6. ASSUME NEW t, InBooks(t) PROVE InBooks(t)'
  <2>1. InOrder(t)'
    BY <1>4, <1>6 DEF InBooks, InOrder, PostedOn
  <2>2. OnlyDispensed(t)'
    BY <1>1, <1>4, <1>6 DEF InBooks, OnlyDispensed, PostedOn, Buffered, Dispensed
  <2>3. MeterKept(t)'
    BY <1>1, <1>4, <1>6 DEF InBooks, MeterKept, PostedOn
  <2>4. StockKept(t)'
    BY <1>1, <1>5, <1>6 DEF InBooks, StockKept, SoldFrom
  <2> QED BY <2>1, <2>2, <2>3, <2>4 DEF InBooks
<1> QED BY <1>3, <1>6

(* Confirming a manual log takes its volume from the tank; from then on the *)
(* meter of its nozzle says nothing of the readings.                        *)
LEMMA ConfirmBooks ==
    ASSUME StationTypeOK, HandInOrder, NEW l \in ManualLogs, ConfirmLog(l), InBooks(db)
    PROVE  HandInOrder' /\ InBooks(db)'
<1> DEFINE n == manual[l].nozzle
           o == manual[l].opening
           c == manual[l].closing
           k == TankOf[n]
<1>0. manual \in [ManualLogs -> ManualLog] /\ db \in Tables /\ delivered \in [Tanks -> Nat]
  BY DEF StationTypeOK
<1>1. n \in Nozzles /\ o \in Nat /\ c \in Nat /\ o <= c
  <2>1. manual[l] \in ManualLog
    BY <1>0
  <2> QED BY <2>1 DEF ManualLog, HandInOrder
<1>2. k \in Tanks
  BY <1>1, StationAssumption
<1>3. /\ manual[l].state = "draft"
      /\ manual' = [manual EXCEPT ![l].state = "confirmed"]
      /\ db' = Sold(db, n, o, c)
      /\ UNCHANGED <<totalizer, shown, metered, configured, delivered>>
  BY DEF ConfirmLog
<1> HIDE DEF n, o, c, k
<1>4. /\ manual'[l].state = "confirmed" /\ manual'[l].nozzle = n
      /\ manual'[l].opening = o /\ manual'[l].closing = c
      /\ \A m \in ManualLogs \ {l} : manual'[m] = manual[m]
  <2>1. manual[l] \in ManualLog
    BY <1>0
  <2> QED BY <1>0, <1>3, <2>1 DEF ManualLog, n, o, c
<1>5. /\ db'.logs = db.logs /\ db'.buffer = db.buffer
      /\ db'.meterEnd = [db.meterEnd EXCEPT ![n] = c]
      /\ db'.tank = [db.tank EXCEPT ![k] = @ - (c - o)]
      /\ db.tank \in [Tanks -> Nat] /\ db.meterEnd \in [Nozzles -> Nat]
  BY <1>0, <1>3 DEF Sold, Tables, k
<1>6. HandInOrder'
  BY <1>1, <1>4 DEF HandInOrder
<1>7. /\ \A m \in Nozzles : DispensedOn(m)' = DispensedOn(m) /\ PostedOn(db, m)' = PostedOn(db, m)
      /\ \A r \in Refs : Entry(db, r)' = Entry(db, r)
  BY <1>3, <1>5 DEF DispensedOn, Dispensed, PostedOn, Entry
<1>8. \A m \in Nozzles : NothingByHand(m)' => m # n /\ NothingByHand(m) /\ db'.meterEnd[m] = db.meterEnd[m]
  <2> SUFFICES ASSUME NEW m \in Nozzles, NothingByHand(m)'
               PROVE  m # n /\ NothingByHand(m) /\ db'.meterEnd[m] = db.meterEnd[m]
    OBVIOUS
  <2>1. m # n
    BY <1>4 DEF NothingByHand
  <2>2. NothingByHand(m)
    BY <1>3, <1>4 DEF NothingByHand
  <2> QED BY <1>5, <2>1, <2>2
<1>9. InOrder(db)'
  <2>1. \A m \in Nozzles : PostedOn(db, m) \subseteq Refs
    BY DEF PostedOn
  <2> QED BY <1>7, <1>8, <2>1 DEF InBooks, InOrder
<1>10. OnlyDispensed(db)'
  BY <1>3, <1>5, <1>7 DEF InBooks, OnlyDispensed, Buffered, Dispensed
<1>11. MeterKept(db)'
  BY <1>3, <1>7, <1>8 DEF InBooks, MeterKept
<1>12. StockKept(db)'
  <2>1. \A j \in Tanks : ForecourtLitres(db, j)' = ForecourtLitres(db, j)
    BY <1>5 DEF ForecourtLitres
  <2>2. ASSUME NEW j \in Tanks, j # k
        PROVE  IsFiniteSet(HandLitres(j)') /\ db'.tank[j] + SoldFrom(db, j)' = InitialVolume + delivered'[j]
    <3>1. HandLitres(j)' = HandLitres(j)
      BY <1>3, <1>4, <2>2 DEF HandLitres, k, n
    <3>2. db'.tank[j] = db.tank[j]
      BY <1>5, <2>2
    <3> QED BY <1>3, <2>1, <3>1, <3>2 DEF InBooks, StockKept, SoldFrom
  <2>3. ASSUME NEW j \in Tanks, j = k
        PROVE  IsFiniteSet(HandLitres(j)') /\ db'.tank[j] + SoldFrom(db, j)' = InitialVolume + delivered'[j]
    <3> DEFINE S == HandLitres(j)
               F == Cardinality(ForecourtLitres(db, j))
    <3>1. /\ IsFiniteSet(S) /\ F \in Nat
          /\ db.tank[j] + (F + Cardinality(S)) = InitialVolume + delivered[j]
      BY FS_CardinalityType DEF InBooks, StockKept, SoldFrom
    <3>2. HandLitres(j)' = With(S, l, o, c)
      <4> DEFINE M == {m \in ManualLogs : manual[m].state = "confirmed" /\ TankOf[manual[m].nozzle] = j}
                 N == {m \in ManualLogs : manual'[m].state = "confirmed" /\ TankOf[manual'[m].nozzle] = j}
      <4>1. l \notin M /\ N = M \union {l}
        BY <1>3, <1>4, <2>3 DEF k
      <4>2. /\ Litres(manual'[l]) = o + 1 .. c
            /\ \A m \in M : manual'[m] = manual[m]
        BY <1>4, <4>1 DEF Litres
      <4>3. S = UNION {{m} \X Litres(manual[m]) : m \in M}
        BY DEF HandLitres
      <4>4. HandLitres(j)' = UNION {{m} \X Litres(manual'[m]) : m \in N}
        BY DEF HandLitres, Litres
      <4> HIDE DEF M, N, S
      <4> DEFINE Before(m) == {m} \X Litres(manual[m])
                 After(m) == {m} \X Litres(manual'[m])
      <4>5. After(l) = {l} \X (o + 1 .. c) /\ \A m \in M : After(m) = Before(m)
        BY <4>2
      <4> HIDE DEF Before, After
      <4>6. UNION {After(m) : m \in N} = (UNION {Before(m) : m \in M}) \union After(l)
        BY <4>1, <4>5
      <4>7. S = UNION {Before(m) : m \in M} /\ HandLitres(j)' = UNION {After(m) : m \in N}
        BY <4>3, <4>4 DEF Before, After
      <4> QED BY <4>5, <4>6, <4>7 DEF With
    <3>3. \A y \in S : y[1] # l
      BY <1>3 DEF HandLitres
    <3>4. SoldFrom(db, j)' = F + Cardinality(HandLitres(j)')
      BY <2>1 DEF SoldFrom
    <3> HIDE DEF S, F
    <3>5. IsFiniteSet(HandLitres(j)') /\ Cardinality(HandLitres(j)') = Cardinality(S) + (c - o)
      BY <1>1, <3>1, <3>2, <3>3, LogAdds
    <3>6. Cardinality(S) \in Nat /\ db.tank[j] \in Nat /\ delivered[j] \in Nat /\ InitialVolume \in Nat
      BY <1>0, <1>5, <3>1, FS_CardinalityType, StationAssumption
    <3>7. db'.tank[j] = db.tank[j] - (c - o) /\ delivered' = delivered
      BY <1>3, <1>5, <2>3
    <3> QED BY <1>1, <3>1, <3>4, <3>5, <3>6, <3>7
  <2> QED BY <1>5, <1>7, <2>1, <2>2, <2>3 DEF InBooks, StockKept
<1> QED BY <1>6, <1>9, <1>10, <1>11, <1>12 DEF InBooks

-----------------------------------------------------------------------------
(* The books are kept. *)

(* A transaction that begins with dispensed readings. *)
LEMMA TodoBegins ==
    ASSUME NEW batch \in Seq(Refs), NEW waiting, BeginPush(batch, waiting),
           \A i \in DOMAIN batch : Dispensed(batch[i])
    PROVE  TodoDispensed'
<1>1. tx'.todo = batch /\ shown' = shown
  BY DEF BeginPush, NoTx, site
<1>2. \A r \in ToSet(batch) : Dispensed(r)
  BY DEF ToSet
<1> QED BY <1>1, <1>2 DEF TodoDispensed, Dispensed

(* No step but the arrival of a batch adds a reading to those to be buffered. *)
LEMMA TodoShrinks ==
    ASSUME StationTypeOK,
           \/ \E r \in Refs : Dispense(r) \/ ReadingStep(r)
           \/ StaffStep \/ BeginSweep \/ CommitTx \/ AbortTx
    PROVE  ToSet(tx'.todo) \subseteq ToSet(tx.todo)
<1>a. tx \in Transaction
  BY DEF StationTypeOK
<1>1. ToSet(NoTx.todo) = {}
  BY NoElements DEF NoTx
<1>2. ASSUME NEW r \in Refs, RejectReading(r) \/ ReportDuplicate(r) \/ AcceptReading(r)
      PROVE  ToSet(tx'.todo) \subseteq ToSet(tx.todo)
  <2>1. tx'.todo = Tail(tx.todo) /\ tx.todo # <<>> /\ tx.todo \in Seq(Refs)
    BY <1>a, <1>2 DEF RejectReading, ReportDuplicate, AcceptReading, Receiving, Transaction
  <2> QED BY <2>1, HeadTail
<1>3. ASSUME NEW r \in Refs, SkipRow(r) \/ IgnoreRow(r) \/ PostRow(r) \/ FailRow(r)
      PROVE  tx'.todo = tx.todo
  BY <1>a, <1>3 DEF SkipRow, IgnoreRow, PostRow, FailRow, NextRow, Transaction
<1>4. ASSUME BeginSweep \/ (\E r \in Refs : BeginRetry(r)) \/ CommitTx \/ AbortTx
      PROVE  tx'.todo = NoTx.todo
  BY <1>4 DEF BeginSweep, BeginRetry, CommitTx, AbortTx, NoTx
<1> QED BY <1>1, <1>2, <1>3, <1>4
    DEF ReadingStep, StaffStep, Dispense, AddNozzle, Deliver, DraftLog, ConfirmLog

(* A reading that was dispensed stays dispensed. *)
LEMMA StaysDispensed ==
    ASSUME StationTypeOK, StationStep, NEW r \in Refs, Dispensed(r)
    PROVE  Dispensed(r)'
<1>1. ASSUME NEW q \in Refs, Dispense(q) PROVE q # r /\ shown'[r] = shown[r]
  BY <1>1 DEF Dispense, Dispensed, StationTypeOK
<1>2. (\E q \in Refs : Dispense(q)) \/ shown' = shown
  BY DEF StationStep, StaffStep, ReadingStep, RejectReading, ReportDuplicate, AcceptReading,
         SkipRow, IgnoreRow, PostRow, FailRow, AddNozzle, Deliver, BeginRetry, DraftLog,
         ConfirmLog, BeginPush, BeginSweep, CommitTx, AbortTx, site
<1> QED BY <1>1, <1>2 DEF Dispensed

(* The station by itself is pushed dispensed readings only. *)
LEMMA TodoStep ==
    ASSUME StationTypeOK, TodoDispensed, StationNext
    PROVE  TodoDispensed'
<1>1. CASE \E batch \in Batches :
             (\A i \in DOMAIN batch : Dispensed(batch[i])) /\ BeginPush(batch, FALSE)
  BY <1>1, TodoBegins, StationAssumption
<1>2. ASSUME ToSet(tx'.todo) \subseteq ToSet(tx.todo) PROVE TodoDispensed'
  <2>1. ToSet(tx.todo) \subseteq Refs
    <3>1. tx.todo \in Seq(Refs)
      BY DEF StationTypeOK, Transaction
    <3> QED BY <3>1, Elements
  <2>2. \A r \in ToSet(tx.todo) : Dispensed(r)'
    BY <2>1, StationNextStep, StaysDispensed DEF TodoDispensed
  <2> QED BY <1>2, <2>2 DEF TodoDispensed, Dispensed
<1> QED BY <1>1, <1>2, TodoShrinks DEF StationNext

(* Every step of the station keeps the books, whoever pushes the batches, as *)
(* long as they hold dispensed readings.                                     *)
LEMMA BooksStep ==
    ASSUME StationInv, BooksInv, StationStep, TodoDispensed'
    PROVE  BooksInv'
<1>a. /\ StationTypeOK /\ PostedOnce /\ ReportsStored /\ tx \in Transaction
      /\ work \in Tables /\ db \in Tables
  BY DEF StationInv, StationTypeOK
<1>b. TodoDispensed /\ PumpsCount /\ HandInOrder /\ InBooks(db) /\ InBooks(work)
  BY DEF BooksInv
<1> DEFINE Kept == PumpsCount' /\ HandInOrder' /\ InBooks(db)' /\ InBooks(work)'
<1>1. ASSUME UNCHANGED site PROVE PumpsCount' /\ HandInOrder'
  BY <1>b, <1>1 DEF site, PumpsCount, HandInOrder, DispensedOn, Dispensed
<1>2. ASSUME NEW t, InBooks(t), UNCHANGED site PROVE InBooks(t)'
  BY <1>2, SiteKept
<1>3. ASSUME UNCHANGED site, NEW t, NEW u, InBooks(t), InBooks(u), db' = t, work' = u PROVE Kept
  <2>1. InBooks(t)' /\ InBooks(u)'
    BY <1>3, SiteKept
  <2>2. InBooks(db)' /\ InBooks(work)'
    BY <1>3, <2>1
  <2> QED BY <1>1, <1>3, <2>2
<1>4. ASSUME NEW r \in Refs, Dispense(r) PROVE Kept
  <2>1. db' = db /\ work' = work /\ manual' = manual
    BY <1>4 DEF Dispense
  <2>2. PumpsCount' /\ \A t \in Tables : InBooks(t) => InBooks(t)'
    BY <1>a, <1>b, <1>4, DispenseBooks
  <2>3. InBooks(db)' /\ InBooks(work)'
    BY <1>a, <1>b, <2>1, <2>2
  <2> QED BY <1>b, <2>1, <2>2, <2>3 DEF HandInOrder
<1>5. ASSUME NEW n \in Nozzles, AddNozzle(n) PROVE Kept
  <2>1. UNCHANGED <<totalizer, shown, metered, delivered, manual, db, work>>
    BY <1>5 DEF AddNozzle
  <2>2. PumpsCount' /\ HandInOrder'
    BY <1>b, <2>1 DEF PumpsCount, HandInOrder, DispensedOn, Dispensed
  <2>3. \A t : InBooks(t) => InBooks(t)'
    BY <2>1, BooksNeedNoNozzle
  <2>4. InBooks(db)' /\ InBooks(work)'
    BY <1>b, <2>1, <2>3
  <2> QED BY <2>2, <2>4
<1>6. ASSUME NEW k \in Tanks, Deliver(k) PROVE Kept
  <2>1. InBooks(db)' /\ work' = db'
    BY <1>a, <1>b, <1>6, DeliverBooks DEF Deliver
  <2>2. InBooks(work)'
    BY <2>1 DEF InBooks, InOrder, OnlyDispensed, MeterKept, StockKept
  <2>3. PumpsCount' /\ HandInOrder'
    BY <1>b, <1>6 DEF Deliver, PumpsCount, HandInOrder, DispensedOn, Dispensed
  <2> QED BY <2>1, <2>2, <2>3
<1>7. ASSUME NEW l \in ManualLogs, NEW n \in Nozzles, NEW o \in TypedMeters,
             NEW c \in TypedMeters, DraftLog(l, n, o, c)
      PROVE  Kept
  <2>1. UNCHANGED <<totalizer, shown, metered, db, work>>
    BY <1>7 DEF DraftLog
  <2>2. HandInOrder' /\ \A t : InBooks(t) => InBooks(t)'
    BY <1>a, <1>b, <1>7, DraftBooks
  <2>3. InBooks(db)' /\ InBooks(work)'
    BY <1>b, <2>1, <2>2
  <2>4. PumpsCount'
    BY <1>b, <2>1 DEF PumpsCount, DispensedOn, Dispensed
  <2> QED BY <2>2, <2>3, <2>4
<1>8. ASSUME NEW l \in ManualLogs, ConfirmLog(l) PROVE Kept
  <2>1. HandInOrder' /\ InBooks(db)' /\ work' = db'
    BY <1>a, <1>b, <1>8, ConfirmBooks DEF ConfirmLog
  <2>2. InBooks(work)'
    BY <2>1 DEF InBooks, InOrder, OnlyDispensed, MeterKept, StockKept
  <2>3. PumpsCount'
    BY <1>b, <1>8 DEF ConfirmLog, PumpsCount, DispensedOn, Dispensed
  <2> QED BY <2>1, <2>2, <2>3
<1>9. ASSUME UNCHANGED <<site, db, work>> PROVE Kept
  BY <1>b, <1>3, <1>9
<1>10. ASSUME NEW r \in Refs, NEW st \in RowState, UNCHANGED <<site, db>>, Dispensed(r),
              work' = [work EXCEPT !.buffer[r] = st]
       PROVE  Kept
  <2> DEFINE u == [work EXCEPT !.buffer[r] = st]
  <2>1. u.logs = work.logs /\ u.meterEnd = work.meterEnd /\ u.tank = work.tank
    BY <1>a DEF Tables
  <2>2. \A q \in Buffered(u) : Dispensed(q)
    <3>1. Buffered(u) \subseteq Buffered(work) \union {r}
      BY <1>a DEF Tables, Buffered
    <3> QED BY <1>b, <1>10, <3>1 DEF InBooks, OnlyDispensed
  <2> HIDE DEF u
  <2>3. InBooks(u)
    BY <1>b, <2>1, <2>2, RowBooks
  <2> QED BY <1>b, <1>3, <1>10, <2>3 DEF u
<1>11. ASSUME NEW r \in Refs, AcceptReading(r) PROVE Kept
  <2>1. r \in ToSet(tx.todo)
    BY <1>a, <1>11, HeadTail DEF AcceptReading, Receiving, Transaction
  <2> QED BY <1>b, <1>10, <1>11, <2>1 DEF AcceptReading, RowState, TodoDispensed
<1>12. ASSUME NEW r \in Refs, IgnoreRow(r) \/ PostRow(r) \/ FailRow(r) PROVE Kept
  <2>1. r \in ToSet(tx.rows)
    BY <1>a, <1>12, HeadTail DEF IgnoreRow, PostRow, FailRow, Processing, Transaction
  <2>2. Dispensed(r)
    BY <1>a, <1>b, <2>1 DEF ReportsStored, InBooks, OnlyDispensed
  <2>3. CASE IgnoreRow(r) \/ FailRow(r)
    BY <1>10, <2>2, <2>3 DEF IgnoreRow, FailRow, RowState
  <2>4. CASE PostRow(r)
    <3>1. Postable(work, r) /\ work.buffer[r] # "processed" /\ work' = Posted(work, r) /\ UNCHANGED <<site, db>>
      BY <2>4 DEF PostRow
    <3>2. work.logs[r] = <<>>
      <4>1. Len(work.logs[r]) = 0 /\ work.logs[r] \in Seq(ShiftLog)
        BY <1>a, <3>1 DEF PostedOnce, Tables
      <4> QED BY <4>1
    <3>3. InBooks(Posted(work, r))
      BY <1>a, <1>b, <2>2, <3>1, <3>2, PostBooks
    <3> DEFINE u == Posted(work, r)
    <3> HIDE DEF u
    <3>4. InBooks(u) /\ work' = u
      BY <3>1, <3>3 DEF u
    <3> QED BY <1>b, <1>3, <3>1, <3>4
  <2> QED BY <1>12, <2>3, <2>4
<1>13. ASSUME CommitTx \/ AbortTx PROVE Kept
  <2>1. /\ UNCHANGED site
        /\ \/ db' = work /\ work' = work
           \/ db' = db /\ work' = db
    BY <1>13 DEF CommitTx, AbortTx
  <2> QED BY <1>b, <1>3, <2>1
<1>14. Kept
  <2>1. CASE \E r \in Refs : RejectReading(r) \/ ReportDuplicate(r) \/ SkipRow(r)
    BY <1>9, <2>1 DEF RejectReading, ReportDuplicate, SkipRow
  <2>2. CASE \/ BeginSweep \/ \E r \in Refs : BeginRetry(r)
             \/ \E batch \in Seq(Refs), waiting \in BOOLEAN : BeginPush(batch, waiting)
    BY <1>9, <2>2 DEF BeginSweep, BeginRetry, BeginPush
  <2> HIDE DEF Kept
  <2> QED BY <1>4, <1>5, <1>6, <1>7, <1>8, <1>11, <1>12, <1>13, <2>1, <2>2
      DEF StationStep, StaffStep, ReadingStep
<1> QED BY <1>14 DEF BooksInv

LEMMA BooksInit == StationInit => BooksInv
<1> SUFFICES ASSUME StationInit PROVE BooksInv
  OBVIOUS
<1>1. /\ db = work /\ tx = NoTx /\ metered = {}
      /\ \A r \in Refs : shown[r] = 0 /\ db.buffer[r] = "absent" /\ db.logs[r] = <<>>
      /\ \A n \in Nozzles : totalizer[n] = MeterStart /\ db.meterEnd[n] = MeterStart
      /\ \A k \in Tanks : db.tank[k] = InitialVolume /\ delivered[k] = 0
      /\ \A l \in ManualLogs : /\ manual[l].state = "absent"
                               /\ manual[l].opening = 0 /\ manual[l].closing = 0
  BY DEF StationInit
<1>2. /\ MeterStart \in Nat /\ InitialVolume \in Nat /\ totalizer \in [Nozzles -> Nat]
      /\ NozzleOf \in [Refs -> Nozzles]
  BY StationAssumption DEF StationInit
<1>3. /\ \A n \in Nozzles : DispensedOn(n) = {} /\ PostedOn(db, n) = {}
      /\ Buffered(db) = {}
  BY <1>1 DEF DispensedOn, PostedOn, Dispensed, Buffered
<1>4. LitresOf({}) = {} /\ Holds(LitresOf({}), 0)
  <2>1. LitresOf({}) = {}
    BY DEF LitresOf
  <2> QED BY <2>1, FS_EmptySet DEF Holds
<1>5. \A k \in Tanks : ForecourtLitres(db, k) = {} /\ HandLitres(k) = {}
  BY <1>1 DEF ForecourtLitres, HandLitres
<1>6. TodoDispensed
  BY <1>1, NoElements DEF TodoDispensed, NoTx
<1>7. PumpsCount
  <2>1. MeterStart <= MeterStart /\ MeterStart - MeterStart = 0 /\ 0 <= MeterStart
    BY <1>2
  <2>2. \A r \in Refs : NozzleOf[r] \in Nozzles
    BY <1>2
  <2> QED BY <1>1, <1>3, <1>4, <2>1, <2>2 DEF PumpsCount
<1>8. HandInOrder
  BY <1>1 DEF HandInOrder
<1>9. InOrder(db) /\ OnlyDispensed(db)
  BY <1>3 DEF InOrder, OnlyDispensed
<1>10. MeterKept(db)
  <2>1. MeterStart <= MeterStart /\ MeterStart - MeterStart = 0
    BY <1>2
  <2> QED BY <1>1, <1>3, <1>4, <2>1 DEF MeterKept
<1>11. StockKept(db)
  <2>1. \A k \in Tanks : SoldFrom(db, k) = 0
    BY <1>5, FS_EmptySet DEF SoldFrom
  <2>2. InitialVolume + 0 = InitialVolume
    BY <1>2
  <2> QED BY <1>1, <1>5, <2>1, <2>2, FS_EmptySet DEF StockKept
<1> QED BY <1>1, <1>6, <1>7, <1>8, <1>9, <1>10, <1>11 DEF BooksInv, InBooks

LEMMA BooksStutter ==
    ASSUME BooksInv, UNCHANGED stationVars
    PROVE  BooksInv'
<1>1. UNCHANGED site /\ UNCHANGED <<db, work, tx>>
  BY DEF stationVars
<1>2. TodoDispensed' /\ PumpsCount' /\ HandInOrder'
  BY <1>1 DEF BooksInv, TodoDispensed, PumpsCount, HandInOrder, DispensedOn, Dispensed, site
<1>3. \A t : InBooks(t) => InBooks(t)'
  BY <1>1, SiteKept
<1>4. \A t \in {db', work'} : InBooks(t)'
  BY <1>1, <1>3 DEF BooksInv
<1> QED BY <1>2, <1>4 DEF BooksInv

(* The books of the station are always kept. *)
THEOREM BooksKept == StationSpec => []BooksInv
<1>1. StationInv /\ BooksInv /\ [StationNext]_stationVars => BooksInv'
  <2>1. ASSUME StationInv, BooksInv, StationNext PROVE BooksInv'
    BY <2>1, StationNextStep, TodoStep, BooksStep DEF StationInv, BooksInv
  <2> QED BY <2>1, BooksStutter
<1> QED BY BooksInit, <1>1, StationSafe, PTL DEF StationSpec

(* What kept books say. *)
LEMMA BooksConserveStock == BooksInv => StockConserved
BY DEF BooksInv, InBooks, StockKept, StockConserved

LEMMA BooksChargeOnce == BooksInv => NoLitreTwice
<1> SUFFICES ASSUME BooksInv, NEW r \in Refs, NEW q \in Refs,
                    r # q, NozzleOf[r] = NozzleOf[q], NothingByHand(NozzleOf[r]),
                    db.logs[r] # <<>>, db.logs[q] # <<>>
             PROVE  \/ Entry(db, r).closing <= Entry(db, q).opening
                    \/ Entry(db, q).closing <= Entry(db, r).opening
  BY DEF NoLitreTwice, Entry
<1>1. NozzleOf[r] \in Nozzles /\ r \in PostedOn(db, NozzleOf[r]) /\ q \in PostedOn(db, NozzleOf[r])
  BY StationAssumption DEF PostedOn
<1>2. InOrder(db)
  BY DEF BooksInv, InBooks
<1> QED BY <1>1, <1>2 DEF InOrder

LEMMA BooksFollowPump == StationInv /\ BooksInv => MeterNeverAhead
<1> SUFFICES ASSUME StationInv, BooksInv, NEW n \in Nozzles, NothingByHand(n), Uniform(n)
             PROVE  db.meterEnd[n] <= totalizer[n]
  BY DEF MeterNeverAhead
<1>1. MeterKept(db) /\ PostedOn(db, n) \subseteq DispensedOn(n)
  BY DEF BooksInv, InBooks, OnlyDispensed
<1>2. CASE DispensedOn(n) \subseteq metered
  BY <1>1, <1>2 DEF MeterKept
<1>3. CASE DispensedOn(n) \intersect metered = {}
  <2> DEFINE P == LitresOf(PostedOn(db, n))
             D == LitresOf(DispensedOn(n))
  <2>1. /\ IsFiniteSet(P) /\ Cardinality(P) = db.meterEnd[n] - MeterStart
        /\ IsFiniteSet(D) /\ Cardinality(D) = totalizer[n] - MeterStart
    BY <1>1, <1>3 DEF BooksInv, PumpsCount, MeterKept, Holds
  <2>2. P \subseteq D
    BY <1>1 DEF LitresOf
  <2> HIDE DEF P, D
  <2>3. Cardinality(P) <= Cardinality(D)
    BY <2>1, <2>2, FS_Subset
  <2>4. db.meterEnd[n] \in Nat /\ totalizer[n] \in Nat /\ MeterStart \in Nat
    BY StationAssumption DEF StationInv, StationTypeOK, Tables
  <2> QED BY <2>1, <2>3, <2>4
<1>4. DispensedOn(n) \subseteq metered \/ DispensedOn(n) \intersect metered = {}
  BY DEF Uniform, DispensedOn
<1> QED BY <1>2, <1>3, <1>4

(* The volume of a tank is always what was there and was delivered, less the *)
(* litres of the confirmed shift logs, generated or typed in.                *)
THEOREM StockIsConserved == StationSpec => []StockConserved
BY BooksConserveStock, BooksKept, PTL

(* Two readings of a nozzle are never charged for the same stretch of its *)
(* meter, unless an attendant's log has moved it.                         *)
THEOREM NoLitreSoldTwice == StationSpec => []NoLitreTwice
BY BooksChargeOnce, BooksKept, PTL

(* With readings of one kind and no log by hand, Odoo's meter of a nozzle is *)
(* never ahead of the pump's totalizer: no more is sold than was dispensed.  *)
THEOREM MeterFollowsPump == StationSpec => []MeterNeverAhead
BY BooksFollowPump, StationSafe, BooksKept, PTL

=============================================================================
