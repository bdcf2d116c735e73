------------------------ MODULE Provisioning_proofs ------------------------
(***************************************************************************)
(* Proofs about the provisioning queue, for any number of requests,        *)
(* workers and HTTP slots.                                                 *)
(*                                                                         *)
(* OneCarrier is not proved in the form in which it is stated: Exclusive   *)
(* says pair by pair that two of the places where a job can be do not hold *)
(* the same job, and Carried that what they hold is in progress.  Both     *)
(* need CallsMatch: an answer can only be given to a worker that has no    *)
(* job yet, and be given once.                                             *)
(*                                                                         *)
(* ActiveIsReady and RetryStartsClean are the last two of the Stages a     *)
(* creation goes through; Untouched is where the first one starts.         *)
(***************************************************************************)
EXTENDS Provisioning, TLAPS

(* What the polls and the workers know of each other: an answer has a worker  *)
(* that waits for it, and a worker that rests or waits has no jobs.            *)
CallsMatch ==
    /\ \A p \in Polls :
         /\ poll[p].phase = "answered" => poll[p].worker # Nobody
         /\ poll[p].phase = "free" => poll[p].worker = Nobody
         /\ poll[p].worker # Nobody => worker[poll[p].worker].phase = "waiting"
         /\ \A o \in Polls :
              poll[p].worker = poll[o].worker => poll[p].worker = Nobody \/ p = o
    /\ \A w \in Workers : worker[w].phase \in {"idle", "waiting"} => worker[w].jobs = {}

Held(q, w) == q \in worker[w].jobs
Answered(q, p) == poll[p].phase = "answered" /\ q \in poll[p].rows
Reported(q) == \E m \in reports : m.request = q

Exclusive ==
    \A q \in Requests :
        /\ \A w, v \in Workers : Held(q, w) /\ Held(q, v) => w = v
        /\ \A p, o \in Polls : Answered(q, p) /\ Answered(q, o) => p = o
        /\ \A m, n \in reports : m.request = q /\ n.request = q => m = n
        /\ \A w \in Workers, p \in Polls : ~(Held(q, w) /\ Answered(q, p))
        /\ \A w \in Workers : ~(Held(q, w) /\ Reported(q))
        /\ \A p \in Polls : ~(Answered(q, p) /\ Reported(q))

Busy(q) ==
    \/ \E w \in Workers : Held(q, w)
    \/ \E p \in Polls : Answered(q, p)
    \/ Reported(q)

Carried ==
    \A q \in Requests :
        Busy(q) => request[q].kind # "none" /\ request[q].state = "in_progress"

Inv == TypeOK /\ CallsMatch /\ Exclusive /\ Carried

-----------------------------------------------------------------------------
(* Types *)

LEMMA InitType == Init => TypeOK
<1> SUFFICES ASSUME Init PROVE TypeOK
  OBVIOUS
<1>1. (CHOOSE d \in Databases : TRUE) \in Databases
  BY ProvisioningAssumption
<1>2. request \in [Requests -> Request]
  BY <1>1 DEF Init, Request
<1>3. poll \in [Polls -> Poll] /\ worker \in [Workers -> Worker]
  BY DEF Init, Poll, Worker, Closed, Resting
<1>4. database \in [Databases -> Database]
  BY DEF Init, Database, NoDatabase
<1> QED BY <1>2, <1>3, <1>4 DEF Init, TypeOK

LEMMA StaffType ==
    ASSUME TypeOK, StaffStep
    PROVE  TypeOK'
<1>1. request' \in [Requests -> Request]
  <2>1. ASSUME NEW q \in Requests, NEW d \in Databases, NEW k \in {"create", "drop"},
               NEW pw \in BOOLEAN, Insert(q, d, k, pw)
        PROVE  request' \in [Requests -> Request]
    <3>1. [kind |-> k, db |-> d, state |-> "pending", password |-> pw] \in Request
      BY DEF Request
    <3> QED BY <2>1, <3>1 DEF Insert, TypeOK
  <2>2. ASSUME NEW q \in Requests, Retry(q) PROVE request' \in [Requests -> Request]
    <3>1. [request[q] EXCEPT !.state = "pending"] \in Request
      BY DEF TypeOK, Request
    <3> QED BY <2>2, <3>1 DEF Retry, TypeOK
  <2> QED
    BY <2>1, <2>2, ProvisioningAssumption
    DEF StaffStep, Signup, FileByHand, RetryRequest, RetryTenant
<1>2. tenant' \in [Databases -> {"none", "provisioning", "active"}]
  BY DEF StaffStep, Signup, FileByHand, RetryRequest, RetryTenant, TypeOK, Request
<1>3. UNCHANGED <<database, spoiled, poll, worker, reports>>
  BY DEF StaffStep, Signup, FileByHand, RetryRequest, RetryTenant, Retry
<1> QED BY <1>1, <1>2, <1>3 DEF TypeOK

LEMMA PollType ==
    ASSUME TypeOK, NEW p \in Polls, PollStep(p) \/ LosePoll(p) \/ \E w \in Workers : AskJobs(w, p)
    PROVE  TypeOK'
<1>0. poll[p] \in Poll /\ worker \in [Workers -> Worker] /\ poll \in [Polls -> Poll]
  BY DEF TypeOK
<1>1. CASE \E w \in Workers : AskJobs(w, p)
  <2>1. PICK w \in Workers : AskJobs(w, p)
    BY <1>1
  <2>2. [worker[w] EXCEPT !.phase = "waiting"] \in Worker
    BY <1>0 DEF Worker
  <2>3. [phase |-> "asked", worker |-> w, rows |-> {}] \in Poll
    BY DEF Poll
  <2> QED BY <1>0, <2>1, <2>2, <2>3 DEF AskJobs, TypeOK
<1>2. CASE ReadPending(p)
  <2>1. ASSUME NEW rows \in SUBSET Pending
        PROVE  [poll[p] EXCEPT !.phase = "read", !.rows = rows] \in Poll
    BY <1>0 DEF Poll, Pending
  <2>2. poll' \in [Polls -> Poll]
    BY <1>0, <1>2, <2>1 DEF ReadPending
  <2> QED BY <1>2, <2>2 DEF ReadPending, TypeOK
<1>3. CASE Claim(p)
  <2>1. request' \in [Requests -> Request]
    <3>1. \A q \in Requests : [request[q] EXCEPT !.state = "in_progress"] \in Request
      BY DEF TypeOK, Request
    <3> QED BY <1>3, <3>1 DEF Claim, TypeOK
  <2>2. Closed \in Poll /\ [poll[p] EXCEPT !.phase = "answered"] \in Poll
    BY <1>0 DEF Poll, Closed
  <2> QED BY <1>0, <1>3, <2>1, <2>2 DEF Claim, TypeOK
<1>4. CASE ClaimAgain(p)
  <2>1. [poll[p] EXCEPT !.phase = "asked", !.rows = {}] \in Poll
    BY <1>0 DEF Poll
  <2>2. poll' \in [Polls -> Poll]
    BY <1>0, <1>4, <2>1 DEF ClaimAgain
  <2> QED BY <1>4, <2>2 DEF ClaimAgain, TypeOK
<1>5. CASE RefuseClaim(p)
  <2>1. Closed \in Poll /\ Resting \in Worker
    BY DEF Poll, Closed, Worker, Resting
  <2> QED BY <1>0, <1>5, <2>1 DEF RefuseClaim, Unanswered, TypeOK
<1>6. CASE ReceiveJobs(p)
  <2>1. Closed \in Poll /\ Resting \in Worker
    BY DEF Poll, Closed, Worker, Resting
  <2>2. [phase |-> "start", jobs |-> poll[p].rows] \in Worker
    BY <1>0 DEF Poll, Worker
  <2> QED BY <1>0, <1>6, <2>1, <2>2 DEF ReceiveJobs, TypeOK
<1>7. CASE LosePoll(p)
  <2>1. Closed \in Poll /\ Resting \in Worker /\ [poll[p] EXCEPT !.worker = Nobody] \in Poll
    BY <1>0 DEF Poll, Closed, Worker, Resting
  <2>2. poll' \in [Polls -> Poll]
    BY <1>0, <1>7, <2>1 DEF LosePoll
  <2> QED BY <1>0, <1>7, <2>1, <2>2 DEF LosePoll, TypeOK
<1> QED BY <1>1, <1>2, <1>3, <1>4, <1>5, <1>6, <1>7 DEF PollStep

LEMMA JobType ==
    ASSUME TypeOK, NEW w \in Workers, JobStep(w) \/ JobFailure(w) \/ Crash(w)
    PROVE  TypeOK'
<1>0. worker[w] \in Worker /\ worker \in [Workers -> Worker]
  BY DEF TypeOK
<1>1. Resting \in Worker /\ NoDatabase \in Database
  BY DEF Resting, Worker, NoDatabase, Database
<1>2. \A ph \in {"install", "bootstrap", "cleanup", "succeeded", "failed"} :
          GoTo(w, ph) => worker' \in [Workers -> Worker]
  BY <1>0 DEF GoTo, Worker
<1>3. \A q \in Requests : request[q].db \in Databases
  BY DEF TypeOK, Request
<1>4. CASE Crash(w)
  <2>1. \A p \in Polls : Closed \in Poll /\ [poll[p] EXCEPT !.worker = Nobody] \in Poll
    BY DEF TypeOK, Poll, Closed
  <2> QED BY <1>0, <1>1, <1>4, <2>1 DEF Crash, TypeOK
<1>5. ASSUME NEW q \in Requests,
             CreateDatabase(w, q) \/ InstallModules(w, q) \/ BootstrapAdmin(w, q)
      PROVE  TypeOK'
  <2>1. [state |-> "created", by |-> {q}] \in Database
    BY DEF Database
  <2>2. \A ds \in {"installed", "ready"} :
            [database[request[q].db] EXCEPT !.state = ds] \in Database
    BY <1>3 DEF TypeOK, Database
  <2>3. database' \in [Databases -> Database]
    BY <1>3, <1>5, <2>1, <2>2 DEF CreateDatabase, InstallModules, BootstrapAdmin, TypeOK
  <2> QED
    BY <1>2, <1>5, <2>3 DEF CreateDatabase, InstallModules, BootstrapAdmin, TypeOK
<1>6. ASSUME NEW q \in Requests,
             \/ CleanUp(w, q) \/ DropDatabase(w, q)
             \/ FailCreate(w, q) \/ FailCleanUp(w, q) \/ FailDrop(w, q)
      PROVE  TypeOK'
  BY <1>1, <1>2, <1>3, <1>6
  DEF CleanUp, DropDatabase, FailCreate, FailCleanUp, FailDrop, TypeOK
<1>7. ASSUME NEW q \in Requests, ReportResult(w, q)
      PROVE  TypeOK'
  <2>1. [phase |-> "start", jobs |-> worker[w].jobs \ {q}] \in Worker
    BY <1>0 DEF Worker
  <2>2. worker' \in [Workers -> Worker]
    BY <1>0, <1>1, <1>7, <2>1 DEF ReportResult, NextJob
  <2>3. [request |-> q, success |-> worker[w].phase = "succeeded"] \in Report
    BY DEF Report
  <2> QED BY <1>7, <2>2, <2>3 DEF ReportResult, TypeOK
<1> QED BY <1>4, <1>5, <1>6, <1>7 DEF JobStep, JobFailure

LEMMA ReportType ==
    ASSUME TypeOK, NEW m \in reports, ServeReport(m) \/ LoseReport(m)
    PROVE  TypeOK'
<1>1. m.request \in Requests
  BY DEF TypeOK, Report
<1>2. request' \in [Requests -> Request]
  <2>0. request[m.request] \in Request /\ Outcome(m) \in {"done", "error"}
    BY <1>1 DEF Outcome, TypeOK
  <2>1. [request[m.request] EXCEPT !.state = Outcome(m), !.password = FALSE] \in Request
    BY <2>0 DEF Request
  <2>2. ServeReport(m) => request' = [request EXCEPT ![m.request] =
            [request[m.request] EXCEPT !.state = Outcome(m), !.password = FALSE]]
    BY <1>1 DEF ServeReport, TypeOK
  <2> QED BY <1>1, <2>1, <2>2 DEF LoseReport, TypeOK
<1>3. tenant' \in [Databases -> {"none", "provisioning", "active"}]
  BY <1>1 DEF ServeReport, LoseReport, Activate, TypeOK, Request
<1>4. reports' \subseteq Report /\ UNCHANGED <<database, spoiled, poll, worker>>
  BY DEF ServeReport, LoseReport, TypeOK
<1> QED BY <1>2, <1>3, <1>4 DEF TypeOK

LEMMA NextType == TypeOK /\ [Next]_vars => TypeOK'
<1> SUFFICES ASSUME TypeOK, [Next]_vars PROVE TypeOK'
  OBVIOUS
<1>1. CASE UNCHANGED vars
  BY <1>1 DEF vars, TypeOK
<1>2. CASE Next
  BY <1>2, StaffType, PollType, JobType, ReportType DEF Next
<1> QED BY <1>1, <1>2

(* TypeOK holds in every reachable state: no step writes a state that the  *)
(* fields of the queue, the polls or the workers do not have.              *)
THEOREM ProvisioningTypes == Spec => []TypeOK
<1> QED BY InitType, NextType, PTL DEF Spec

-----------------------------------------------------------------------------
(* One carrier *)

LEMMA InitInv == Init => Inv
<1> SUFFICES ASSUME Init PROVE Inv
  OBVIOUS
<1>1. TypeOK
  BY InitType
<1>2. CallsMatch
  BY DEF Init, CallsMatch, Closed, Resting
<1>3. \A q \in Requests :
        /\ \A w \in Workers : ~Held(q, w)
        /\ \A p \in Polls : ~Answered(q, p)
        /\ ~Reported(q)
  BY DEF Init, Held, Answered, Reported, Resting, Closed
<1>4. Exclusive /\ Carried
  BY <1>3 DEF Exclusive, Carried, Busy, Reported, Init
<1> QED BY <1>1, <1>2, <1>4 DEF Inv

(* A step after which no place holds a job it did not hold before, and which *)
(* touches no row of a job that is still somewhere, keeps the invariant.     *)
LEMMA Shrinking ==
    ASSUME Exclusive, Carried,
           \A q \in Requests, w \in Workers : Held(q, w)' => Held(q, w),
           \A q \in Requests, p \in Polls : Answered(q, p)' => Answered(q, p),
           reports' \subseteq reports,
           \A q \in Requests : Busy(q)' =>
               /\ request'[q].kind = request[q].kind
               /\ request'[q].state = request[q].state
    PROVE  Exclusive' /\ Carried'
<1>1. \A q \in Requests : Reported(q)' => Reported(q)
  BY DEF Reported
<1>2. \A q \in Requests : Busy(q)' => Busy(q)
  BY <1>1 DEF Busy
<1>3. Exclusive'
  BY <1>1 DEF Exclusive
<1>4. Carried'
  BY <1>2 DEF Carried
<1> QED BY <1>3, <1>4

LEMMA StaffInv ==
    ASSUME Inv, StaffStep
    PROVE  CallsMatch' /\ Exclusive' /\ Carried'
<1>1. UNCHANGED <<poll, worker, reports>>
  BY DEF StaffStep, Signup, FileByHand, RetryRequest, RetryTenant, Retry
<1>2. CallsMatch'
  BY <1>1 DEF Inv, CallsMatch
<1>3. \A q \in Requests :
        Busy(q) => request'[q].kind = request[q].kind /\ request'[q].state = request[q].state
  <2> SUFFICES ASSUME NEW q \in Requests, Busy(q)
               PROVE  request'[q].kind = request[q].kind /\ request'[q].state = request[q].state
    OBVIOUS
  <2>1. request[q].kind # "none" /\ request[q].state = "in_progress"
    BY DEF Inv, Carried
  <2>2. ASSUME NEW r \in Requests, Retry(r)
        PROVE  request'[q].kind = request[q].kind /\ request'[q].state = request[q].state
    BY <2>1, <2>2 DEF Retry, Inv, TypeOK
  <2>3. ASSUME NEW r \in Requests, NEW d, NEW k, NEW pw, Insert(r, d, k, pw)
        PROVE  request'[q].kind = request[q].kind /\ request'[q].state = request[q].state
    BY <2>1, <2>3 DEF Insert, Inv, TypeOK
  <2> QED BY <2>2, <2>3 DEF StaffStep, Signup, FileByHand, RetryRequest, RetryTenant
<1>4. \A q \in Requests :
        /\ \A w \in Workers : Held(q, w)' => Held(q, w)
        /\ \A p \in Polls : Answered(q, p)' => Answered(q, p)
        /\ Busy(q)' => Busy(q)
  BY <1>1 DEF Held, Answered, Busy, Reported
<1> QED BY <1>1, <1>2, <1>3, <1>4, Shrinking DEF Inv

LEMMA AskInv ==
    ASSUME Inv, NEW w \in Workers, NEW p \in Polls, AskJobs(w, p)
    PROVE  CallsMatch' /\ Exclusive' /\ Carried'
<1>0. TypeOK /\ worker \in [Workers -> Worker] /\ poll \in [Polls -> Poll]
  BY DEF Inv, TypeOK
<1>1. UNCHANGED <<request, reports>>
  BY DEF AskJobs
<1>2. worker'[w].phase = "waiting" /\ worker'[w].jobs = {}
  <2>1. worker[w] \in Worker /\ worker[w].jobs = {}
    BY <1>0 DEF AskJobs, Inv, CallsMatch
  <2> QED BY <1>0, <2>1 DEF AskJobs, Worker
<1>3. \A v \in Workers \ {w} : worker'[v] = worker[v]
  BY <1>0 DEF AskJobs
<1>4. /\ poll'[p].phase = "asked" /\ poll'[p].worker = w
      /\ \A o \in Polls \ {p} : poll'[o] = poll[o] /\ poll[o].worker # w
  <2>1. \A o \in Polls : poll[o].worker # w
    BY ProvisioningAssumption DEF AskJobs, Inv, CallsMatch
  <2> QED BY <1>0, <2>1 DEF AskJobs
<1>5. CallsMatch'
  BY <1>0, <1>2, <1>3, <1>4, ProvisioningAssumption DEF Inv, CallsMatch, Poll
<1>6. \A q \in Requests :
        /\ \A v \in Workers : Held(q, v)' => Held(q, v)
        /\ \A o \in Polls : Answered(q, o)' => Answered(q, o)
  BY <1>2, <1>3, <1>4 DEF Held, Answered
<1> QED BY <1>1, <1>5, <1>6, Shrinking DEF Inv

LEMMA ReadInv ==
    ASSUME Inv, NEW p \in Polls, ReadPending(p) \/ ClaimAgain(p)
    PROVE  CallsMatch' /\ Exclusive' /\ Carried'
<1>0. worker \in [Workers -> Worker] /\ poll \in [Polls -> Poll]
  BY DEF Inv, TypeOK
<1>1. poll[p] \in Poll
  BY <1>0
<1>2. UNCHANGED <<request, worker, reports>> /\ poll[p].phase \in {"asked", "read"}
  BY DEF ReadPending, ClaimAgain
<1>3. /\ poll'[p].phase \in {"asked", "read"} /\ poll'[p].worker = poll[p].worker
      /\ \A o \in Polls \ {p} : poll'[o] = poll[o]
  <2>1. CASE ReadPending(p)
    <3>1. PICK rows : poll' = [poll EXCEPT ![p].phase = "read", ![p].rows = rows]
      BY <2>1 DEF ReadPending
    <3> QED BY <1>0, <1>1, <3>1 DEF Poll
  <2>2. CASE ClaimAgain(p)
    BY <1>0, <1>1, <2>2 DEF ClaimAgain, Poll
  <2> QED BY <2>1, <2>2
<1>4. CallsMatch'
  BY <1>2, <1>3 DEF Inv, CallsMatch
<1>5. \A q \in Requests :
        /\ \A v \in Workers : Held(q, v)' => Held(q, v)
        /\ \A o \in Polls : Answered(q, o)' => Answered(q, o)
  BY <1>2, <1>3 DEF Held, Answered
<1> QED BY <1>2, <1>4, <1>5, Shrinking DEF Inv

LEMMA ClaimInv ==
    ASSUME Inv, NEW p \in Polls, Claim(p)
    PROVE  CallsMatch' /\ Exclusive' /\ Carried'
<1>0. /\ worker \in [Workers -> Worker] /\ poll \in [Polls -> Poll] /\ poll[p] \in Poll
      /\ request \in [Requests -> Request] /\ poll[p].rows \subseteq Requests
  BY DEF Inv, TypeOK, Poll
<1>1. UNCHANGED <<worker, reports>> /\ poll[p].phase = "read" /\ poll[p].rows \subseteq Pending
  BY DEF Claim
<1>2. \A o \in Polls \ {p} : poll'[o] = poll[o]
  BY <1>0 DEF Claim
<1>3. \/ poll'[p] = Closed /\ poll[p].worker = Nobody
      \/ /\ poll'[p].phase = "answered" /\ poll[p].worker # Nobody
         /\ poll'[p].worker = poll[p].worker /\ poll'[p].rows = poll[p].rows
  BY <1>0 DEF Claim, Poll
<1>4. CallsMatch'
  BY <1>1, <1>2, <1>3 DEF Inv, CallsMatch, Closed
<1>5. \A q \in poll[p].rows :
        ~Busy(q) /\ request'[q].kind # "none" /\ request'[q].state = "in_progress"
  <2> SUFFICES ASSUME NEW q \in poll[p].rows
               PROVE  ~Busy(q) /\ request'[q].kind # "none" /\ request'[q].state = "in_progress"
    OBVIOUS
  <2>1. q \in Requests /\ request[q] \in Request
    BY <1>0
  <2>2. request[q].kind # "none" /\ request[q].state = "pending"
    BY <1>1 DEF Pending
  <2>3. ~Busy(q)
    BY <2>1, <2>2 DEF Inv, Carried
  <2>4. request'[q] = [request[q] EXCEPT !.state = "in_progress"]
    BY <2>1 DEF Claim
  <2> QED BY <2>1, <2>2, <2>3, <2>4 DEF Request
<1>6. \A q \in Requests \ poll[p].rows : request'[q] = request[q]
  BY DEF Claim
<1>7. \A q \in Requests :
        /\ \A w \in Workers : Held(q, w)' <=> Held(q, w)
        /\ Reported(q)' <=> Reported(q)
        /\ \A o \in Polls \ {p} : Answered(q, o)' <=> Answered(q, o)
        /\ Answered(q, p)' => q \in poll[p].rows
  BY <1>1, <1>2, <1>3 DEF Held, Reported, Answered, Closed
<1>8. Exclusive'
  BY <1>1, <1>5, <1>7 DEF Exclusive, Inv, Busy
<1>9. Carried'
  BY <1>5, <1>6, <1>7 DEF Carried, Inv, Busy
<1> QED BY <1>4, <1>8, <1>9

LEMMA RefuseInv ==
    ASSUME Inv, NEW p \in Polls, RefuseClaim(p) \/ LosePoll(p)
    PROVE  CallsMatch' /\ Exclusive' /\ Carried'
<1>0. /\ worker \in [Workers -> Worker] /\ poll \in [Polls -> Poll] /\ poll[p] \in Poll
      /\ poll[p].worker \in Workers \union {Nobody}
  BY DEF Inv, TypeOK, Poll
<1>1. UNCHANGED <<request, reports>>
  BY DEF RefuseClaim, LosePoll
<1>2. \/ worker' = worker /\ poll[p].worker = Nobody
      \/ worker' = [worker EXCEPT ![poll[p].worker] = Resting] /\ poll[p].worker \in Workers
  BY <1>0 DEF RefuseClaim, Unanswered, LosePoll
<1>3. /\ \A o \in Polls \ {p} : poll'[o] = poll[o]
      /\ poll'[p].worker = Nobody /\ poll'[p].phase # "answered"
  <2>1. CASE poll' = [poll EXCEPT ![p] = Closed]
    BY <1>0, <2>1 DEF Closed
  <2>2. CASE poll' = [poll EXCEPT ![p].worker = Nobody] /\ poll[p].phase # "answered"
    BY <1>0, <2>2 DEF Poll
  <2> QED BY <2>1, <2>2 DEF RefuseClaim, LosePoll
<1>4. \A w \in Workers : worker'[w] = worker[w] \/ worker'[w] = Resting
  BY <1>0, <1>2
<1>5. \A w \in Workers : w # poll[p].worker => worker'[w] = worker[w]
  BY <1>0, <1>2
<1>6. CallsMatch'
  <2>1. \A o \in Polls \ {p} : poll[o].worker # Nobody => poll[o].worker # poll[p].worker
    BY DEF Inv, CallsMatch
  <2>2. \A o \in Polls : poll[o].worker \in Workers \union {Nobody}
    BY <1>0 DEF Poll
  <2>3. \A w \in Workers : worker'[w].phase \in {"idle", "waiting"} => worker'[w].jobs = {}
    BY <1>4 DEF Inv, CallsMatch, Resting
  <2> QED BY <1>3, <1>5, <2>1, <2>2, <2>3 DEF Inv, CallsMatch
<1>7. \A q \in Requests :
        /\ \A w \in Workers : Held(q, w)' => Held(q, w)
        /\ \A o \in Polls : Answered(q, o)' => Answered(q, o)
  BY <1>3, <1>4 DEF Held, Answered, Resting
<1> QED BY <1>1, <1>6, <1>7, Shrinking DEF Inv

LEMMA ReceiveInv ==
    ASSUME Inv, NEW p \in Polls, ReceiveJobs(p)
    PROVE  CallsMatch' /\ Exclusive' /\ Carried'
<1>. PICK v \in Workers : v = poll[p].worker
  BY DEF Inv, TypeOK, ReceiveJobs, Poll, CallsMatch
<1>0. /\ worker \in [Workers -> Worker] /\ poll \in [Polls -> Poll]
      /\ poll[p].phase = "answered" /\ worker[v].phase = "waiting"
      /\ worker[v].jobs = {}
  <2>1. worker[v].phase = "waiting"
    BY ProvisioningAssumption DEF Inv, CallsMatch
  <2>2. worker[v].jobs = {}
    BY <2>1 DEF Inv, CallsMatch
  <2> QED BY <2>1, <2>2 DEF Inv, TypeOK, ReceiveJobs
<1>1. UNCHANGED <<request, reports>>
  BY DEF ReceiveJobs
<1>2. /\ \A o \in Polls \ {p} : poll'[o] = poll[o]
      /\ poll'[p] = Closed
  BY <1>0 DEF ReceiveJobs
<1>3. /\ \A w \in Workers \ {v} : worker'[w] = worker[w]
      /\ worker'[v].jobs = poll[p].rows
      /\ worker'[v].phase \in {"idle", "waiting"} => poll[p].rows = {}
  BY <1>0 DEF ReceiveJobs, Resting
<1>4. CallsMatch'
  <2>1. \A o \in Polls \ {p} : poll[o].worker # v
    BY <1>0, ProvisioningAssumption DEF Inv, CallsMatch
  <2>2. \A o \in Polls : poll[o].worker \in Workers \union {Nobody}
    BY <1>0 DEF Poll
  <2>3. \A w \in Workers : worker'[w].phase \in {"idle", "waiting"} => worker'[w].jobs = {}
    BY <1>3 DEF Inv, CallsMatch
  <2> QED BY <1>2, <1>3, <2>1, <2>2, <2>3 DEF Inv, CallsMatch, Closed
<1>5. \A q \in Requests :
        /\ \A w \in Workers \ {v} : Held(q, w)' <=> Held(q, w)
        /\ Held(q, v)' <=> Answered(q, p)
        /\ \A o \in Polls \ {p} : Answered(q, o)' <=> Answered(q, o)
        /\ ~Answered(q, p)'
        /\ Reported(q)' <=> Reported(q)
  BY <1>0, <1>1, <1>2, <1>3 DEF Held, Answered, Reported, Closed
<1>6. Exclusive'
  BY <1>0, <1>1, <1>5 DEF Exclusive, Inv
<1>7. Carried'
  BY <1>0, <1>1, <1>5 DEF Carried, Inv, Busy
<1> QED BY <1>4, <1>6, <1>7

(* The steps of a job move no job anywhere. *)
LEMMA JobInv ==
    ASSUME Inv, NEW w \in Workers, NEW q \in Requests,
           \/ CreateDatabase(w, q) \/ InstallModules(w, q) \/ BootstrapAdmin(w, q)
           \/ CleanUp(w, q) \/ DropDatabase(w, q)
           \/ FailCreate(w, q) \/ FailCleanUp(w, q) \/ FailDrop(w, q)
    PROVE  CallsMatch' /\ Exclusive' /\ Carried'
<1>0. worker \in [Workers -> Worker] /\ worker[w] \in Worker
  BY DEF Inv, TypeOK
<1>1. UNCHANGED <<request, poll, reports>> /\ worker[w].phase \notin {"idle", "waiting"}
  BY DEF CreateDatabase, InstallModules, BootstrapAdmin, CleanUp, DropDatabase,
         FailCreate, FailCleanUp, FailDrop, At
<1>2. \E ph \in {"install", "bootstrap", "cleanup", "succeeded", "failed"} : GoTo(w, ph)
  BY DEF CreateDatabase, InstallModules, BootstrapAdmin, CleanUp, DropDatabase,
         FailCreate, FailCleanUp, FailDrop
<1>3. /\ worker'[w].phase \notin {"idle", "waiting"} /\ worker'[w].jobs = worker[w].jobs
      /\ \A v \in Workers \ {w} : worker'[v] = worker[v]
  BY <1>0, <1>2 DEF GoTo, Worker
<1>4. CallsMatch'
  <2>1. \A p \in Polls : poll[p].worker # w
    BY <1>1, ProvisioningAssumption DEF Inv, CallsMatch
  <2>2. \A p \in Polls : poll[p].worker \in Workers \union {Nobody}
    BY DEF Inv, TypeOK, Poll
  <2> QED BY <1>1, <1>3, <2>1, <2>2 DEF Inv, CallsMatch
<1>5. \A r \in Requests :
        /\ \A v \in Workers : Held(r, v)' => Held(r, v)
        /\ \A o \in Polls : Answered(r, o)' => Answered(r, o)
  BY <1>1, <1>3 DEF Held, Answered
<1> QED BY <1>1, <1>4, <1>5, Shrinking DEF Inv

LEMMA CrashInv ==
    ASSUME Inv, NEW w \in Workers, Crash(w)
    PROVE  CallsMatch' /\ Exclusive' /\ Carried'
<1>0. worker \in [Workers -> Worker] /\ poll \in [Polls -> Poll]
  BY DEF Inv, TypeOK
<1>1. UNCHANGED <<request, reports>>
  BY DEF Crash
<1>2. worker'[w] = Resting /\ \A v \in Workers \ {w} : worker'[v] = worker[v]
  BY <1>0 DEF Crash
<1>3. \A p \in Polls :
        \/ poll'[p] = poll[p] /\ poll[p].worker # w
        \/ poll'[p].worker = Nobody /\ poll'[p].phase # "answered"
  <2> SUFFICES ASSUME NEW p \in Polls
               PROVE  \/ poll'[p] = poll[p] /\ poll[p].worker # w
                      \/ poll'[p].worker = Nobody /\ poll'[p].phase # "answered"
    OBVIOUS
  <2>1. CASE poll[p].worker # w
    BY <2>1 DEF Crash
  <2>2. CASE poll[p].worker = w /\ poll[p].phase = "answered"
    BY <2>2 DEF Crash, Closed
  <2>3. CASE poll[p].worker = w /\ poll[p].phase # "answered"
    <3>1. poll[p] \in Poll /\ poll'[p] = [poll[p] EXCEPT !.worker = Nobody]
      BY <1>0, <2>3 DEF Crash
    <3> QED BY <2>3, <3>1 DEF Poll
  <2> QED BY <2>1, <2>2, <2>3
<1>4. CallsMatch'
  <2>1. \A p \in Polls : poll[p].worker \in Workers \union {Nobody}
    BY <1>0 DEF Poll
  <2> QED BY <1>2, <1>3, <2>1 DEF Inv, CallsMatch, Resting
<1>5. \A q \in Requests :
        /\ \A v \in Workers : Held(q, v)' => Held(q, v)
        /\ \A p \in Polls : Answered(q, p)' => Answered(q, p)
  BY <1>2, <1>3 DEF Held, Answered, Resting
<1> QED BY <1>1, <1>4, <1>5, Shrinking DEF Inv

(* A job that is reported leaves its worker. *)
LEMMA ReportInv ==
    ASSUME Inv, NEW w \in Workers, NEW q \in Requests, ReportResult(w, q)
    PROVE  CallsMatch' /\ Exclusive' /\ Carried'
<1>0. worker \in [Workers -> Worker] /\ worker[w] \in Worker /\ Held(q, w)
  BY DEF Inv, TypeOK, ReportResult, At, Held
<1>1. UNCHANGED <<request, poll>> /\ worker[w].phase \notin {"idle", "waiting"}
  BY DEF ReportResult, At
<1>2. \A n \in reports' : n \in reports \/ n.request = q
  BY DEF ReportResult
<1>3. /\ worker'[w].jobs = worker[w].jobs \ {q}
      /\ worker'[w].phase \in {"idle", "waiting"} => worker'[w].jobs = {}
      /\ \A v \in Workers \ {w} : worker'[v] = worker[v]
  BY <1>0 DEF ReportResult, NextJob, Resting
<1>4. CallsMatch'
  <2>1. \A p \in Polls : poll[p].worker # w
    BY <1>1, ProvisioningAssumption DEF Inv, CallsMatch
  <2>2. \A p \in Polls : poll[p].worker \in Workers \union {Nobody}
    BY DEF Inv, TypeOK, Poll
  <2> QED BY <1>1, <1>3, <2>1, <2>2 DEF Inv, CallsMatch
<1>5. ~Reported(q)
  BY <1>0 DEF Inv, Exclusive
<1>6. \A n, o \in reports' : n.request = q /\ o.request = q => n = o
  BY <1>5 DEF ReportResult, Reported
<1>7. \A r \in Requests :
        /\ \A v \in Workers : Held(r, v)' => Held(r, v) /\ ~(r = q)
        /\ \A p \in Polls : Answered(r, p)' <=> Answered(r, p)
        /\ Reported(r)' => Reported(r) \/ r = q
  <2>1. \A v \in Workers : Held(q, v) => v = w
    BY <1>0 DEF Inv, Exclusive
  <2>2. \A r \in Requests, v \in Workers : Held(r, v)' => Held(r, v) /\ ~(r = q)
    BY <1>3, <2>1 DEF Held
  <2> QED BY <1>1, <1>2, <2>2 DEF Answered, Reported
<1>8. Exclusive'
  <2> SUFFICES ASSUME NEW r \in Requests
               PROVE
        /\ \A u, v \in Workers : Held(r, u)' /\ Held(r, v)' => u = v
        /\ \A p, o \in Polls : Answered(r, p)' /\ Answered(r, o)' => p = o
        /\ \A n, o \in reports' : n.request = r /\ o.request = r => n = o
        /\ \A u \in Workers, p \in Polls : ~(Held(r, u)' /\ Answered(r, p)')
        /\ \A u \in Workers : ~(Held(r, u)' /\ Reported(r)')
        /\ \A p \in Polls : ~(Answered(r, p)' /\ Reported(r)')
    BY DEF Exclusive
  <2>1. CASE r = q
    BY <1>0, <1>6, <1>7, <2>1 DEF Inv, Exclusive
  <2>2. CASE r # q
    BY <1>2, <1>7, <2>2 DEF Inv, Exclusive
  <2> QED BY <2>1, <2>2
<1>9. Carried'
  BY <1>0, <1>1, <1>7 DEF Inv, Carried, Busy
<1> QED BY <1>4, <1>8, <1>9

LEMMA ServeInv ==
    ASSUME Inv, NEW m \in reports, ServeReport(m) \/ LoseReport(m)
    PROVE  CallsMatch' /\ Exclusive' /\ Carried'
<1>0. m.request \in Requests /\ request \in [Requests -> Request]
  BY DEF Inv, TypeOK, Report
<1>1. UNCHANGED <<poll, worker>> /\ reports' = reports \ {m}
  BY DEF ServeReport, LoseReport
<1>2. CallsMatch'
  BY <1>1 DEF Inv, CallsMatch
<1>3. \A q \in Requests \ {m.request} : request'[q] = request[q]
  BY <1>0 DEF ServeReport, LoseReport
<1>4. \A q \in Requests :
        /\ \A w \in Workers : Held(q, w)' <=> Held(q, w)
        /\ \A p \in Polls : Answered(q, p)' <=> Answered(q, p)
  BY <1>1 DEF Held, Answered
<1>5. ~Busy(m.request)'
  <2>1. Reported(m.request)
    BY DEF Reported
  <2>2. \A n \in reports : n.request = m.request => n = m
    BY <1>0 DEF Inv, Exclusive
  <2> QED BY <1>0, <1>1, <1>4, <2>1, <2>2 DEF Inv, Exclusive, Busy, Reported
<1> QED BY <1>1, <1>2, <1>3, <1>4, <1>5, Shrinking DEF Inv

LEMMA NextInv == Inv /\ [Next]_vars => Inv'
<1> SUFFICES ASSUME Inv, [Next]_vars PROVE Inv'
  OBVIOUS
<1>1. TypeOK'
  BY NextType DEF Inv
<1>2. CASE UNCHANGED vars
  BY <1>1, <1>2
  DEF vars, Inv, CallsMatch, Exclusive, Carried, Busy, Held, Answered, Reported
<1>3. CASE StaffStep
  BY <1>1, <1>3, StaffInv DEF Inv
<1>4. ASSUME NEW p \in Polls, PollStep(p) \/ LosePoll(p) \/ \E w \in Workers : AskJobs(w, p)
      PROVE  Inv'
  BY <1>1, <1>4, AskInv, ReadInv, ClaimInv, RefuseInv, ReceiveInv DEF PollStep, Inv
<1>5. ASSUME NEW w \in Workers, JobStep(w) \/ JobFailure(w) \/ Crash(w)
      PROVE  Inv'
  BY <1>1, <1>5, JobInv, ReportInv, CrashInv DEF JobStep, JobFailure, Inv
<1>6. ASSUME NEW m \in reports, ServeReport(m) \/ LoseReport(m)
      PROVE  Inv'
  BY <1>1, <1>6, ServeInv DEF Inv
<1> QED BY <1>2, <1>3, <1>4, <1>5, <1>6 DEF Next

LEMMA InvIsOneCarrier == Inv => OneCarrier
<1> SUFFICES ASSUME Inv, NEW q \in Requests
             PROVE  /\ \A a, b \in Carriers(q) : a = b
                    /\ Carriers(q) # {} => request[q].kind # "none" /\ request[q].state = "in_progress"
  BY DEF OneCarrier
<1>1. \A a \in Carriers(q) :
        \/ \E p \in Polls : a = <<"poll", p>> /\ Answered(q, p)
        \/ \E w \in Workers : a = <<"worker", w>> /\ Held(q, w)
        \/ \E m \in reports : a = <<"report", m>> /\ m.request = q
  BY DEF Carriers, Answered, Held
<1>2. ASSUME NEW a \in Carriers(q), NEW b \in Carriers(q) PROVE a = b
  <2>1. CASE \E p \in Polls : a = <<"poll", p>> /\ Answered(q, p)
    BY <1>1, <2>1 DEF Inv, Exclusive, Reported
  <2>2. CASE \E w \in Workers : a = <<"worker", w>> /\ Held(q, w)
    BY <1>1, <2>2 DEF Inv, Exclusive, Reported
  <2>3. CASE \E m \in reports : a = <<"report", m>> /\ m.request = q
    BY <1>1, <2>3 DEF Inv, Exclusive, Reported
  <2> QED BY <1>1, <2>1, <2>2, <2>3
<1>3. Carriers(q) # {} => Busy(q)
  BY <1>1 DEF Busy, Reported
<1> QED BY <1>2, <1>3 DEF Inv, Carried

(* No job is ever in two places, and only jobs of rows in progress are       *)
(* anywhere, for any number of workers polling pending() and reporting to    *)
(* callback().                                                               *)
THEOREM JobsHaveOneCarrier == Spec => []OneCarrier
<1> QED BY InitInv, NextInv, InvIsOneCarrier, PTL DEF Spec

(* What callback() has written stands, although it never looks at the state *)
(* it overwrites: a report only arrives while its row is in progress.       *)
THEOREM OutcomesStand == Spec => OutcomeStands
<1> DEFINE Stands == \A q \in Requests : request[q].kind # "none" =>
                /\ request[q].state = "done" => request'[q].state = "done"
                /\ request[q].state = "error" => request'[q].state \in {"error", "pending"}
<1>1. Inv /\ [Next]_vars => [Stands]_vars
  <2> SUFFICES ASSUME Inv, Next PROVE Stands
    OBVIOUS
  <2>0. request \in [Requests -> Request]
    BY DEF Inv, TypeOK
  <2>1. CASE StaffStep
    <3>1. ASSUME NEW q \in Requests, Retry(q) PROVE Stands
      BY <2>0, <3>1 DEF Retry, Request
    <3>2. ASSUME NEW q \in Requests, NEW d, NEW k, NEW pw, Insert(q, d, k, pw) PROVE Stands
      BY <2>0, <3>2 DEF Insert
    <3> QED BY <2>1, <3>1, <3>2 DEF StaffStep, Signup, FileByHand, RetryRequest, RetryTenant
  <2>2. CASE \E p \in Polls : Claim(p)
    <3>1. PICK p \in Polls : Claim(p)
      BY <2>2
    <3>2. \A q \in Requests : request[q].state # "pending" => request'[q] = request[q]
      BY <3>1 DEF Claim, Pending
    <3> QED BY <3>2
  <2>3. ASSUME NEW m \in reports, ServeReport(m) PROVE Stands
    <3>1. m.request \in Requests /\ Reported(m.request)
      BY DEF Inv, TypeOK, Report, Reported
    <3>2. request[m.request].state = "in_progress"
      BY <3>1 DEF Inv, Carried, Busy
    <3>3. \A q \in Requests \ {m.request} : request'[q] = request[q]
      BY <2>0, <2>3, <3>1 DEF ServeReport
    <3> QED BY <3>2, <3>3
  <2>4. CASE request' = request
    BY <2>4
  <2> QED
    BY <2>1, <2>2, <2>3, <2>4
    DEF Next, AskJobs, PollStep, ReadPending, ClaimAgain, RefuseClaim, ReceiveJobs, LosePoll,
        JobStep, JobFailure, Crash, CreateDatabase, InstallModules, BootstrapAdmin, CleanUp,
        DropDatabase, ReportResult, FailCreate, FailCleanUp, FailDrop, LoseReport
<1> QED BY <1>1, InitInv, NextInv, PTL DEF Spec, OutcomeStands

-----------------------------------------------------------------------------
(* The databases of tenants *)

(* Without a request for it, a database is as it was at first. *)
Untouched ==
    \A d \in Databases :
        (\A q \in Requests : request[q].kind # "none" => request[q].db # d) =>
            tenant[d] = "none" /\ database[d] = NoDatabase

(* Nothing of database d is left, unless a clean-up has failed. *)
Clean(d) == d \in spoiled \/ database[d].state = "absent"

(* Request q has brought its database to this state. *)
Made(q, state) == database[request[q].db] = [state |-> state, by |-> {q}]

(* The only request ever filed for a database, a create request, finds in    *)
(* each of its stages what it has made of the database so far.               *)
Staged(q) ==
    /\ tenant[request[q].db] = "active" => request[q].state = "done"
    /\ request[q].state \in {"pending", "error"} => Clean(request[q].db)
    /\ request[q].state = "done" => Made(q, "ready")
    /\ \A p \in Polls : Answered(q, p) => Clean(request[q].db)
    /\ \A w \in Workers : Held(q, w) =>
          /\ At(w, q, "install") => Made(q, "created")
          /\ At(w, q, "bootstrap") => Made(q, "installed")
          /\ At(w, q, "succeeded") => Made(q, "ready")
          /\ \/ At(w, q, "start") \/ At(w, q, "failed")
             \/ \E r \in worker[w].jobs : r < q
             => Clean(request[q].db)
    /\ \A m \in reports : m.request = q =>
          IF m.success THEN Made(q, "ready") ELSE Clean(request[q].db)

Stages == \A q \in Requests : request[q].kind = "create" /\ Alone(q) => Staged(q)

StagesInv == Inv /\ Untouched /\ Stages

LEMMA InitStages == Init => StagesInv
<1> SUFFICES ASSUME Init PROVE StagesInv
  OBVIOUS
<1>1. \A q \in Requests : request[q].kind = "none"
  BY DEF Init
<1>2. Stages
  BY <1>1 DEF Stages
<1>3. Untouched
  BY DEF Init, Untouched
<1> QED BY <1>2, <1>3, InitInv DEF StagesInv

(* Rows stay, with their kind and database. *)
RowsStay ==
    \A q \in Requests : request[q].kind # "none" =>
        request'[q].kind = request[q].kind /\ request'[q].db = request[q].db

LEMMA AloneStays ==
    ASSUME RowsStay, NEW q \in Requests, request[q].kind # "none", Alone(q)'
    PROVE  Alone(q)
BY DEF RowsStay, Alone

(* A step that leaves alone the databases, the rows but for their claim, and  *)
(* hands a worker nothing but the answer it was waiting for.                  *)
LEMMA HandedOn ==
    ASSUME StagesInv, UNCHANGED <<tenant, database, spoiled, reports>>,
           \A q \in Requests :
              /\ request'[q].kind = request[q].kind /\ request'[q].db = request[q].db
              /\ \/ request'[q].state = request[q].state
                 \/ request[q].state = "pending" /\ request'[q].state = "in_progress",
           \A q \in Requests, p \in Polls :
              Answered(q, p)' => Answered(q, p) \/ request[q].state = "pending",
           \A q \in Requests, w \in Workers : Held(q, w)' =>
              \/ worker'[w] = worker[w]
              \/ worker'[w].phase = "start" /\ \E p \in Polls : Answered(q, p)
    PROVE  Untouched' /\ Stages'
<1>1. Untouched'
  BY DEF StagesInv, Untouched
<1>2. ASSUME NEW q \in Requests, request'[q].kind = "create", Alone(q)'
      PROVE  Staged(q)'
  <2>1. RowsStay
    BY DEF RowsStay
  <2>2. request[q].kind = "create" /\ Alone(q)
    BY <1>2, <2>1, AloneStays
  <2>3. Staged(q)
    BY <2>2 DEF StagesInv, Stages
  <2>4. /\ request'[q].db = request[q].db /\ Clean(request[q].db)' = Clean(request[q].db)
        /\ \A state \in {"created", "installed", "ready"} : Made(q, state)' = Made(q, state)
    BY DEF Clean, Made
  <2>5. tenant'[request'[q].db] = "active" => request'[q].state = "done"
    BY <2>3 DEF Staged
  <2>6. /\ request'[q].state \in {"pending", "error"} => Clean(request[q].db)'
        /\ request'[q].state = "done" => Made(q, "ready")'
    BY <2>3, <2>4 DEF Staged
  <2>7. \A p \in Polls : Answered(q, p)' => Clean(request[q].db)'
    BY <2>3, <2>4 DEF Staged
  <2>8. ASSUME NEW w \in Workers, Held(q, w)'
        PROVE  /\ At(w, q, "install")' => Made(q, "created")'
               /\ At(w, q, "bootstrap")' => Made(q, "installed")'
               /\ At(w, q, "succeeded")' => Made(q, "ready")'
               /\ \/ At(w, q, "start")' \/ At(w, q, "failed")'
                  \/ \E r \in worker'[w].jobs : r < q
                  => Clean(request[q].db)'
    <3>1. CASE worker'[w] = worker[w]
      BY <2>3, <2>4, <2>8, <3>1 DEF Staged, Held, At
    <3>2. CASE worker'[w].phase = "start" /\ \E p \in Polls : Answered(q, p)
      BY <2>3, <2>4, <3>2 DEF Staged, At
    <3> QED BY <2>8, <3>1, <3>2
  <2>9. \A m \in reports' : m.request = q =>
          IF m.success THEN Made(q, "ready")' ELSE Clean(request[q].db)'
    BY <2>3, <2>4 DEF Staged
  <2> QED BY <2>4, <2>5, <2>6, <2>7, <2>8, <2>9 DEF Staged
<1> QED BY <1>1, <1>2 DEF Stages

LEMMA PollStages ==
    ASSUME StagesInv, NEW p \in Polls,
           PollStep(p) \/ LosePoll(p) \/ \E w \in Workers : AskJobs(w, p)
    PROVE  Untouched' /\ Stages'
<1>0. /\ worker \in [Workers -> Worker] /\ poll \in [Polls -> Poll] /\ poll[p] \in Poll
      /\ request \in [Requests -> Request]
  BY DEF StagesInv, Inv, TypeOK
<1>1. CASE \E w \in Workers : AskJobs(w, p)
  <2>1. PICK w \in Workers : AskJobs(w, p)
    BY <1>1
  <2>2. /\ poll'[p].phase = "asked" /\ \A o \in Polls \ {p} : poll'[o] = poll[o]
        /\ worker'[w].jobs = worker[w].jobs
        /\ \A v \in Workers \ {w} : worker'[v] = worker[v]
    BY <1>0, <2>1 DEF AskJobs, Worker
  <2>3. worker[w].jobs = {}
    BY <2>1 DEF AskJobs, StagesInv, Inv, CallsMatch
  <2>4. UNCHANGED <<request, tenant, database, spoiled, reports>>
    BY <2>1 DEF AskJobs
  <2>5. /\ \A q \in Requests, o \in Polls : Answered(q, o)' => Answered(q, o)
        /\ \A q \in Requests, v \in Workers : Held(q, v)' => worker'[v] = worker[v]
    BY <2>2, <2>3 DEF Answered, Held
  <2> QED BY <2>4, <2>5, HandedOn
<1>2. CASE ReadPending(p) \/ ClaimAgain(p)
  <2>1. UNCHANGED <<request, tenant, database, spoiled, worker, reports>>
    BY <1>2 DEF ReadPending, ClaimAgain
  <2>2. poll'[p].phase \in {"asked", "read"} /\ \A o \in Polls \ {p} : poll'[o] = poll[o]
    <3>1. CASE ReadPending(p)
      <4>1. PICK rows : poll' = [poll EXCEPT ![p].phase = "read", ![p].rows = rows]
        BY <3>1 DEF ReadPending
      <4> QED BY <1>0, <4>1 DEF Poll
    <3>2. CASE ClaimAgain(p)
      BY <1>0, <3>2 DEF ClaimAgain, Poll
    <3> QED BY <1>2, <3>1, <3>2
  <2>3. \A q \in Requests, o \in Polls : Answered(q, o)' => Answered(q, o)
    BY <2>2 DEF Answered
  <2> QED BY <2>1, <2>3, HandedOn
<1>3. CASE Claim(p)
  <2>1. UNCHANGED <<tenant, database, spoiled, worker, reports>>
    BY <1>3 DEF Claim
  <2>2. \A q \in Requests :
          /\ request'[q].kind = request[q].kind /\ request'[q].db = request[q].db
          /\ \/ request'[q].state = request[q].state
             \/ request[q].state = "pending" /\ request'[q].state = "in_progress"
    <3> TAKE q \in Requests
    <3>1. CASE q \in poll[p].rows
      <4>1. request'[q] = [request[q] EXCEPT !.state = "in_progress"]
        BY <1>3, <3>1 DEF Claim
      <4>2. request[q].state = "pending"
        BY <1>3, <3>1 DEF Claim, Pending
      <4> QED BY <1>0, <4>1, <4>2 DEF Request
    <3>2. CASE q \notin poll[p].rows
      BY <1>3, <3>2 DEF Claim
    <3> QED BY <3>1, <3>2
  <2>3. \A q \in Requests, o \in Polls :
          Answered(q, o)' => Answered(q, o) \/ request[q].state = "pending"
    <3>1. \A o \in Polls \ {p} : poll'[o] = poll[o]
      BY <1>0, <1>3 DEF Claim
    <3>2. poll'[p].phase = "answered" => poll'[p].rows \subseteq Pending
      BY <1>0, <1>3 DEF Claim, Poll, Closed
    <3> QED BY <3>1, <3>2 DEF Answered, Pending
  <2> QED BY <2>1, <2>2, <2>3, HandedOn
<1>4. CASE RefuseClaim(p) \/ LosePoll(p)
  <2>1. UNCHANGED <<request, tenant, database, spoiled, reports>>
    BY <1>4 DEF RefuseClaim, LosePoll
  <2>2. \A w \in Workers : worker'[w] = worker[w] \/ worker'[w] = Resting
    BY <1>0, <1>4 DEF RefuseClaim, Unanswered, LosePoll
  <2>3. poll'[p].phase # "answered" /\ \A o \in Polls \ {p} : poll'[o] = poll[o]
    <3>1. CASE poll' = [poll EXCEPT ![p] = Closed]
      BY <1>0, <3>1 DEF Closed
    <3>2. CASE poll' = [poll EXCEPT ![p].worker = Nobody] /\ poll[p].phase # "answered"
      BY <1>0, <3>2 DEF Poll
    <3> QED BY <1>4, <3>1, <3>2 DEF RefuseClaim, LosePoll
  <2>4. /\ \A q \in Requests, o \in Polls : Answered(q, o)' => Answered(q, o)
        /\ \A q \in Requests, v \in Workers : Held(q, v)' => worker'[v] = worker[v]
    BY <2>2, <2>3 DEF Answered, Held, Resting
  <2> QED BY <2>1, <2>4, HandedOn
<1>5. CASE ReceiveJobs(p)
  <2>1. UNCHANGED <<request, tenant, database, spoiled, reports>>
    BY <1>5 DEF ReceiveJobs
  <2>2. poll'[p].phase # "answered" /\ \A o \in Polls \ {p} : poll'[o] = poll[o]
    BY <1>0, <1>5 DEF ReceiveJobs, Closed
  <2>3. \A w \in Workers :
          \/ worker'[w] = worker[w] \/ worker'[w] = Resting
          \/ worker'[w] = [phase |-> "start", jobs |-> poll[p].rows]
    BY <1>0, <1>5 DEF ReceiveJobs
  <2>4. \A q \in Requests, o \in Polls : Answered(q, o)' => Answered(q, o)
    BY <2>2 DEF Answered
  <2>5. \A q \in poll[p].rows : Answered(q, p)
    BY <1>5 DEF ReceiveJobs, Answered
  <2>6. \A q \in Requests, w \in Workers : Held(q, w)' =>
           \/ worker'[w] = worker[w]
           \/ worker'[w].phase = "start" /\ \E o \in Polls : Answered(q, o)
    BY <2>3, <2>5 DEF Held, Resting
  <2> QED BY <2>1, <2>4, <2>6, HandedOn
<1> QED BY <1>1, <1>2, <1>3, <1>4, <1>5 DEF PollStep

LEMMA CrashStages ==
    ASSUME StagesInv, NEW w \in Workers, Crash(w)
    PROVE  Untouched' /\ Stages'
<1>1. UNCHANGED <<request, tenant, database, spoiled, reports>>
  BY DEF Crash
<1>2. \A v \in Workers : worker'[v] = worker[v] \/ worker'[v] = Resting
  BY DEF StagesInv, Inv, TypeOK, Crash
<1>3. \A p \in Polls : poll'[p] = poll[p] \/ poll'[p].phase # "answered"
  <2> TAKE p \in Polls
  <2>1. CASE poll[p].worker = w /\ poll[p].phase # "answered"
    <3>1. poll[p] \in Poll /\ poll'[p] = [poll[p] EXCEPT !.worker = Nobody]
      BY <2>1 DEF StagesInv, Inv, TypeOK, Crash
    <3> QED BY <2>1, <3>1 DEF Poll
  <2>2. CASE ~(poll[p].worker = w /\ poll[p].phase # "answered")
    BY <2>2 DEF Crash, Closed
  <2> QED BY <2>1, <2>2
<1>4. /\ \A q \in Requests, o \in Polls : Answered(q, o)' => Answered(q, o)
      /\ \A q \in Requests, v \in Workers : Held(q, v)' => worker'[v] = worker[v]
  BY <1>2, <1>3 DEF Answered, Held, Resting
<1> QED BY <1>1, <1>4, HandedOn

(* A new row is the first of its database, or it has company. *)
LEMMA InsertStages ==
    ASSUME StagesInv, NEW q \in Requests, NEW d \in Databases,
           NEW k \in {"create", "drop"}, NEW pw \in BOOLEAN, Insert(q, d, k, pw),
           UNCHANGED <<database, spoiled, poll, worker, reports>>,
           \/ tenant[d] = "none" /\ tenant' = [tenant EXCEPT ![d] = "provisioning"]
           \/ tenant[d] # "none" /\ tenant' = tenant
    PROVE  Untouched' /\ Stages'
<1>0. /\ request \in [Requests -> Request]
      /\ tenant \in [Databases -> {"none", "provisioning", "active"}]
      /\ \A r \in Requests : request[r].db \in Databases
  BY DEF StagesInv, Inv, TypeOK, Request
<1>1. /\ request'[q] = [kind |-> k, db |-> d, state |-> "pending", password |-> pw]
      /\ \A r \in Requests \ {q} : request'[r] = request[r]
      /\ request[q].kind = "none"
  BY <1>0 DEF Insert
<1>2. RowsStay
  BY <1>1 DEF RowsStay
<1>3. Untouched'
  <2> SUFFICES ASSUME NEW e \in Databases,
                      \A r \in Requests : request'[r].kind # "none" => request'[r].db # e
               PROVE  tenant'[e] = "none" /\ database'[e] = NoDatabase
    BY DEF Untouched
  <2>1. e # d
    BY <1>1
  <2>2. \A r \in Requests : request[r].kind # "none" => request[r].db # e
    BY <1>2 DEF RowsStay
  <2> QED BY <1>0, <2>1, <2>2 DEF StagesInv, Untouched
<1>4. ASSUME NEW r \in Requests, request'[r].kind = "create", Alone(r)'
      PROVE  Staged(r)'
  <2>1. CASE r = q
    <3>1. \A e \in Requests : request[e].kind # "none" => request[e].db # d
      BY <1>1, <1>4, <2>1 DEF Alone
    <3>2. tenant[d] = "none" /\ database[d] = NoDatabase
      BY <3>1 DEF StagesInv, Untouched
    <3>3. ~Busy(q)
      BY <1>1 DEF StagesInv, Inv, Carried
    <3>4. /\ \A p \in Polls : ~Answered(q, p)'
          /\ \A w \in Workers : ~Held(q, w)'
          /\ \A m \in reports' : m.request # q
      BY <3>3 DEF Busy, Answered, Held, Reported
    <3>5. tenant'[d] # "active" /\ Clean(d)'
      BY <1>0, <3>2 DEF Clean, NoDatabase
    <3>6. request'[q].db = d /\ request'[q].state = "pending"
      BY <1>1
    <3> QED BY <2>1, <3>4, <3>5, <3>6 DEF Staged, Clean
  <2>2. CASE r # q
    <3>1. request'[r] = request[r] /\ Alone(r) /\ request[r].kind = "create"
      BY <1>1, <1>2, <1>4, <2>2, AloneStays
    <3>2. Staged(r)
      BY <3>1 DEF StagesInv, Stages
    <3>3. request[r].db # d
      BY <1>1, <1>4, <2>2 DEF Alone
    <3>4. tenant'[request[r].db] = tenant[request[r].db]
      BY <1>0, <3>3
    <3> QED BY <3>1, <3>2, <3>4 DEF Staged, Clean, Made, Answered, Held, At
  <2> QED BY <2>1, <2>2
<1> QED BY <1>3, <1>4 DEF Stages

LEMMA RetryStages ==
    ASSUME StagesInv, NEW q \in Requests, Retry(q),
           \/ tenant' = tenant
           \/ tenant' = [tenant EXCEPT ![request[q].db] = "provisioning"]
    PROVE  Untouched' /\ Stages'
<1>0. /\ request \in [Requests -> Request]
      /\ tenant \in [Databases -> {"none", "provisioning", "active"}]
      /\ \A r \in Requests : request[r].db \in Databases
  BY DEF StagesInv, Inv, TypeOK, Request
<1>1. /\ request'[q].kind = request[q].kind /\ request'[q].db = request[q].db
      /\ request'[q].state = "pending" /\ request[q].state = "error"
      /\ request[q].kind # "none"
      /\ \A r \in Requests \ {q} : request'[r] = request[r]
      /\ UNCHANGED <<database, spoiled, poll, worker, reports>>
  BY <1>0 DEF Retry, Request
<1>2. RowsStay
  BY <1>1 DEF RowsStay
<1>3. Untouched'
  <2> SUFFICES ASSUME NEW e \in Databases,
                      \A r \in Requests : request'[r].kind # "none" => request'[r].db # e
               PROVE  tenant'[e] = "none" /\ database'[e] = NoDatabase
    BY DEF Untouched
  <2>1. e # request[q].db
    BY <1>1
  <2>2. \A r \in Requests : request[r].kind # "none" => request[r].db # e
    BY <1>2 DEF RowsStay
  <2> QED BY <1>0, <1>1, <2>1, <2>2 DEF StagesInv, Untouched
<1>4. ASSUME NEW r \in Requests, request'[r].kind = "create", Alone(r)'
      PROVE  Staged(r)'
  <2>1. Alone(r) /\ request[r].kind = "create" /\ Staged(r)
    BY <1>1, <1>2, <1>4, AloneStays DEF StagesInv, Stages
  <2>2. /\ request'[r].db = request[r].db
        /\ \/ request'[r].state = request[r].state
           \/ request[r].state = "error" /\ request'[r].state = "pending"
    BY <1>1
  <2>3. tenant'[request[r].db] \in {tenant[request[r].db], "provisioning"}
    BY <1>0
  <2>4. /\ Clean(request[r].db)' = Clean(request[r].db)
        /\ \A state \in {"created", "installed", "ready"} : Made(r, state)' = Made(r, state)
    BY <1>1, <2>2 DEF Clean, Made
  <2>5. tenant'[request'[r].db] = "active" => request'[r].state = "done"
    BY <2>1, <2>2, <2>3 DEF Staged
  <2>6. /\ request'[r].state \in {"pending", "error"} => Clean(request[r].db)'
        /\ request'[r].state = "done" => Made(r, "ready")'
    BY <2>1, <2>2, <2>4 DEF Staged
  <2>7. \A p \in Polls : Answered(r, p)' => Clean(request[r].db)'
    BY <1>1, <2>1, <2>4 DEF Staged, Answered
  <2>8. \A w \in Workers : Held(r, w)' =>
          /\ At(w, r, "install")' => Made(r, "created")'
          /\ At(w, r, "bootstrap")' => Made(r, "installed")'
          /\ At(w, r, "succeeded")' => Made(r, "ready")'
          /\ \/ At(w, r, "start")' \/ At(w, r, "failed")'
             \/ \E o \in worker'[w].jobs : o < r
             => Clean(request[r].db)'
    BY <1>1, <2>1, <2>4 DEF Staged, Held, At
  <2>9. \A m \in reports' : m.request = r =>
          IF m.success THEN Made(r, "ready")' ELSE Clean(request[r].db)'
    BY <1>1, <2>1, <2>4 DEF Staged
  <2> QED BY <2>2, <2>5, <2>6, <2>7, <2>8, <2>9 DEF Staged
<1> QED BY <1>3, <1>4 DEF Stages

LEMMA StaffStages ==
    ASSUME StagesInv, StaffStep
    PROVE  Untouched' /\ Stages'
<1>1. ASSUME NEW q \in Requests, NEW d \in Databases, Signup(q, d)
      PROVE  Untouched' /\ Stages'
  BY <1>1, InsertStages DEF Signup
<1>2. ASSUME NEW q \in Requests, NEW d \in Databases, NEW k \in ByHand, FileByHand(q, d, k)
      PROVE  Untouched' /\ Stages'
  BY <1>2, InsertStages, ProvisioningAssumption DEF FileByHand
<1>3. ASSUME NEW q \in Requests, RetryRequest(q) \/ RetryTenant(q)
      PROVE  Untouched' /\ Stages'
  BY <1>3, RetryStages DEF RetryRequest, RetryTenant
<1> QED BY <1>1, <1>2, <1>3 DEF StaffStep

LEMMA ServeStages ==
    ASSUME StagesInv, NEW m \in reports, ServeReport(m) \/ LoseReport(m)
    PROVE  Untouched' /\ Stages'
<1> DEFINE q == m.request
<1>0. /\ request \in [Requests -> Request] /\ m \in Report /\ q \in Requests
      /\ request[q] \in Request
      /\ tenant \in [Databases -> {"none", "provisioning", "active"}]
      /\ \A r \in Requests : request[r].db \in Databases
  BY DEF StagesInv, Inv, TypeOK, Report, Request
<1>1. UNCHANGED <<database, spoiled, poll, worker>> /\ reports' = reports \ {m}
  BY DEF ServeReport, LoseReport
<1>2. /\ \A r \in Requests \ {q} : request'[r] = request[r]
      /\ request'[q].kind = request[q].kind /\ request'[q].db = request[q].db
  BY <1>0 DEF ServeReport, LoseReport, Request
<1>3. RowsStay
  BY <1>2 DEF RowsStay
<1>4. Reported(q) /\ request[q].kind # "none" /\ request[q].state = "in_progress"
  BY <1>0 DEF StagesInv, Inv, Carried, Busy, Reported
<1>5. \/ tenant' = tenant
      \/ tenant' = [tenant EXCEPT ![request[q].db] = "active"]
  BY DEF ServeReport, LoseReport, Activate
<1>6. Untouched'
  <2> SUFFICES ASSUME NEW e \in Databases,
                      \A r \in Requests : request'[r].kind # "none" => request'[r].db # e
               PROVE  tenant'[e] = "none" /\ database'[e] = NoDatabase
    BY DEF Untouched
  <2>1. e # request[q].db
    BY <1>0, <1>2, <1>4
  <2>2. \A r \in Requests : request[r].kind # "none" => request[r].db # e
    BY <1>3 DEF RowsStay
  <2> QED BY <1>0, <1>1, <1>5, <2>1, <2>2 DEF StagesInv, Untouched
<1>7. ASSUME NEW r \in Requests, request'[r].kind = "create", Alone(r)'
      PROVE  Staged(r)'
  <2>1. Alone(r) /\ request[r].kind = "create" /\ Staged(r)
    BY <1>2, <1>3, <1>7, AloneStays DEF StagesInv, Stages
  <2>2. CASE r # q
    <3>1. request'[r] = request[r] /\ request[q].db # request[r].db
      BY <1>0, <1>2, <1>4, <2>1, <2>2 DEF Alone
    <3>2. tenant'[request[r].db] = tenant[request[r].db]
      BY <1>0, <1>5, <3>1
    <3> QED BY <1>1, <2>1, <3>1, <3>2 DEF Staged, Clean, Made, Answered, Held, At
  <2>3. CASE r = q
    <3>1. /\ IF m.success THEN Made(q, "ready") ELSE Clean(request[q].db)
          /\ tenant[request[q].db] # "active"
      BY <1>4, <2>1, <2>3 DEF Staged
    <3>2. CASE LoseReport(m)
      <4>1. request' = request /\ tenant' = tenant
        BY <3>2 DEF LoseReport
      <4> QED BY <1>1, <2>1, <2>3, <4>1 DEF Staged, Clean, Made, Answered, Held, At
    <3>3. CASE ServeReport(m)
      <4>1. request'[q].state = IF m.success THEN "done" ELSE "error"
        <5>1. request'[q] = [request[q] EXCEPT !.state = Outcome(m), !.password = FALSE]
          BY <1>0, <3>3 DEF ServeReport
        <5> QED BY <1>0, <5>1 DEF Outcome, Request
      <4>2. ~m.success => tenant' = tenant
        BY <3>3 DEF ServeReport, Activate
      <4>3. /\ \A p \in Polls : ~Answered(q, p)'
            /\ \A w \in Workers : ~Held(q, w)'
            /\ \A n \in reports' : n.request # q
        <5>1. \A n \in reports : n.request = q => n = m
          BY <1>0 DEF StagesInv, Inv, Exclusive
        <5>2. /\ \A p \in Polls : ~Answered(q, p)
              /\ \A w \in Workers : ~Held(q, w)
          BY <1>0, <1>4 DEF StagesInv, Inv, Exclusive
        <5> QED BY <1>1, <5>1, <5>2 DEF Answered, Held
      <4>4. Made(q, "ready")' = Made(q, "ready") /\ Clean(request[q].db)' = Clean(request[q].db)
        BY <1>1, <1>2 DEF Made, Clean
      <4> QED BY <1>2, <2>3, <3>1, <4>1, <4>2, <4>3, <4>4 DEF Staged
    <3> QED BY <3>2, <3>3
  <2> QED BY <2>2, <2>3
<1> QED BY <1>6, <1>7 DEF Stages

(* A step of job r touches no database but that of r, and the jobs behind r  *)
(* wait as before, or are next.                                              *)
LEMMA OneJobMoves ==
    ASSUME StagesInv, NEW w \in Workers, NEW r \in Requests, Held(r, w),
           \A q \in worker[w].jobs : r <= q,
           UNCHANGED <<request, tenant, poll>>,
           \A v \in Workers \ {w} : worker'[v] = worker[v],
           worker'[w].jobs \subseteq worker[w].jobs,
           r \in worker'[w].jobs \/ worker'[w].phase = "start" \/ worker'[w].jobs = {},
           \A m \in reports' : m \in reports \/ m.request = r,
           \A d \in Databases \ {request[r].db} :
              database'[d] = database[d] /\ (d \in spoiled' <=> d \in spoiled),
           request[r].kind = "create" /\ Alone(r) => Staged(r)'
    PROVE  Untouched' /\ Stages'
<1>1. /\ request[r].kind # "none" /\ \A q \in Requests : request[q].db \in Databases
      /\ worker[w].jobs \subseteq Requests
  BY DEF StagesInv, Inv, Carried, Busy, TypeOK, Request, Worker
<1>2. Untouched'
  BY <1>1 DEF StagesInv, Untouched
<1>3. ASSUME NEW q \in Requests, request[q].kind = "create", Alone(q), q # r
      PROVE  Staged(q)'
  <2>1. Staged(q)
    BY <1>3 DEF StagesInv, Stages
  <2>2. request[r].db # request[q].db
    BY <1>1, <1>3 DEF Alone
  <2>3. /\ Clean(request[q].db)' = Clean(request[q].db)
        /\ \A state \in {"created", "installed", "ready"} : Made(q, state)' = Made(q, state)
    BY <1>1, <2>2 DEF Clean, Made
  <2>4. /\ tenant'[request'[q].db] = "active" => request'[q].state = "done"
        /\ request'[q].state \in {"pending", "error"} => Clean(request[q].db)'
        /\ request'[q].state = "done" => Made(q, "ready")'
        /\ \A p \in Polls : Answered(q, p)' => Clean(request[q].db)'
    BY <2>1, <2>3 DEF Staged, Answered
  <2>5. ASSUME NEW v \in Workers, Held(q, v)'
        PROVE  /\ At(v, q, "install")' => Made(q, "created")'
               /\ At(v, q, "bootstrap")' => Made(q, "installed")'
               /\ At(v, q, "succeeded")' => Made(q, "ready")'
               /\ \/ At(v, q, "start")' \/ At(v, q, "failed")'
                  \/ \E e \in worker'[v].jobs : e < q
                  => Clean(request[q].db)'
    <3>1. CASE v # w
      BY <2>1, <2>3, <2>5, <3>1 DEF Staged, Held, At
    <3>2. CASE v = w
      <4>1. q \in worker[w].jobs /\ r < q
        BY <1>1, <1>3, <2>5, <3>2, ProvisioningAssumption DEF Held
      <4>2. Clean(request[q].db)'
        BY <2>1, <2>3, <4>1 DEF Staged, Held
      <4>3. r \in worker'[w].jobs \/ worker'[w].phase = "start"
        BY <2>5, <3>2 DEF Held
      <4>4. ~(q <= r)
        BY <4>1, ProvisioningAssumption
      <4> QED BY <3>2, <4>2, <4>3, <4>4 DEF At
    <3> QED BY <3>1, <3>2
  <2>6. \A m \in reports' : m.request = q =>
          IF m.success THEN Made(q, "ready")' ELSE Clean(request[q].db)'
    BY <1>3, <2>1, <2>3 DEF Staged
  <2> QED BY <2>4, <2>5, <2>6 DEF Staged
<1>4. \A q \in Requests : Alone(q)' <=> Alone(q)
  BY DEF Alone
<1> QED BY <1>2, <1>3, <1>4 DEF Stages

(* What job r has made of its database is what its stage requires. *)
LEMMA OwnStage ==
    ASSUME StagesInv, NEW w \in Workers, NEW r \in Requests, Held(r, w),
           \A q \in worker[w].jobs : r <= q,
           UNCHANGED <<request, tenant, poll, reports>>,
           \A v \in Workers \ {w} : worker'[v] = worker[v],
           worker'[w].jobs = worker[w].jobs,
           Staged(r),
           worker'[w].phase = "install" => Made(r, "created")',
           worker'[w].phase = "bootstrap" => Made(r, "installed")',
           worker'[w].phase = "succeeded" => Made(r, "ready")',
           worker'[w].phase \in {"start", "failed"} => Clean(request[r].db)'
    PROVE  Staged(r)'
<1>1. request[r].state = "in_progress"
  BY DEF StagesInv, Inv, Carried, Busy
<1>2. /\ \A v \in Workers : Held(r, v) => v = w
      /\ \A p \in Polls : ~Answered(r, p)
      /\ \A m \in reports : m.request # r
  BY DEF StagesInv, Inv, Exclusive, Reported
<1>3. /\ \A v \in Workers : Held(r, v)' => v = w
      /\ \A p \in Polls : ~Answered(r, p)'
  BY <1>2 DEF Held, Answered
<1>4. tenant'[request'[r].db] # "active"
  BY <1>1 DEF Staged
<1>5. ~ \E e \in worker'[w].jobs : e < r
  <2>1. worker[w].jobs \subseteq Nat /\ r \in Nat
    BY ProvisioningAssumption DEF StagesInv, Inv, TypeOK, Worker
  <2> QED BY <2>1
<1> QED BY <1>1, <1>2, <1>3, <1>4, <1>5 DEF Staged, At

LEMMA JobStages ==
    ASSUME StagesInv, NEW w \in Workers, NEW r \in Requests,
           \/ CreateDatabase(w, r) \/ InstallModules(w, r) \/ BootstrapAdmin(w, r)
           \/ CleanUp(w, r) \/ DropDatabase(w, r)
           \/ FailCreate(w, r) \/ FailCleanUp(w, r) \/ FailDrop(w, r)
    PROVE  Untouched' /\ Stages'
<1>0. /\ worker \in [Workers -> Worker] /\ worker[w] \in Worker
      /\ database \in [Databases -> Database] /\ request[r].db \in Databases
  BY DEF StagesInv, Inv, TypeOK, Request
<1>1. UNCHANGED <<request, tenant, poll, reports>>
  BY DEF CreateDatabase, InstallModules, BootstrapAdmin, CleanUp, DropDatabase,
         FailCreate, FailCleanUp, FailDrop
<1>2. /\ \E ph \in {"start", "install", "bootstrap", "cleanup"} : At(w, r, ph)
      /\ Held(r, w) /\ \A q \in worker[w].jobs : r <= q
  BY DEF CreateDatabase, InstallModules, BootstrapAdmin, CleanUp, DropDatabase,
         FailCreate, FailCleanUp, FailDrop, At, Held
<1>3. \A ph \in {"install", "bootstrap", "cleanup", "succeeded", "failed"} : GoTo(w, ph) =>
         /\ worker'[w].phase = ph /\ worker'[w].jobs = worker[w].jobs
         /\ \A v \in Workers \ {w} : worker'[v] = worker[v]
  BY <1>0 DEF GoTo, Worker
<1>4. \E ph \in {"install", "bootstrap", "cleanup", "succeeded", "failed"} : GoTo(w, ph)
  BY DEF CreateDatabase, InstallModules, BootstrapAdmin, CleanUp, DropDatabase,
         FailCreate, FailCleanUp, FailDrop
<1>5. /\ worker'[w].jobs = worker[w].jobs
      /\ \A v \in Workers \ {w} : worker'[v] = worker[v]
  BY <1>3, <1>4
<1>6. \A d \in Databases \ {request[r].db} :
         database'[d] = database[d] /\ (d \in spoiled' <=> d \in spoiled)
  BY <1>0 DEF CreateDatabase, InstallModules, BootstrapAdmin, CleanUp, DropDatabase,
              FailCreate, FailCleanUp, FailDrop
<1>7. ASSUME request[r].kind = "create", Alone(r)
      PROVE  Staged(r)'
  <2>1. Staged(r)
    BY <1>7 DEF StagesInv, Stages
  <2>2. CASE CreateDatabase(w, r)
    <3>1. worker'[w].phase = "install"
      BY <1>3, <2>2 DEF CreateDatabase
    <3>2. Made(r, "created")'
      BY <1>0, <1>1, <2>2 DEF CreateDatabase, Made
    <3> QED BY <1>1, <1>2, <1>5, <2>1, <3>1, <3>2, OwnStage
  <2>3. CASE InstallModules(w, r)
    <3>1. worker'[w].phase = "bootstrap" /\ Made(r, "created")
      BY <1>2, <1>3, <2>1, <2>3 DEF InstallModules, Staged
    <3>2. Made(r, "installed")'
      BY <1>0, <1>1, <2>3, <3>1 DEF InstallModules, Made
    <3> QED BY <1>1, <1>2, <1>5, <2>1, <3>1, <3>2, OwnStage
  <2>4. CASE BootstrapAdmin(w, r)
    <3>1. worker'[w].phase = "succeeded" /\ Made(r, "installed")
      BY <1>2, <1>3, <2>1, <2>4 DEF BootstrapAdmin, Staged
    <3>2. Made(r, "ready")'
      BY <1>0, <1>1, <2>4, <3>1 DEF BootstrapAdmin, Made
    <3> QED BY <1>1, <1>2, <1>5, <2>1, <3>1, <3>2, OwnStage
  <2>5. CASE CleanUp(w, r)
    <3>1. worker'[w].phase = "failed"
      BY <1>3, <2>5 DEF CleanUp
    <3>2. Clean(request[r].db)'
      BY <1>0, <1>1, <2>5 DEF CleanUp, Clean, NoDatabase
    <3> QED BY <1>1, <1>2, <1>5, <2>1, <3>1, <3>2, OwnStage
  <2>6. CASE FailCleanUp(w, r)
    <3>1. worker'[w].phase = "failed"
      BY <1>3, <2>6 DEF FailCleanUp
    <3>2. Clean(request[r].db)'
      BY <1>1, <2>6 DEF FailCleanUp, Clean
    <3> QED BY <1>1, <1>2, <1>5, <2>1, <3>1, <3>2, OwnStage
  <2>7. CASE FailCreate(w, r)
    <3>1. worker'[w].phase = "cleanup"
      BY <1>3, <2>7 DEF FailCreate
    <3> QED BY <1>1, <1>2, <1>5, <2>1, <3>1, OwnStage
  <2> QED
    BY <1>7, <2>2, <2>3, <2>4, <2>5, <2>6, <2>7 DEF DropDatabase, FailDrop
<1> QED BY <1>1, <1>2, <1>5, <1>6, <1>7, OneJobMoves DEF Held

LEMMA ReportStages ==
    ASSUME StagesInv, NEW w \in Workers, NEW r \in Requests, ReportResult(w, r)
    PROVE  Untouched' /\ Stages'
<1> DEFINE m == [request |-> r, success |-> worker[w].phase = "succeeded"]
<1>0. worker \in [Workers -> Worker] /\ worker[w] \in Worker
  BY DEF StagesInv, Inv, TypeOK
<1>1. UNCHANGED <<request, tenant, database, spoiled, poll>> /\ reports' = reports \union {m}
  BY DEF ReportResult
<1>2. /\ Held(r, w) /\ \A q \in worker[w].jobs : r <= q
      /\ At(w, r, "succeeded") \/ At(w, r, "failed")
  BY DEF ReportResult, At, Held
<1>3. /\ \A v \in Workers \ {w} : worker'[v] = worker[v]
      /\ worker'[w].jobs = worker[w].jobs \ {r}
      /\ worker'[w].phase = "start" \/ worker'[w].jobs = {}
  BY <1>0 DEF ReportResult, NextJob, Resting
<1>4. ASSUME request[r].kind = "create", Alone(r)
      PROVE  Staged(r)'
  <2>1. Staged(r) /\ request[r].state = "in_progress"
    BY <1>2, <1>4 DEF StagesInv, Stages, Inv, Carried, Busy
  <2>2. /\ \A v \in Workers : Held(r, v) => v = w
        /\ \A p \in Polls : ~Answered(r, p)
        /\ \A n \in reports : n.request # r
    BY <1>2 DEF StagesInv, Inv, Exclusive, Reported
  <2>3. /\ \A v \in Workers : ~Held(r, v)'
        /\ \A p \in Polls : ~Answered(r, p)'
    BY <1>1, <1>3, <2>2 DEF Held, Answered
  <2>4. tenant'[request'[r].db] # "active"
    BY <1>1, <2>1 DEF Staged
  <2>5. /\ m.request = r
        /\ m.success = (worker[w].phase = "succeeded")
    OBVIOUS
  <2>6. /\ worker[w].phase = "succeeded" => Made(r, "ready")
        /\ worker[w].phase # "succeeded" => Clean(request[r].db)
    BY <1>2, <2>1 DEF Staged, At
  <2>7. Made(r, "ready")' = Made(r, "ready") /\ Clean(request[r].db)' = Clean(request[r].db)
    BY <1>1 DEF Made, Clean
  <2> HIDE DEF m
  <2>8. ASSUME NEW n \in reports', n.request = r
        PROVE  IF n.success THEN Made(r, "ready")' ELSE Clean(request[r].db)'
    <3>1. n = m
      BY <1>1, <2>2, <2>8
    <3> QED BY <2>5, <2>6, <2>7, <3>1
  <2> QED BY <1>1, <2>1, <2>3, <2>4, <2>8 DEF Staged
<1>5. \A n \in reports' : n \in reports \/ n.request = r
  BY <1>1
<1> QED BY <1>1, <1>2, <1>3, <1>4, <1>5, OneJobMoves DEF Held

LEMMA NextStages == StagesInv /\ [Next]_vars => StagesInv'
<1> SUFFICES ASSUME StagesInv, [Next]_vars PROVE StagesInv'
  OBVIOUS
<1>1. Inv'
  BY NextInv DEF StagesInv
<1>2. CASE UNCHANGED vars
  BY <1>1, <1>2
  DEF vars, StagesInv, Untouched, Stages, Alone, Staged, Clean, Made, Answered, Held, At
<1>3. CASE StaffStep
  BY <1>1, <1>3, StaffStages DEF StagesInv
<1>4. ASSUME NEW p \in Polls, PollStep(p) \/ LosePoll(p) \/ \E w \in Workers : AskJobs(w, p)
      PROVE  StagesInv'
  BY <1>1, <1>4, PollStages DEF StagesInv
<1>5. ASSUME NEW w \in Workers, JobStep(w) \/ JobFailure(w) \/ Crash(w)
      PROVE  StagesInv'
  BY <1>1, <1>5, JobStages, ReportStages, CrashStages DEF JobStep, JobFailure, StagesInv
<1>6. ASSUME NEW m \in reports, ServeReport(m) \/ LoseReport(m)
      PROVE  StagesInv'
  BY <1>1, <1>6, ServeStages DEF StagesInv
<1> QED BY <1>2, <1>3, <1>4, <1>5, <1>6 DEF Next

(* A tenant whose only request is its sign-up is active only with a database *)
(* that this request has created, installed and given its administrator,     *)
(* whatever crashed, failed or was retried before.                           *)
THEOREM ActiveTenantsAreReady == Spec => []ActiveIsReady
<1>1. StagesInv => ActiveIsReady
  BY DEF StagesInv, Stages, Staged, Made, ActiveIsReady
<1> QED BY <1>1, InitStages, NextStages, PTL DEF Spec

(* Where clean-up has not failed, a create request that waits to be tried    *)
(* finds nothing of an earlier try.                                          *)
THEOREM RetriesStartClean == Spec => []RetryStartsClean
<1>1. StagesInv => RetryStartsClean
  BY DEF StagesInv, Stages, Staged, Clean, RetryStartsClean
<1> QED BY <1>1, InitStages, NextStages, PTL DEF Spec


=============================================================================
