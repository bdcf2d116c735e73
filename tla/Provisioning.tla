---------------------------- MODULE Provisioning ----------------------------
(***************************************************************************)
(* Dedicated databases for tenants: the queue of provisioning requests in  *)
(* the control plane (addon nexus_saas_tenant) and the workers that create *)
(* and drop databases and report back (saas-db-provisioner).               *)
(*                                                                         *)
(* A worker polls GET /pending over HTTP; the handler reads the pending    *)
(* rows and marks them in progress, in one transaction at REPEATABLE READ: *)
(* a row another transaction has changed since the read makes the write    *)
(* fail, and Odoo runs the request again.  The worker keeps the jobs it is *)
(* answered in memory only, and reports each one with one POST /callback   *)
(* that it does not repeat.                                                *)
(***************************************************************************)
EXTENDS Naturals, FiniteSets

CONSTANTS
    Requests,    \* ids of nexus.saas.db.provision.request, in creation order
    Databases,   \* database names; a tenant's code is its database's name
    Workers,     \* provisioner processes
    Nobody,      \* no worker
    Polls,       \* HTTP requests that may be open at a time
    PageSize,    \* limit of the search in pending()
    ByHand       \* the types of request an administrator files in the form

ASSUME ProvisioningAssumption ==
    /\ Requests \subseteq Nat
    /\ PageSize \in Nat \ {0}
    /\ Nobody \notin Workers
    /\ Databases # {}
    /\ ByHand \subseteq {"create", "drop"}

VARIABLES
    request,   \* the rows of the queue
    tenant,    \* state of the tenant of each database
    database,  \* the databases of the PostgreSQL cluster
    spoiled,   \* databases whose clean-up has failed at least once
    poll,      \* the open GET /pending requests
    worker,    \* what each worker is doing, and its remaining jobs
    reports    \* POST /callback requests sent and not yet served

vars == <<request, tenant, database, spoiled, poll, worker, reports>>

(* kind "none": the row does not exist yet.  password: the one-time admin *)
(* password is still in the row.                                          *)
Request == [kind : {"none", "create", "drop"}, db : Databases,
            state : {"pending", "in_progress", "done", "error"},
            password : BOOLEAN]

(* by: the request, if any, whose job created the database. *)
Database == [state : {"absent", "created", "installed", "ready"},
             by : SUBSET Requests]

Poll == [phase : {"free", "asked", "read", "answered"},
         worker : Workers \union {Nobody}, rows : SUBSET Requests]

(* A worker runs its jobs in the order of their ids. *)
Worker == [phase : {"idle", "waiting", "start", "install", "bootstrap",
                    "cleanup", "succeeded", "failed"},
           jobs : SUBSET Requests]

Report == [request : Requests, success : BOOLEAN]

Closed == [phase |-> "free", worker |-> Nobody, rows |-> {}]
Resting == [phase |-> "idle", jobs |-> {}]
NoDatabase == [state |-> "absent", by |-> {}]

Pending == {q \in Requests :
               request[q].kind # "none" /\ request[q].state = "pending"}

-----------------------------------------------------------------------------
Init ==
    /\ request = [q \in Requests |->
                     [kind |-> "none", db |-> CHOOSE d \in Databases : TRUE,
                      state |-> "pending", password |-> FALSE]]
    /\ tenant = [d \in Databases |-> "none"]
    /\ database = [d \in Databases |-> NoDatabase]
    /\ spoiled = {}
    /\ poll = [p \in Polls |-> Closed]
    /\ worker = [w \in Workers |-> Resting]
    /\ reports = {}

(* unique(target_db_name, request_type, state): no row but those of S has *)
(* database d, type k and state s.                                        *)
Unique(d, k, s, S) ==
    \A q \in Requests \ S :
        ~(request[q].db = d /\ request[q].kind = k /\ request[q].state = s)

(* A new row gets the next id. *)
Insert(q, d, k, pw) ==
    /\ request[q].kind = "none"
    /\ \A r \in Requests : r < q => request[r].kind # "none"
    /\ Unique(d, k, "pending", {})
    /\ request' = [request EXCEPT ![q] = [kind |-> k, db |-> d,
                        state |-> "pending", password |-> pw]]

(* A tenant with a database of its own signs up. *)
Signup(q, d) ==
    /\ tenant[d] = "none"
    /\ tenant' = [tenant EXCEPT ![d] = "provisioning"]
    /\ Insert(q, d, "create", TRUE)
    /\ UNCHANGED <<database, spoiled, poll, worker, reports>>

(* An administrator files a request in the form, which shows no password. *)
FileByHand(q, d, k) ==
    /\ tenant[d] # "none"
    /\ Insert(q, d, k, FALSE)
    /\ UNCHANGED <<tenant, database, spoiled, poll, worker, reports>>

(* The Retry button of a failed request. *)
Retry(q) ==
    /\ request[q].kind # "none"
    /\ request[q].state = "error"
    /\ Unique(request[q].db, request[q].kind, "pending", {})
    /\ request' = [request EXCEPT ![q].state = "pending"]
    /\ UNCHANGED <<database, spoiled, poll, worker, reports>>

RetryRequest(q) == Retry(q) /\ UNCHANGED tenant

(* The tenant's button retries its failed create request (the rows of a     *)
(* tenant in error are unique) and puts the tenant back to provisioning.    *)
RetryTenant(q) ==
    /\ request[q].kind = "create"
    /\ Retry(q)
    /\ tenant' = [tenant EXCEPT ![request[q].db] = "provisioning"]

-----------------------------------------------------------------------------
(* GET /saas/db-provisioner/pending *)

AskJobs(w, p) ==
    /\ worker[w].phase = "idle"
    /\ poll[p].phase = "free"
    /\ worker' = [worker EXCEPT ![w].phase = "waiting"]
    /\ poll' = [poll EXCEPT ![p] = [phase |-> "asked", worker |-> w, rows |-> {}]]
    /\ UNCHANGED <<request, tenant, database, spoiled, reports>>

(* Mutant: rows whose password has been cleared are left out. *)
ReadUntried(p) ==
    /\ poll[p].phase = "asked"
    /\ LET untried == {q \in Pending : request[q].password} IN
       \E rows \in SUBSET untried :
         /\ Cardinality(rows) <= PageSize
         /\ rows # untried => Cardinality(rows) = PageSize
         /\ \A q \in rows, r \in untried \ rows : q < r
         /\ poll' = [poll EXCEPT ![p].phase = "read", ![p].rows = rows]
    /\ UNCHANGED <<request, tenant, database, spoiled, worker, reports>>

(* The search: the PageSize oldest pending rows. *)
ReadPending(p) ==
    /\ poll[p].phase = "asked"
    /\ \E rows \in SUBSET Pending :
         /\ Cardinality(rows) <= PageSize
         /\ rows # Pending => Cardinality(rows) = PageSize
         /\ \A q \in rows, r \in Pending \ rows : q < r
         /\ poll' = [poll EXCEPT ![p].phase = "read", ![p].rows = rows]
    /\ UNCHANGED <<request, tenant, database, spoiled, worker, reports>>

(* What marking the rows in progress needs of the unique constraint. *)
Claimable(rows) ==
    \A q \in rows : Unique(request[q].db, request[q].kind, "in_progress", {q})

(* Mutant: the rows are written whatever happened to them since the read. *)
ClaimBlindly(p) ==
    /\ poll[p].phase = "read"
    /\ Claimable(poll[p].rows)
    /\ request' = [q \in Requests |->
                      IF q \in poll[p].rows
                      THEN [request[q] EXCEPT !.state = "in_progress"]
                      ELSE request[q]]
    /\ poll' = [poll EXCEPT ![p] = IF @.worker = Nobody THEN Closed
                                   ELSE [@ EXCEPT !.phase = "answered"]]
    /\ UNCHANGED <<tenant, database, spoiled, worker, reports>>

(* The rows are marked in progress and the transaction commits.  If the *)
(* worker has gone, nobody ever reads the answer.                       *)
Claim(p) ==
    /\ poll[p].phase = "read"
    /\ poll[p].rows \subseteq Pending
    /\ Claimable(poll[p].rows)
    /\ request' = [q \in Requests |->
                      IF q \in poll[p].rows
                      THEN [request[q] EXCEPT !.state = "in_progress"]
                      ELSE request[q]]
    /\ poll' = [poll EXCEPT ![p] = IF @.worker = Nobody THEN Closed
                                   ELSE [@ EXCEPT !.phase = "answered"]]
    /\ UNCHANGED <<tenant, database, spoiled, worker, reports>>

(* A row was changed since the read: the request runs again from its start. *)
ClaimAgain(p) ==
    /\ poll[p].phase = "read"
    /\ ~(poll[p].rows \subseteq Pending)
    /\ poll' = [poll EXCEPT ![p].phase = "asked", ![p].rows = {}]
    /\ UNCHANGED <<request, tenant, database, spoiled, worker, reports>>

(* The worker waiting for poll p, if any, has no job to do. *)
Unanswered(p) ==
    worker' = IF poll[p].worker = Nobody THEN worker
              ELSE [worker EXCEPT ![poll[p].worker] = Resting]

(* The unique constraint refuses the whole page: an error 500. *)
RefuseClaim(p) ==
    /\ poll[p].phase = "read"
    /\ poll[p].rows \subseteq Pending
    /\ ~Claimable(poll[p].rows)
    /\ poll' = [poll EXCEPT ![p] = Closed]
    /\ Unanswered(p)
    /\ UNCHANGED <<request, tenant, database, spoiled, reports>>

(* The worker receives its jobs. *)
ReceiveJobs(p) ==
    /\ poll[p].phase = "answered"
    /\ worker' = [worker EXCEPT ![poll[p].worker] =
                     IF poll[p].rows = {} THEN Resting
                     ELSE [phase |-> "start", jobs |-> poll[p].rows]]
    /\ poll' = [poll EXCEPT ![p] = Closed]
    /\ UNCHANGED <<request, tenant, database, spoiled, reports>>

(* The connection breaks or times out.  The request may be lost, or run on *)
(* in the server for nobody; an answer on its way is lost.                 *)
LosePoll(p) ==
    /\ poll[p].worker # Nobody
    /\ worker' = [worker EXCEPT ![poll[p].worker] = Resting]
    /\ poll' \in {[poll EXCEPT ![p] = Closed]} \union
                 (IF poll[p].phase = "answered" THEN {}
                  ELSE {[poll EXCEPT ![p].worker = Nobody]})
    /\ UNCHANGED <<request, tenant, database, spoiled, reports>>

-----------------------------------------------------------------------------
(* process_job, a step at a time *)

(* Worker w is at phase ph of job q, the oldest of its jobs. *)
At(w, q, ph) ==
    /\ worker[w].phase = ph
    /\ q \in worker[w].jobs
    /\ \A r \in worker[w].jobs : q <= r

GoTo(w, ph) == worker' = [worker EXCEPT ![w].phase = ph]

CreateDatabase(w, q) ==
    /\ At(w, q, "start")
    /\ request[q].kind = "create"
    /\ database[request[q].db].state = "absent"
    /\ database' = [database EXCEPT ![request[q].db] = [state |-> "created", by |-> {q}]]
    /\ GoTo(w, "install")
    /\ UNCHANGED <<request, tenant, spoiled, poll, reports>>

(* Mutant: the exit status of odoo-bin is not looked at. *)
InstallUnchecked(w, q) ==
    /\ At(w, q, "install")
    /\ UNCHANGED database
    /\ GoTo(w, "succeeded")
    /\ UNCHANGED <<request, tenant, spoiled, poll, reports>>

(* odoo-bin installs the modules. *)
InstallModules(w, q) ==
    /\ At(w, q, "install")
    /\ database[request[q].db].state = "created"
    /\ database' = [database EXCEPT ![request[q].db].state = "installed"]
    /\ GoTo(w, "bootstrap")
    /\ UNCHANGED <<request, tenant, spoiled, poll, reports>>

BootstrapAdmin(w, q) ==
    /\ At(w, q, "bootstrap")
    /\ database[request[q].db].state = "installed"
    /\ database' = [database EXCEPT ![request[q].db].state = "ready"]
    /\ GoTo(w, "succeeded")
    /\ UNCHANGED <<request, tenant, spoiled, poll, reports>>

(* A step of _process_create raises: the database exists already, a command *)
(* fails or times out, the database has been dropped meanwhile.             *)
FailCreate(w, q) ==
    /\ \E ph \in {"start", "install", "bootstrap"} : At(w, q, ph)
    /\ request[q].kind = "create"
    /\ GoTo(w, "cleanup")
    /\ UNCHANGED <<request, tenant, database, spoiled, poll, reports>>

(* Mutant: nothing is rolled back. *)
SkipCleanUp(w, q) ==
    /\ At(w, q, "cleanup")
    /\ GoTo(w, "failed")
    /\ UNCHANGED <<request, tenant, database, spoiled, poll, reports>>

(* The database, if there is one, is dropped. *)
CleanUp(w, q) ==
    /\ At(w, q, "cleanup")
    /\ database' = [database EXCEPT ![request[q].db] = NoDatabase]
    /\ GoTo(w, "failed")
    /\ UNCHANGED <<request, tenant, spoiled, poll, reports>>

(* Cleaning up raises as well, and the database stays. *)
FailCleanUp(w, q) ==
    /\ At(w, q, "cleanup")
    /\ spoiled' = spoiled \union {request[q].db}
    /\ GoTo(w, "failed")
    /\ UNCHANGED <<request, tenant, database, poll, reports>>

DropDatabase(w, q) ==
    /\ At(w, q, "start")
    /\ request[q].kind = "drop"
    /\ database' = [database EXCEPT ![request[q].db] = NoDatabase]
    /\ GoTo(w, "succeeded")
    /\ UNCHANGED <<request, tenant, spoiled, poll, reports>>

FailDrop(w, q) ==
    /\ At(w, q, "start")
    /\ request[q].kind = "drop"
    /\ GoTo(w, "failed")
    /\ UNCHANGED <<request, tenant, database, spoiled, poll, reports>>

(* The jobs that are left after q. *)
NextJob(w, q) ==
    worker' = [worker EXCEPT ![w] =
                  IF @.jobs = {q} THEN Resting
                  ELSE [phase |-> "start", jobs |-> @.jobs \ {q}]]

(* Mutant: the result of a job is sent again with the next job's. *)
ReportAndKeep(w, q) ==
    /\ \E ph \in {"succeeded", "failed"} : At(w, q, ph)
    /\ reports' = reports \union
                  {[request |-> q, success |-> worker[w].phase = "succeeded"]}
    /\ worker' = [worker EXCEPT ![w].phase = "start"]
    /\ UNCHANGED <<request, tenant, database, spoiled, poll>>

(* report_result: one POST.  The worker goes on with its next job after the *)
(* answer or after the timeout, whatever became of the request.             *)
ReportResult(w, q) ==
    /\ \E ph \in {"succeeded", "failed"} : At(w, q, ph)
    /\ reports' = reports \union
                  {[request |-> q, success |-> worker[w].phase = "succeeded"]}
    /\ NextJob(w, q)
    /\ UNCHANGED <<request, tenant, database, spoiled, poll>>

(* The worker dies, or is told to stop: its jobs are forgotten. *)
Crash(w) ==
    /\ worker[w].phase # "idle"
    /\ worker' = [worker EXCEPT ![w] = Resting]
    /\ poll' = [p \in Polls |->
                   IF poll[p].worker # w THEN poll[p]
                   ELSE IF poll[p].phase = "answered" THEN Closed
                   ELSE [poll[p] EXCEPT !.worker = Nobody]]
    /\ UNCHANGED <<request, tenant, database, spoiled, reports>>

-----------------------------------------------------------------------------
(* POST /saas/db-provisioner/callback *)

(* Mutant: a state the field does not have. *)
OutcomeFailed(m) == IF m.success THEN "done" ELSE "failed"

Outcome(m) == IF m.success THEN "done" ELSE "error"

(* _on_dedicated_db_provisioned *)
Activate(m) ==
    LET q == m.request IN
    tenant' = IF request[q].kind = "create" /\ m.success
              THEN [tenant EXCEPT ![request[q].db] = "active"] ELSE tenant

(* The outcome is written whatever the row's state is; the password goes. *)
ServeReport(m) ==
    LET q == m.request IN
      /\ m \in reports
      /\ Unique(request[q].db, request[q].kind, Outcome(m), {q})
      /\ request' = [request EXCEPT ![q].state = Outcome(m), ![q].password = FALSE]
      /\ Activate(m)
      /\ reports' = reports \ {m}
      /\ UNCHANGED <<database, spoiled, poll, worker>>

(* The request is lost, refused, or fails in the unique constraint. *)
LoseReport(m) ==
    /\ m \in reports
    /\ reports' = reports \ {m}
    /\ UNCHANGED <<request, tenant, database, spoiled, poll, worker>>

-----------------------------------------------------------------------------
StaffStep ==
    \E q \in Requests :
        \/ \E d \in Databases :
              Signup(q, d) \/ \E k \in ByHand : FileByHand(q, d, k)
        \/ RetryRequest(q) \/ RetryTenant(q)

PollStep(p) ==
    \/ ReadPending(p) \/ Claim(p) \/ ClaimAgain(p) \/ RefuseClaim(p)
    \/ ReceiveJobs(p)

JobStep(w) ==
    \E q \in Requests :
        \/ CreateDatabase(w, q) \/ InstallModules(w, q) \/ BootstrapAdmin(w, q)
        \/ CleanUp(w, q) \/ DropDatabase(w, q) \/ ReportResult(w, q)

JobFailure(w) ==
    \E q \in Requests : FailCreate(w, q) \/ FailCleanUp(w, q) \/ FailDrop(w, q)

Next ==
    \/ StaffStep
    \/ \E w \in Workers, p \in Polls : AskJobs(w, p)
    \/ \E p \in Polls : PollStep(p) \/ LosePoll(p)
    \/ \E w \in Workers : JobStep(w) \/ JobFailure(w) \/ Crash(w)
    \/ \E m \in reports : ServeReport(m) \/ LoseReport(m)

Spec == Init /\ [][Next]_vars

(* Something goes wrong on the way of a job.  Losing an answer without jobs *)
(* looks like receiving it, which is no trouble.                            *)
Trouble ==
    \/ \E p \in Polls : LosePoll(p) /\ ~ReceiveJobs(p)
    \/ \E p \in Polls : RefuseClaim(p)
    \/ \E w \in Workers : Crash(w) /\ ~\E p \in Polls : ReceiveJobs(p)
    \/ \E w \in Workers : JobFailure(w)
    \/ \E m \in reports : LoseReport(m)

TroubleEnds == <>[][~Trouble]_vars

(* The loop of run() polls for ever, a job succeeds or fails at last, Odoo   *)
(* answers the requests it gets.  An HTTP slot is free again and again, so    *)
(* that a worker's poll needs strong fairness to get one.                     *)
Fairness ==
    /\ \A w \in Workers : SF_vars(\E p \in Polls : AskJobs(w, p))
    /\ \A p \in Polls : WF_vars(PollStep(p))
    /\ \A w \in Workers : WF_vars(JobStep(w) \/ JobFailure(w))
    /\ WF_vars(\E m \in reports : ServeReport(m))

FairSpec == Spec /\ Fairness

-----------------------------------------------------------------------------
(* Properties *)

TypeOK ==
    /\ request \in [Requests -> Request]
    /\ tenant \in [Databases -> {"none", "provisioning", "active"}]
    /\ database \in [Databases -> Database]
    /\ spoiled \subseteq Databases
    /\ poll \in [Polls -> Poll]
    /\ worker \in [Workers -> Worker]
    /\ reports \subseteq Report

(* Where the job of request q is: in an answer to a poll, with a worker, or *)
(* in a report.                                                             *)
Carriers(q) ==
    {<<"poll", p>> : p \in {o \in Polls : poll[o].phase = "answered" /\ q \in poll[o].rows}}
    \union {<<"worker", w>> : w \in {v \in Workers : q \in worker[v].jobs}}
    \union {<<"report", m>> : m \in {n \in reports : n.request = q}}

(* A job is never in two places, and only the job of a row in progress is    *)
(* anywhere: whatever polls overlap, are slow or are repeated by whichever   *)
(* worker, no two of them get the same row (the comment in pending()), and   *)
(* callback(), which writes the outcome without looking at the row's state,  *)
(* is never late.                                                            *)
OneCarrier ==
    \A q \in Requests :
        /\ \A a, b \in Carriers(q) : a = b
        /\ Carriers(q) # {} => request[q].kind # "none" /\ request[q].state = "in_progress"

(* q is the only request there ever was for its database. *)
Alone(q) ==
    \A r \in Requests \ {q} : request[r].kind # "none" => request[r].db # request[q].db

(* A tenant that is active has a database with its modules and its           *)
(* administrator ("the tenant becomes 'active' only once that service calls  *)
(* back"), unless other requests for that database were filed by hand.       *)
ActiveIsReady ==
    \A q \in Requests :
        /\ request[q].kind = "create"
        /\ Alone(q)
        /\ tenant[request[q].db] = "active"
        => database[request[q].db] = [state |-> "ready", by |-> {q}]

(* A request that waits for its first or for another try finds no remains of *)
(* an earlier one ("so a retry starts clean"), unless cleaning up failed or   *)
(* other requests for the database were filed by hand.                        *)
RetryStartsClean ==
    \A q \in Requests :
        /\ request[q].kind = "create"
        /\ Alone(q)
        /\ request[q].state \in {"pending", "error"}
        /\ request[q].db \notin spoiled
        => database[request[q].db].state = "absent"

(* An outcome stands: a request that is done stays done, and one in error *)
(* leaves that state only to be tried again.                              *)
OutcomeStands ==
    [][\A q \in Requests : request[q].kind # "none" =>
          /\ request[q].state = "done" => request'[q].state = "done"
          /\ request[q].state = "error" => request'[q].state \in {"error", "pending"}]_vars

(* Once the trouble ends, every pending request is handed to a worker, the *)
(* oldest first.                                                           *)
PendingIsClaimed ==
    TroubleEnds => \A q \in Requests : q \in Pending ~> q \notin Pending

(* Once the trouble ends, no request stays in progress: a result that could   *)
(* not be reported is reported again ("will retry next cycle", odoo_client).  *)
ReportsAreRetried ==
    TroubleEnds =>
        \A q \in Requests :
            request[q].state = "in_progress" ~> request[q].state # "in_progress"

(* Rolling back a failed creation drops the database that this job had half *)
(* created, and no other ("drop the half-created database", README of       *)
(* saas-db-provisioner).                                                    *)
RollbackDropsItsOwn ==
    [][\A w \in Workers, q \in Requests :
          CleanUp(w, q) => database[request[q].db].by \subseteq {q}]_vars

=============================================================================
