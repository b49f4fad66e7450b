------------------------------ MODULE JobQueue ------------------------------
(***************************************************************************)
(* The backend's job queue: the jobs table, the executors that poll it     *)
(* (one per process), the cancellation flags they keep in memory, and the  *)
(* operators' requests, which read a row and write it in a later step.     *)
(* Times are kept as what the queries ask of them: whether scheduled_at    *)
(* has come, which of two rows was scheduled earlier, and whether           *)
(* visibility_timeout is null, ahead or past.                              *)
(***************************************************************************)
EXTENDS Integers, FiniteSets

CONSTANTS
    Jobs,         \* ids of the rows that may be inserted
    NoJob,        \* no job
    Instances,    \* backend processes
    Clients,      \* operators with one request each in flight
    MaxAttempts,  \* the policy of each job's type, 0 for unlimited
    PollLimit,    \* rows a poll selects at most, 100 in the executor
    MaxCrashes,   \* bound on process crashes
    MaxRequests   \* bound on operators' requests

ASSUME JobPolicies ==
    /\ NoJob \notin Jobs
    /\ MaxAttempts \in [Jobs -> Nat] /\ PollLimit \in Nat
    /\ MaxCrashes \in Nat /\ MaxRequests \in Nat

VARIABLES
    row,       \* the jobs table
    older,     \* the pairs <<k, j>> of rows that are due where k has the earlier scheduled_at
    pc,        \* where the executor of each process is
    batch,     \* the rows it selected and has not dealt with, as they were then
    current,   \* the job whose handler it runs
    tokens,    \* CancellationStore of each process
    request,   \* the request each operator has in flight
    finished,  \* jobs whose row was written "completed" at some time
    crashes, requests  \* how often each happened

jobVars == <<row, older, pc, batch, current, tokens, request, finished, crashes, requests>>

Statuses == {"pending", "running", "completed", "failed", "cancelled"}
Row == [status : Statuses \cup {"absent"}, attempts : Nat,
        vis : {"null", "ahead", "past"}, due : BOOLEAN]
Snapshot == [attempts : Nat, vis : {"null", "past"}]
NoRequest == [kind |-> "none"]
Request == {NoRequest}
    \cup [kind : {"cancel", "retry"}, job : Jobs, saw : Statuses, at : Instances]
    \cup [kind : {"bulk"}, jobs : SUBSET Jobs, at : Instances]
EmptyBatch == [j \in {} |-> {}]

JobTypeOK ==
    /\ row \in [Jobs -> Row] /\ older \subseteq Jobs \X Jobs
    /\ pc \in [Instances -> {"down", "idle", "batch", "running", "handled"}]
    /\ DOMAIN batch = Instances
    /\ \A i \in Instances :
         DOMAIN batch[i] \subseteq Jobs /\ batch[i] \in [DOMAIN batch[i] -> Snapshot]
    /\ current \in [Instances -> Jobs \cup {NoJob}]
    /\ \A i \in Instances :
         IF pc[i] \in {"running", "handled"} THEN current[i] \in DOMAIN batch[i] ELSE current[i] = NoJob
    /\ tokens \in [Instances -> SUBSET Jobs]
    /\ request \in [Clients -> Request]
    /\ finished \subseteq Jobs
    /\ crashes \in 0..MaxCrashes /\ requests \in 0..MaxRequests

JobInit ==
    /\ row = [j \in Jobs |-> [status |-> "absent", attempts |-> 0, vis |-> "null", due |-> FALSE]]
    /\ older = {}
    /\ pc = [i \in Instances |-> "down"]
    /\ batch = [i \in Instances |-> EmptyBatch]
    /\ current = [i \in Instances |-> NoJob]
    /\ tokens = [i \in Instances |-> {}]
    /\ request = [c \in Clients |-> NoRequest]
    /\ finished = {} /\ crashes = 0 /\ requests = 0

-----------------------------------------------------------------------------
(* What the poll selects, and what a row looks like after each write.      *)

timedOutRows ==
    {j \in Jobs : row[j].status = "pending" /\ row[j].due /\ row[j].vis = "past"}

dueRows ==
    {j \in Jobs : row[j].status = "pending" /\ row[j].due /\ row[j].vis # "ahead"}

EarlierIn(rows, j) == {k \in rows : <<k, j>> \in older}

\* Those scheduled earliest, as many as fit into one poll.
findDueJobs == {j \in dueRows : Cardinality(EarlierIn(dueRows, j)) < PollLimit}

\* A row whose scheduled_at is this moment comes after all that are due.
ScheduleNow(j) ==
    older' = {p \in older : p[1] # j} \cup {<<k, j>> : k \in {k \in Jobs \ {j} : row[k].due}}

\* updateJobStatus writes what it is given and leaves the other columns.
updateJobStatus(j, status) == row' = [row EXCEPT ![j].status = status]

Executing(i, j) == pc[i] \in {"running", "handled"} /\ current[i] = j

\* The executor goes to the next job of its batch, or waits for the next poll.
NextOfBatch(i, j) ==
    LET left == DOMAIN batch[i] \ {j}
    IN  /\ batch' = [batch EXCEPT ![i] = [k \in left |-> batch[i][k]]]
        /\ pc' = [pc EXCEPT ![i] = IF left = {} THEN "idle" ELSE "batch"]
        /\ current' = [current EXCEPT ![i] = NoJob]

\* The last attempt of a job is written "failed". A retry is never written:
\* the update with visibilityTimeout null throws inside updateJobStatus.
\* written is FALSE when the database refuses the write.
handleJobFailure(i, j, written) ==
    LET newAttempts == batch[i][j].attempts + 1
        exhausted == MaxAttempts[j] > 0 /\ newAttempts >= MaxAttempts[j]
    IN  /\ NextOfBatch(i, j)
        /\ \/ /\ exhausted /\ written
              /\ row' = [row EXCEPT ![j].status = "failed", ![j].attempts = newAttempts]
              /\ tokens' = [tokens EXCEPT ![i] = @ \ {j}]
           \/ /\ exhausted => ~written
              /\ UNCHANGED <<row, tokens>>

-----------------------------------------------------------------------------
(* The process and its executor.                                           *)

\* onModuleInit: every running row is reset, unless the update fails.
StartProcess(i) ==
    /\ pc[i] = "down"
    /\ pc' = [pc EXCEPT ![i] = "idle"]
    /\ \/ row' = [j \in Jobs |-> IF row[j].status = "running"
                                 THEN [row[j] EXCEPT !.status = "pending", !.vis = "null"]
                                 ELSE row[j]]
       \/ UNCHANGED row
    /\ UNCHANGED <<older, batch, current, tokens, request, finished, crashes, requests>>

CrashProcess(i) ==
    /\ pc[i] # "down" /\ crashes < MaxCrashes
    /\ pc' = [pc EXCEPT ![i] = "down"]
    /\ batch' = [batch EXCEPT ![i] = EmptyBatch]
    /\ current' = [current EXCEPT ![i] = NoJob]
    /\ tokens' = [tokens EXCEPT ![i] = {}]
    /\ request' = [c \in Clients |-> IF request[c] # NoRequest /\ request[c].at = i
                                     THEN NoRequest ELSE request[c]]
    /\ crashes' = crashes + 1
    /\ UNCHANGED <<row, older, finished, requests>>

\* isProcessing keeps a process from polling while it works on a batch.
processDueJobs(i) ==
    /\ pc[i] = "idle" /\ findDueJobs # {}
    /\ pc' = [pc EXCEPT ![i] = "batch"]
    /\ batch' = [batch EXCEPT ![i] =
         [j \in findDueJobs |-> [attempts |-> row[j].attempts, vis |-> row[j].vis]]]
    /\ UNCHANGED <<row, older, current, tokens, request, finished, crashes, requests>>

\* executeJob, the job was selected with an expired timeout: an attempt lost.
TimeOut(i, j) ==
    /\ pc[i] = "batch" /\ j \in DOMAIN batch[i]
    /\ batch[i][j].vis = "past"
    /\ \E written \in BOOLEAN : handleJobFailure(i, j, written)
    /\ UNCHANGED <<older, request, finished, crashes, requests>>

\* The lock without its visibility timeout.
LockAndRunVisibly(i, j) ==
    /\ pc[i] = "batch" /\ j \in DOMAIN batch[i]
    /\ batch[i][j].vis = "null"
    /\ updateJobStatus(j, "running")
    /\ pc' = [pc EXCEPT ![i] = "running"]
    /\ current' = [current EXCEPT ![i] = j]
    /\ UNCHANGED <<older, batch, tokens, request, finished, crashes, requests>>

\* executeJob, the lock: written whatever the row says by now.
LockAndRun(i, j) ==
    /\ pc[i] = "batch" /\ j \in DOMAIN batch[i]
    /\ batch[i][j].vis = "null"
    /\ row' = [row EXCEPT ![j].status = "running", ![j].vis = "ahead"]
    /\ pc' = [pc EXCEPT ![i] = "running"]
    /\ current' = [current EXCEPT ![i] = j]
    /\ UNCHANGED <<older, batch, tokens, request, finished, crashes, requests>>

LockRefused(i, j) ==
    /\ pc[i] = "batch" /\ j \in DOMAIN batch[i]
    /\ batch[i][j].vis = "null"
    /\ \E written \in BOOLEAN : handleJobFailure(i, j, written)
    /\ UNCHANGED <<older, request, finished, crashes, requests>>

\* The handler did its work; its answer is not recorded yet.
HandlerReturns(i) ==
    /\ pc[i] = "running"
    /\ pc' = [pc EXCEPT ![i] = "handled"]
    /\ UNCHANGED <<row, older, batch, current, tokens, request, finished, crashes, requests>>

\* The handler throws: an error of its own, or a cancellation it noticed.
HandlerThrows(i) ==
    /\ pc[i] = "running"
    /\ \E written \in BOOLEAN : handleJobFailure(i, current[i], written)
    /\ UNCHANGED <<older, request, finished, crashes, requests>>

RecordSuccess(i) ==
    /\ pc[i] = "handled"
    /\ LET j == current[i]
       IN  \/ /\ updateJobStatus(j, "completed")
              /\ finished' = finished \cup {j}
              /\ tokens' = [tokens EXCEPT ![i] = @ \ {j}]
              /\ NextOfBatch(i, j)
           \/ /\ \E written \in BOOLEAN : handleJobFailure(i, j, written)
              /\ UNCHANGED finished
    /\ UNCHANGED <<older, request, crashes, requests>>

-----------------------------------------------------------------------------
(* Requests: the queue's API and the operators' endpoints.                 *)

enqueueDelayed(j) ==
    /\ row[j].status = "absent"
    /\ \E due \in BOOLEAN :
         /\ row' = [row EXCEPT ![j] = [status |-> "pending", attempts |-> 0, vis |-> "null", due |-> due]]
         /\ IF due THEN ScheduleNow(j) ELSE UNCHANGED older
    /\ UNCHANGED <<pc, batch, current, tokens, request, finished, crashes, requests>>

\* cancel and retryJob look the job up first, in some process ...
Read(c, r) ==
    /\ request[c] = NoRequest /\ requests < MaxRequests
    /\ pc[r.at] # "down"
    /\ request' = [request EXCEPT ![c] = r]
    /\ requests' = requests + 1
    /\ UNCHANGED <<row, older, pc, batch, current, tokens, finished, crashes>>

ReadJob(c) ==
    \E i \in Instances, j \in Jobs, kind \in {"cancel", "retry"} :
        /\ row[j].status # "absent"
        /\ Read(c, [kind |-> kind, job |-> j, saw |-> row[j].status, at |-> i])

\* ... and so does bulkRetry, which lists the failed jobs.
ReadFailed(c) ==
    LET failed == {j \in Jobs : row[j].status = "failed"}
    IN  failed # {} /\ \E i \in Instances : Read(c, [kind |-> "bulk", jobs |-> failed, at |-> i])

Answered(c) ==
    /\ request' = [request EXCEPT ![c] = NoRequest]
    /\ UNCHANGED <<pc, batch, current, finished, crashes, requests>>

\* A pending job is written cancelled, a running one is flagged in this process.
cancel(c) ==
    LET r == request[c]
    IN  /\ r.kind = "cancel"
        /\ \/ r.saw = "pending" /\ updateJobStatus(r.job, "cancelled") /\ UNCHANGED tokens
           \/ /\ r.saw = "running"
              /\ tokens' = [tokens EXCEPT ![r.at] = @ \cup {r.job}]
              /\ UNCHANGED row
           \/ r.saw \in {"completed", "failed", "cancelled"} /\ UNCHANGED <<row, tokens>>
        /\ UNCHANGED older
        /\ Answered(c)

\* A retry that clears the timeout, so that the next poll runs the job.
retryJobCleared(c) ==
    LET r == request[c]
    IN  /\ r.kind = "retry"
        /\ \/ /\ r.saw \notin {"completed", "cancelled"}
              /\ row' = [row EXCEPT ![r.job].status = "pending", ![r.job].due = TRUE, ![r.job].vis = "null"]
              /\ ScheduleNow(r.job)
           \/ r.saw \in {"completed", "cancelled"} /\ UNCHANGED <<row, older>>
        /\ UNCHANGED tokens
        /\ Answered(c)

\* Only completed and cancelled jobs are refused; the timeout column stays.
retryJob(c) ==
    LET r == request[c]
    IN  /\ r.kind = "retry"
        /\ \/ /\ r.saw \notin {"completed", "cancelled"}
              /\ row' = [row EXCEPT ![r.job].status = "pending", ![r.job].due = TRUE]
              /\ ScheduleNow(r.job)
           \/ r.saw \in {"completed", "cancelled"} /\ UNCHANGED <<row, older>>
        /\ UNCHANGED tokens
        /\ Answered(c)

bulkRetry(c) ==
    LET r == request[c]
    IN  /\ r.kind = "bulk"
        /\ \E j \in r.jobs :
             /\ row' = [row EXCEPT ![j].status = "pending", ![j].due = TRUE]
             /\ ScheduleNow(j)
             /\ request' = [request EXCEPT ![c] =
                  IF r.jobs = {j} THEN NoRequest ELSE [r EXCEPT !.jobs = @ \ {j}]]
        /\ UNCHANGED <<pc, batch, current, tokens, finished, crashes, requests>>

-----------------------------------------------------------------------------
(* Time.                                                                   *)

BecomesDue(j) ==
    /\ row[j].status # "absent" /\ ~row[j].due
    /\ row' = [row EXCEPT ![j].due = TRUE]
    /\ ScheduleNow(j)
    /\ UNCHANGED <<pc, batch, current, tokens, request, finished, crashes, requests>>

VisibilityPasses(j) ==
    /\ row[j].vis = "ahead"
    /\ row' = [row EXCEPT ![j].vis = "past"]
    /\ UNCHANGED <<older, pc, batch, current, tokens, request, finished, crashes, requests>>

-----------------------------------------------------------------------------
ExecutorStep(i) ==
    \/ processDueJobs(i) \/ HandlerReturns(i) \/ HandlerThrows(i) \/ RecordSuccess(i)
    \/ \E j \in Jobs : TimeOut(i, j) \/ LockAndRun(i, j) \/ LockRefused(i, j)

OperatorStep(c) == ReadJob(c) \/ ReadFailed(c) \/ cancel(c) \/ retryJob(c) \/ bulkRetry(c)

JobNext ==
    \/ \E i \in Instances : StartProcess(i) \/ CrashProcess(i) \/ ExecutorStep(i)
    \/ \E c \in Clients : OperatorStep(c)
    \/ \E j \in Jobs : enqueueDelayed(j) \/ BecomesDue(j) \/ VisibilityPasses(j)

\* Processes are restarted, the cron polls every ten seconds, handlers end,
\* time passes, and the database does not refuse the same lock for ever.
JobFairness ==
    /\ \A i \in Instances : WF_jobVars(StartProcess(i)) /\ WF_jobVars(ExecutorStep(i))
    /\ \A i \in Instances, j \in Jobs : SF_jobVars(LockAndRun(i, j))
    /\ \A j \in Jobs : WF_jobVars(BecomesDue(j)) /\ WF_jobVars(VisibilityPasses(j))

JobSpec == JobInit /\ [][JobNext]_jobVars
FairJobSpec == JobSpec /\ JobFairness

-----------------------------------------------------------------------------
(* Properties.                                                             *)

InBatch(i, j) == j \in DOMAIN batch[i]

\* A job whose success was recorded is not executed and will not be, whatever
\* crossed the recording: a cancellation, a retry, a crash. What protects it
\* is the timeout column, which no write but the start-up reset clears.
FinishedIsOver ==
    \A j \in finished :
        /\ row[j].status \notin {"absent", "running"} /\ row[j].vis # "null"
        /\ \A i \in Instances :
             ~Executing(i, j) /\ (InBatch(i, j) => batch[i][j].vis = "past")

Phase(j) ==
    IF \E i \in Instances : Executing(i, j) THEN "running"
    ELSE IF j \in finished THEN "done"
    ELSE IF row[j].status = "absent" THEN "absent"
    ELSE IF \/ row[j].status = "running"
            \/ row[j].status = "pending" /\ row[j].vis = "null"
            \/ \E i \in Instances : InBatch(i, j) /\ batch[i][j].vis = "null"
         THEN "waiting"
    ELSE "dropped"

Delivery == INSTANCE JobDelivery WITH phase <- [j \in Jobs |-> Phase(j)]

\* With one process the queue delivers as JobDelivery promises.
ImplementsDelivery == Delivery!DeliverySpec

Waiting(j) == row[j].status = "pending" /\ row[j].vis = "null"

\* A row whose attempt timed out is selected by every poll and stays as it is,
\* because its retry is never written: as many of them as a poll selects, all
\* scheduled before a job, keep that job out of every poll.
Crowded(j) == Cardinality(EarlierIn(timedOutRows, j)) >= PollLimit

\* A job that waits to be executed for the first time does not wait for ever:
\* it is taken, timed out or cancelled, whatever its neighbours do, unless
\* earlier rows that timed out fill the poll.
EveryJobIsTaken == \A j \in Jobs : Waiting(j) ~> (~Waiting(j) \/ Crowded(j))

\* A job whose attempt failed is attempted again or given up: no row stays
\* "running" while nobody runs it.
RunningIsRun ==
    \A j \in Jobs : (row[j].status = "running" /\ \A i \in Instances : ~Executing(i, j))
                    ~> (row[j].status # "running" \/ \E i \in Instances : Executing(i, j))
=============================================================================
