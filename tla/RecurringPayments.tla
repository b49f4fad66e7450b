-------------------------- MODULE RecurringPayments --------------------------
(***************************************************************************)
(* Recurring payment links: the service that creates, pauses, resumes and  *)
(* cancels them, the scheduler's cron that turns a due link into an        *)
(* execution row and a job, and the job handler that pays and counts. The  *)
(* jobs are delivered as JobDelivery says. Dates are period numbers.       *)
(***************************************************************************)
EXTENDS Integers, FiniteSets, FiniteSetsExt

CONSTANTS
    Links,
    Ticks,     \* overlapping runs of the scheduler's cron
    Periods,   \* bound on the period numbers
    Totals,    \* total_periods a creator asks for, 0 for null
    Ends,      \* end_date a creator asks for, 0 for null
    ListingWorks, \* whether the database answers the query for links that are due
    MaxPays,   \* bound on the submissions of one period
    MaxNow     \* bound on the date

ASSUME RecurringBounds ==
    /\ Periods \in Nat \ {0} /\ MaxPays \in Nat /\ MaxNow \in Nat
    /\ Totals \subseteq 0..Periods /\ Ends \subseteq Nat /\ ListingWorks \in BOOLEAN

VARIABLES
    link,     \* recurring_payment_links
    exn,      \* status of the recurring_payment_executions rows
    job,      \* where the queue has the job of each execution
    handler,  \* how far the handler of a running job is
    sched,    \* what each run of the cron still has to do
    request,  \* the request of a user whose answer is still to be written
    ledger,   \* payments on the ledger, per period
    now

recVars == <<link, exn, job, handler, sched, request, ledger, now>>

Executions == Links \X (1..Periods)
Queue == INSTANCE JobDelivery WITH Jobs <- Executions, phase <- job

Link == [status : {"absent", "active", "paused", "cancelled"}, executed : 0..Periods,
         start : 0..MaxNow, next : Nat, total : Totals, end : Ends \cup {0}]
NoTick == [list |-> [l \in {} |-> 0], at |-> <<>>]
Idle == [step |-> "none", read |-> <<0, 0>>]

RecTypeOK ==
    /\ link \in [Links -> Link]
    /\ exn \in [Executions -> {"none", "pending", "success", "failed"}]
    /\ Queue!DeliveryTypeOK
    /\ \A e \in Executions : handler[e].step \in {"none", "submit", "mark", "read", "write", "end"}
                             /\ (handler[e].step # "none" <=> job[e] = "running")
    /\ \A s \in Ticks : DOMAIN sched[s].list \subseteq Links /\ sched[s].at \in Executions \cup {<<>>}
    /\ \A l \in Links : request[l] \in {"none", "create", "cancel", "pause", "resume"}
    /\ ledger \in [Executions -> 0..MaxPays]
    /\ now \in 0..MaxNow

RecInit ==
    /\ link = [l \in Links |->
         [status |-> "absent", executed |-> 0, start |-> 0, next |-> 0, total |-> CHOOSE t \in Totals : TRUE,
          end |-> 0]]
    /\ exn = [e \in Executions |-> "none"]
    /\ job = [e \in Executions |-> "absent"]
    /\ handler = [e \in Executions |-> Idle]
    /\ sched = [s \in Ticks |-> NoTick]
    /\ request = [l \in Links |-> "none"]
    /\ ledger = [e \in Executions |-> 0]
    /\ now = 0

-----------------------------------------------------------------------------
(* The service.                                                            *)

\* createRecurringLink inserts the link, then the execution of period 1.
createLink(l) ==
    /\ link[l].status = "absent" /\ request[l] = "none"
    /\ \E start \in now..MaxNow, total \in Totals, end \in Ends :
         /\ end = 0 \/ end > start
         /\ link' = [link EXCEPT ![l] = [status |-> "active", executed |-> 0, start |-> start,
                                         next |-> start, total |-> total, end |-> end]]
    /\ request' = [request EXCEPT ![l] = "create"]
    /\ UNCHANGED <<exn, job, handler, sched, ledger, now>>

\* The second insert may be refused: the period exists, or the database fails.
createFirstExecution(l) ==
    /\ request[l] = "create"
    /\ request' = [request EXCEPT ![l] = "none"]
    /\ \/ exn[l, 1] = "none" /\ exn' = [exn EXCEPT ![<<l, 1>>] = "pending"]
       \/ UNCHANGED exn
    /\ UNCHANGED <<link, job, handler, sched, ledger, now>>

\* cancel, pause and resume check the status they read ...
askStatus(l, kind) ==
    /\ request[l] = "none"
    /\ \/ kind = "cancel" /\ link[l].status \in {"active", "paused"}
       \/ kind = "pause" /\ link[l].status = "active"
       \/ kind = "resume" /\ link[l].status = "paused"
    /\ request' = [request EXCEPT ![l] = kind]
    /\ UNCHANGED <<link, exn, job, handler, sched, ledger, now>>

\* ... and write the new one whatever the row says by then.
updateStatus(l) ==
    /\ request[l] \in {"cancel", "pause", "resume"}
    /\ link' = [link EXCEPT ![l].status =
         CASE request[l] = "cancel" -> "cancelled"
           [] request[l] = "pause" -> "paused"
           [] request[l] = "resume" -> "active"]
    /\ request' = [request EXCEPT ![l] = "none"]
    /\ UNCHANGED <<exn, job, handler, sched, ledger, now>>

-----------------------------------------------------------------------------
(* The scheduler.                                                          *)

\* The rows that the query is about, when the database answers it. It does not
\* as the code stands: should_execute_recurring_link is called without the id it
\* takes, and the query that is tried instead compares executed_count with the
\* word total_periods, because or() takes what follows lt. as a value.
getDueForExecution ==
    {l \in Links : /\ link[l].status = "active" /\ link[l].next <= now
                   /\ (link[l].total = 0 \/ link[l].executed < link[l].total)
                   /\ (link[l].end = 0 \/ now < link[l].end)}

\* Every minute; nothing keeps a run from starting while another one works. A
\* run whose query fails writes the error to the log and ends.
checkPending(s) ==
    /\ sched[s] = NoTick /\ ListingWorks /\ getDueForExecution # {}
    /\ sched' = [sched EXCEPT ![s].list = [l \in getDueForExecution |-> link[l].executed]]
    /\ UNCHANGED <<link, exn, job, handler, request, ledger, now>>

\* The period follows from the count that was read; one row per period.
createExecution(s, l) ==
    /\ sched[s].at = <<>> /\ l \in DOMAIN sched[s].list
    /\ LET period == sched[s].list[l] + 1
           rest == [k \in DOMAIN sched[s].list \ {l} |-> sched[s].list[k]]
       IN  /\ period <= Periods
           /\ \/ /\ exn[l, period] = "none"
                 /\ exn' = [exn EXCEPT ![<<l, period>>] = "pending"]
                 /\ sched' = [sched EXCEPT ![s] = [list |-> rest, at |-> <<l, period>>]]
              \/ /\ sched' = [sched EXCEPT ![s].list = rest]
                 /\ UNCHANGED exn
    /\ UNCHANGED <<link, job, handler, request, ledger, now>>

\* The job is enqueued, or not: markPaymentFailure then looks the execution
\* up among those of a link that has its id, and throws without a write.
enqueueExecution(s) ==
    /\ sched[s].at # <<>>
    /\ sched' = [sched EXCEPT ![s].at = <<>>]
    /\ (Queue!Accept(sched[s].at) \/ UNCHANGED job)
    /\ UNCHANGED <<link, exn, handler, request, ledger, now>>

-----------------------------------------------------------------------------
(* The handler of the jobs.                                                *)

To(e, step) == handler' = [handler EXCEPT ![e].step = step]

handJob(e) ==
    /\ Queue!Hand(e) /\ To(e, "submit")
    /\ UNCHANGED <<link, exn, sched, request, ledger, now>>

\* When the queue gives a job up it calls onFailure, which writes the
\* execution failed unless that write fails too.
onFailure(e) ==
    \/ job'[e] = "dropped" /\ exn' = [exn EXCEPT ![e] = "failed"]
    \/ UNCHANGED exn

\* The handler throws: the job is run again later, or given up.
Throws(e) ==
    /\ Queue!Return(e) /\ onFailure(e)
    /\ handler' = [handler EXCEPT ![e] = Idle]

\* A waiting job is given up, cancelled or timed out; operators bring it back.
giveUpJob(e) ==
    /\ Queue!Drop(e) /\ onFailure(e)
    /\ UNCHANGED <<link, handler, sched, request, ledger, now>>

retryDropped(e) ==
    /\ Queue!Revive(e)
    /\ UNCHANGED <<link, exn, handler, sched, request, ledger, now>>

\* The network may take the payment and lose the answer.
submitRecurringPayment(e) ==
    /\ handler[e].step = "submit"
    /\ \/ /\ ledger[e] < MaxPays
          /\ ledger' = [ledger EXCEPT ![e] = @ + 1]
          /\ \/ To(e, "mark") /\ UNCHANGED <<job, exn>>
             \/ Throws(e)
       \/ Throws(e) /\ UNCHANGED ledger
    /\ UNCHANGED <<link, sched, request, now>>

updateExecutionStatus(e) ==
    /\ handler[e].step = "mark"
    /\ \/ exn' = [exn EXCEPT ![e] = "success"] /\ To(e, "read") /\ UNCHANGED job
       \/ Throws(e)
    /\ UNCHANGED <<link, sched, request, ledger, now>>

\* incrementExecutedCount reads the count and the date ...
readCount(e) ==
    /\ handler[e].step = "read"
    /\ handler' = [handler EXCEPT ![e] =
         [step |-> "write", read |-> <<link[e[1]].executed, link[e[1]].next>>]]
    /\ UNCHANGED <<link, exn, job, sched, request, ledger, now>>

\* The count moves without the date.
writeCountOnly(e) ==
    /\ handler[e].step = "write"
    /\ LET l == e[1]
           count == handler[e].read[1] + 1
       IN  \/ /\ count <= Periods /\ (link[l].total = 0 \/ count <= link[l].total)
              /\ link' = [link EXCEPT ![l].executed = count]
              /\ To(e, "end") /\ UNCHANGED <<exn, job>>
           \/ Throws(e) /\ UNCHANGED link
    /\ UNCHANGED <<sched, request, ledger, now>>

\* ... and writes both one further; the table refuses more than the total.
writeCount(e) ==
    /\ handler[e].step = "write"
    /\ LET l == e[1]
           count == handler[e].read[1] + 1
       IN  \/ /\ count <= Periods /\ (link[l].total = 0 \/ count <= link[l].total)
              /\ link' = [link EXCEPT ![l].executed = count, ![l].next = handler[e].read[2] + 1]
              /\ To(e, "end") /\ UNCHANGED <<exn, job>>
           \/ Throws(e) /\ UNCHANGED link
    /\ UNCHANGED <<sched, request, ledger, now>>

recordJob(e) ==
    /\ handler[e].step = "end"
    /\ handler' = [handler EXCEPT ![e] = Idle]
    /\ (Queue!Record(e) \/ Queue!Return(e))
    /\ UNCHANGED <<link, exn, sched, request, ledger, now>>

\* The process dies: cron runs, requests and handlers are gone.
RecCrash ==
    /\ Queue!Crash
    /\ \A e \in Executions : job[e] = "running" => job'[e] # "running"
    /\ handler' = [e \in Executions |-> Idle]
    /\ sched' = [s \in Ticks |-> NoTick]
    /\ request' = [l \in Links |-> "none"]
    /\ UNCHANGED <<link, exn, ledger, now>>

Tomorrow ==
    /\ now < MaxNow /\ now' = now + 1
    /\ UNCHANGED <<link, exn, job, handler, sched, request, ledger>>

-----------------------------------------------------------------------------
RecNext ==
    \/ \E l \in Links : createLink(l) \/ createFirstExecution(l) \/ updateStatus(l)
    \/ \E l \in Links, kind \in {"cancel", "pause", "resume"} : askStatus(l, kind)
    \/ \E s \in Ticks : checkPending(s) \/ enqueueExecution(s)
    \/ \E s \in Ticks, l \in Links : createExecution(s, l)
    \/ \E e \in Executions :
         \/ handJob(e) \/ submitRecurringPayment(e) \/ updateExecutionStatus(e)
         \/ readCount(e) \/ writeCount(e) \/ recordJob(e)
         \/ giveUpJob(e) \/ retryDropped(e)
    \/ RecCrash \/ Tomorrow

RecSpec == RecInit /\ [][RecNext]_recVars

\* The crons run, time passes and the process ends up staying alive; the database
\* lets an insert through and the queue takes a job, if not at the first try then
\* at a later one.
Created(s, l) == createExecution(s, l) /\ exn' # exn
Enqueued(s) == enqueueExecution(s) /\ job' # job

FairRecSpec ==
    /\ RecSpec /\ WF_recVars(Tomorrow) /\ <>[][~RecCrash]_recVars
    /\ \A s \in Ticks : WF_recVars(checkPending(s)) /\ WF_recVars(enqueueExecution(s)) /\ SF_recVars(Enqueued(s))
    /\ \A s \in Ticks, l \in Links : WF_recVars(createExecution(s, l)) /\ SF_recVars(Created(s, l))

-----------------------------------------------------------------------------
\* No period is paid before its date: the count that names the period and the
\* date that makes the link due move together, also when handlers run twice.
NeverEarly ==
    \A e \in Executions : ledger[e] > 0 => link[e[1]].start + e[2] - 1 <= now

\* "Cron-based scheduler executes payments automatically" (RECURRING-PAYMENTS.md, line 12): the
\* first period of a link that is due gets a job, unless the link stops being due: it was paused
\* or cancelled, or its end date passed.
FirstPeriodIsEnqueued ==
    \A l \in Links : l \in getDueForExecution
                       ~> job[l, 1] # "absent" \/ l \notin getDueForExecution
=============================================================================
