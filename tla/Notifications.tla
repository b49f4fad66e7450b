---------------------------- MODULE Notifications ----------------------------
(***************************************************************************)
(* Delivery of notifications: the log keeps one row per event and channel, *)
(* and five kinds of calls work on it without any lock - the dispatch of   *)
(* an event, the webhook jobs it enqueues, two cron retries that see the   *)
(* same failed rows, and operators who deliver an event again.             *)
(***************************************************************************)
EXTENDS Integers, FiniteSets

CONSTANTS
    Entries,        \* an event for one recipient on one channel
    Webhooks,       \* those whose channel is "webhook"
    Senders,        \* calls that work at the same time
    MaxAttempts,    \* of the webhook retries
    RetryAttempts,  \* of the retries of all channels
    MaxHooks,       \* bound on the endpoints of a recipient
    MaxJobs,        \* bound on the waiting jobs of an entry
    MaxFailures     \* bound on the failures of an entry

ASSUME NotificationBounds ==
    /\ Webhooks \subseteq Entries
    /\ MaxAttempts \in Nat \ {0} /\ RetryAttempts \in Nat \ {0}
    /\ MaxHooks \in Nat /\ MaxJobs \in Nat /\ MaxFailures \in Nat
    /\ IsFiniteSet(Senders)

VARIABLES
    log,       \* notification_log
    failures,  \* deliveries that failed or were given up, counted for the properties
    sender,    \* what each call still has to do
    jobs       \* webhook jobs the queue holds for each entry

noteVars == <<log, failures, sender, jobs>>

NoCall == [task |-> "idle", list |-> {}, step |-> "next", entry |-> CHOOSE e \in Entries : TRUE,
           hooks |-> 0, tried |-> 0, read |-> 0]
LogRow == [status : {"none", "pending", "sent", "failed", "dlq"}, attempts : 0..MaxFailures]

NoteTypeOK ==
    /\ log \in [Entries -> LogRow]
    /\ failures \in [Entries -> 0..MaxFailures]
    /\ jobs \in [Entries -> 0..MaxJobs]
    /\ \A s \in Senders :
         /\ sender[s].task \in {"idle", "webhooks", "retries", "once", "job"}
         /\ sender[s].list \subseteq (Entries \X (0..MaxFailures))
         /\ sender[s].step \in {"next", "try", "read", "write"}
         /\ sender[s].entry \in Entries
         /\ sender[s].hooks \in 0..MaxHooks \cup {1}

NoteInit ==
    /\ log = [e \in Entries |-> [status |-> "none", attempts |-> 0]]
    /\ failures = [e \in Entries |-> 0]
    /\ sender = [s \in Senders |-> NoCall]
    /\ jobs = [e \in Entries |-> 0]

-----------------------------------------------------------------------------
(* The log.                                                                *)

Call(s, c) == sender' = [sender EXCEPT ![s] = c]
Fails(e) == failures[e] < MaxFailures /\ failures' = [failures EXCEPT ![e] = @ + 1]

\* An insert that a row for the same entry makes a no-op.
createPending(row) == IF row.status = "none" THEN [status |-> "pending", attempts |-> 0] ELSE row

\* Updates reach the row if there is one; their errors are only logged.
markSent(e) ==
    \/ UNCHANGED log
    \/ log[e].status # "none" /\ log' = [log EXCEPT ![e].status = "sent"]

markDlq(e) ==
    \/ UNCHANGED log
    \/ log[e].status # "none" /\ log' = [log EXCEPT ![e].status = "dlq"]

\* markFailed reads the attempts ...
readAttempts(s) ==
    /\ sender[s].step = "read"
    /\ Call(s, [sender[s] EXCEPT !.step = "write", !.read = log[sender[s].entry].attempts])
    /\ UNCHANGED <<log, failures, jobs>>

\* ... and writes one more, over whatever the row says by then.
markFailed(s) ==
    LET e == sender[s].entry
    IN  /\ sender[s].step = "write"
        /\ \/ UNCHANGED log
           \/ /\ log[e].status # "none"
              /\ log' = [log EXCEPT ![e] = [status |-> "failed", attempts |-> sender[s].read + 1]]
        /\ Call(s, [sender[s] EXCEPT !.step = IF sender[s].hooks = 0 THEN "next" ELSE "try"])
        /\ UNCHANGED <<failures, jobs>>

-----------------------------------------------------------------------------
(* Sending to a channel.                                                   *)

\* dispatch, from the event of an escrow or a payment; the log may already
\* have the event as sent, and the rate limiter may refuse it.
dispatch(s, e) ==
    /\ sender[s].task = "idle" /\ log[e].status # "sent"
    /\ Call(s, [sender[s] EXCEPT !.task = "once", !.entry = e, !.step = "try", !.hooks = 1])
    /\ UNCHANGED <<log, failures, jobs>>

\* A webhook becomes a job; the process may die before it is enqueued.
enqueueWebhookJob(s) ==
    LET e == sender[s].entry
    IN  /\ sender[s].step = "try" /\ sender[s].task \in {"once", "retries"} /\ e \in Webhooks
        /\ log' = [log EXCEPT ![e] = createPending(@)]
        /\ \/ jobs[e] < MaxJobs /\ jobs' = [jobs EXCEPT ![e] = @ + 1]
           \/ UNCHANGED jobs
        /\ Call(s, [sender[s] EXCEPT !.step = "next", !.hooks = 0])
        /\ UNCHANGED failures

\* Any other channel is served at once.
sendToChannel(s) ==
    LET e == sender[s].entry
        logged == [log EXCEPT ![e] = createPending(@)]
    IN  /\ sender[s].step = "try" /\ sender[s].task \in {"once", "retries"} /\ e \notin Webhooks
        /\ \/ /\ log' \in {logged, [logged EXCEPT ![e].status = "sent"]}
              /\ Call(s, [sender[s] EXCEPT !.step = "next", !.hooks = 0])
              /\ UNCHANGED failures
           \/ /\ log' = logged /\ Fails(e)
              /\ Call(s, [sender[s] EXCEPT !.step = "read", !.hooks = 0])
        /\ UNCHANGED jobs

\* A webhook job ends: delivered, or given up after its own retries, which
\* the log hears of as one failure.
runWebhookJob(s, e) ==
    /\ sender[s].task = "idle" /\ jobs[e] > 0
    /\ jobs' = [jobs EXCEPT ![e] = @ - 1]
    /\ \/ markSent(e) /\ UNCHANGED <<failures, sender>>
       \/ /\ Fails(e) /\ UNCHANGED log
          /\ Call(s, [sender[s] EXCEPT !.task = "job", !.entry = e, !.step = "read"])

-----------------------------------------------------------------------------
(* Retries.                                                                *)

getPendingRetries(max) ==
    {p \in Entries \X (0..MaxFailures) :
        log[p[1]].status = "failed" /\ log[p[1]].attempts = p[2] /\ p[2] < max}

\* Every minute; nothing keeps the next run from starting before this ends.
retryFailedWebhooks(s) ==
    LET due == {r \in getPendingRetries(MaxAttempts) : r[1] \in Webhooks}
    IN  /\ sender[s].task = "idle" /\ due # {}
        /\ Call(s, [sender[s] EXCEPT !.task = "webhooks", !.list = due])
        /\ UNCHANGED <<log, failures, jobs>>

\* Every thirty minutes, for all channels.
retryFailedNotifications(s) ==
    /\ sender[s].task = "idle" /\ getPendingRetries(RetryAttempts) # {}
    /\ Call(s, [sender[s] EXCEPT !.task = "retries", !.list = getPendingRetries(RetryAttempts)])
    /\ UNCHANGED <<log, failures, jobs>>

\* The next row of the list. It may not be due, or have been sent meanwhile;
\* a recipient who left the channel counts as a failure.
nextRetry(s) ==
    LET c == sender[s]
    IN  /\ c.task \in {"webhooks", "retries"} /\ c.step = "next"
        /\ \E r \in c.list :
             LET at == [c EXCEPT !.list = @ \ {r}, !.entry = r[1], !.tried = r[2]]
             IN  \/ Call(s, at) /\ UNCHANGED failures
                 \/ /\ c.task = "webhooks" /\ UNCHANGED failures
                    /\ \E n \in 1..MaxHooks : Call(s, [at EXCEPT !.step = "try", !.hooks = n])
                 \/ /\ c.task = "retries" /\ log[r[1]].status # "sent" /\ UNCHANGED failures
                    /\ Call(s, [at EXCEPT !.step = "try", !.hooks = 1])
                 \/ /\ c.task = "retries" /\ Fails(r[1])
                    /\ Call(s, [at EXCEPT !.step = "read"])
        /\ UNCHANGED <<log, jobs>>

\* An operator asks for a delivery; it counts as the first attempt.
redeliver(s, e) ==
    /\ sender[s].task = "idle"
    /\ \E n \in 1..MaxHooks :
         Call(s, [sender[s] EXCEPT !.task = "webhooks", !.entry = e, !.step = "try", !.hooks = n])
    /\ UNCHANGED <<log, failures, jobs>>

\* One attempt too early.
attemptRedeliveryOnce(s) ==
    LET c == sender[s]
        rest == [c EXCEPT !.hooks = @ - 1, !.step = IF c.hooks = 1 THEN "next" ELSE "try"]
    IN  /\ c.task = "webhooks" /\ c.step = "try"
        /\ \/ markSent(c.entry) /\ Call(s, rest) /\ UNCHANGED failures
           \/ /\ Fails(c.entry)
              /\ IF c.tried + 2 >= MaxAttempts
                 THEN markDlq(c.entry) /\ Call(s, rest)
                 ELSE Call(s, [rest EXCEPT !.step = "read"]) /\ UNCHANGED log
        /\ UNCHANGED jobs

\* All endpoints of the recipient share the row.
attemptRedelivery(s) ==
    LET c == sender[s]
        rest == [c EXCEPT !.hooks = @ - 1, !.step = IF c.hooks = 1 THEN "next" ELSE "try"]
    IN  /\ c.task = "webhooks" /\ c.step = "try"
        /\ \/ markSent(c.entry) /\ Call(s, rest) /\ UNCHANGED failures
           \/ /\ Fails(c.entry)
              /\ IF c.tried + 1 >= MaxAttempts
                 THEN markDlq(c.entry) /\ Call(s, rest)
                 ELSE Call(s, [rest EXCEPT !.step = "read"]) /\ UNCHANGED log
        /\ UNCHANGED jobs

\* A call is over, or its process dies with it.
endCall(s) ==
    /\ sender[s].task # "idle"
    /\ Call(s, NoCall)
    /\ UNCHANGED <<log, failures, jobs>>

-----------------------------------------------------------------------------
NoteNext ==
    \E s \in Senders :
        \/ \E e \in Entries : dispatch(s, e) \/ runWebhookJob(s, e)
        \/ \E e \in Webhooks : redeliver(s, e)
        \/ enqueueWebhookJob(s) \/ sendToChannel(s) \/ readAttempts(s) \/ markFailed(s)
        \/ retryFailedWebhooks(s) \/ retryFailedNotifications(s) \/ nextRetry(s)
        \/ attemptRedelivery(s) \/ endCall(s)

NoteSpec == NoteInit /\ [][NoteNext]_noteVars

-----------------------------------------------------------------------------
\* An entry is buried in the dead-letter state only after MaxAttempts real
\* failures, whichever of the two crons, the jobs and the operators produced
\* them, and however their unlocked reads and writes of the attempts cross.
DlqIsExhausted == \A e \in Entries : log[e].status = "dlq" => failures[e] >= MaxAttempts
=============================================================================
