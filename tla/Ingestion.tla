------------------------------ MODULE Ingestion ------------------------------
(***************************************************************************)
(* Three readers of the contract's events and the tables they fill: the    *)
(* stream, whose records are handled concurrently and move one cursor; the *)
(* backfills of its process, which move the same cursor; and the reindex   *)
(* runs of operators, which page through a ledger range and leave a        *)
(* checkpoint to resume from. Events are numbered as their paging tokens   *)
(* order them; a ledger closes with all its events.                        *)
(***************************************************************************)
EXTENDS Integers, FiniteSets

CONSTANTS
    Ledgers,      \* bound on the ledger sequence
    LedgerOf,     \* the ledger of each event
    Kind,         \* what the parser makes of each event
    PageLimit,
    Runs,         \* backend processes, each of which allows one reindex
    Ahead,        \* how far past the last closed ledger an operator asks
    MaxStarts,    \* bound on the stream's connections and the reindexes and backfills asked for
    BatchSize,    \* ledgers in a batch of a backfill
    FetchLimit    \* events a batch asks for, 200

Events == DOMAIN LedgerOf

ASSUME IngestionBounds ==
    /\ Ledgers \in Nat /\ PageLimit \in Nat \ {0} /\ Ahead \in Nat
    /\ BatchSize \in Nat \ {0} /\ FetchLimit \in Nat \ {0}
    /\ MaxStarts \in Nat
    /\ IsFiniteSet(Events)
    /\ LedgerOf \in [1..Cardinality(Events) -> 1..Ledgers]
    /\ \A e, f \in Events : e <= f => LedgerOf[e] <= LedgerOf[f]
    /\ Kind \in [Events -> {"escrow", "other", "unstored", "unknown"}]

VARIABLES
    closed,      \* the last closed ledger
    stored,      \* events in the event tables
    cursor,      \* the stream's row in cursors, 0 for none
    source,      \* the stream's connection
    session,     \* connections opened so far
    task,        \* handleRecord calls in progress, per event and connection
    delivered,   \* events some connection delivered
    checkpoint,  \* indexer_checkpoints, with the ledger its chain of runs began at and the
                 \* ledgers they asked for too early, for the properties
    reindexing,  \* the reindex each process works on
    backfill,    \* activeBackfill, with the events of the batch that are left
    requests     \* reindexes and backfills so far

ingestVars == <<closed, stored, cursor, source, session, task, delivered,
                checkpoint, reindexing, backfill, requests>>

Sessions == 1..MaxStarts
NoCheckpoint == [last |-> 0, token |-> 0, origin |-> 0, early |-> {}]
NoRun == [step |-> "idle"]
Steps == {"fetch", "persist", "save", "finish"}

IngestTypeOK ==
    /\ closed \in 0..Ledgers
    /\ stored \subseteq {e \in Events : LedgerOf[e] <= closed /\ Kind[e] \in {"escrow", "other"}}
    /\ cursor \in {0} \cup Events /\ session \in 0..MaxStarts
    /\ source.open \in BOOLEAN /\ source.at \in {0} \cup Events
    /\ task \in [Events \X Sessions -> {"none", "persist", "save"}]
    /\ delivered \subseteq Events
    /\ checkpoint.token \in {0} \cup Events
    /\ \A r \in Runs : reindexing[r] = NoRun \/ reindexing[r].step \in Steps
    /\ requests \in 0..MaxStarts
    /\ backfill # NoRun => backfill.step \in {"fetch", "persist", "save"} /\ backfill.page \subseteq Events

IngestInit ==
    /\ closed = 0 /\ stored = {} /\ cursor = 0 /\ session = 0
    /\ source = [open |-> FALSE, at |-> 0]
    /\ task = [t \in Events \X Sessions |-> "none"]
    /\ delivered = {}
    /\ checkpoint = NoCheckpoint
    /\ reindexing = [r \in Runs |-> NoRun]
    /\ backfill = NoRun /\ requests = 0

streamVars == <<cursor, source, session, task, delivered>>
reindexVars == <<checkpoint, reindexing, requests>>

OnLedger == {e \in Events : LedgerOf[e] <= closed}
LastEvent == Cardinality(OnLedger)

CloseLedger ==
    /\ closed < Ledgers /\ closed' = closed + 1
    /\ UNCHANGED <<stored, streamVars, reindexVars, backfill>>

\* The event types each reader has a table for; many that the parser knows have none.
storedByStream(e) == Kind[e] = "escrow"
storedByReindex(e) == Kind[e] \in {"escrow", "other"}

-----------------------------------------------------------------------------
(* The stream.                                                             *)

\* It resumes after the cursor, or from "now" when there is none.
openStream ==
    /\ ~source.open /\ session + requests < MaxStarts
    /\ source' = [open |-> TRUE, at |-> IF cursor = 0 THEN LastEvent ELSE cursor]
    /\ session' = session + 1
    /\ UNCHANGED <<closed, stored, cursor, task, delivered, reindexVars, backfill>>

\* onmessage does not wait for the handler it starts.
handleRecord ==
    LET e == source.at + 1
    IN  /\ source.open /\ e \in OnLedger
        /\ source' = [source EXCEPT !.at = e]
        /\ task' = [task EXCEPT ![<<e, session>>] = IF Kind[e] = "unknown" THEN "save" ELSE "persist"]
        /\ delivered' = delivered \cup {e}
        /\ UNCHANGED <<closed, stored, cursor, session, reindexVars, backfill>>

\* A failed insert rejects a promise that nobody awaits.
persistStreamed(t) ==
    /\ task[t] = "persist"
    /\ \/ /\ stored' = IF storedByStream(t[1]) THEN stored \cup {t[1]} ELSE stored
          /\ task' = [task EXCEPT ![t] = "save"]
       \/ /\ task' = [task EXCEPT ![t] = "none"]
          /\ UNCHANGED stored
    /\ UNCHANGED <<closed, cursor, source, session, delivered, reindexVars, backfill>>

\* The cursor is written with the event's own token; a failure is ignored.
safeUpdateCursor(t) ==
    /\ task[t] = "save"
    /\ task' = [task EXCEPT ![t] = "none"]
    /\ cursor' \in {cursor, t[1]}
    /\ UNCHANGED <<closed, stored, source, session, delivered, reindexVars, backfill>>

\* The connection drops; handlers go on, and a reconnect is scheduled.
streamError ==
    /\ source.open
    /\ source' = [source EXCEPT !.open = FALSE]
    /\ UNCHANGED <<closed, stored, cursor, session, task, delivered, reindexVars, backfill>>

-----------------------------------------------------------------------------
(* Reindex runs.                                                           *)

Set(r, run) == reindexing' = [reindexing EXCEPT ![r] = run]

\* A stored checkpoint decides where the run starts unless it is forced; when
\* it lies at or past the end of the range there is nothing to do. Nobody
\* checks that the range has closed.
reindex(r, from, to, force) ==
    /\ reindexing[r] = NoRun /\ session + requests < MaxStarts
    /\ requests' = requests + 1
    /\ LET cp == checkpoint
           resumes == ~force /\ cp # NoCheckpoint
       IN  ~(resumes /\ cp.last >= to /\ cp.token = 0) /\
           Set(r, [step |-> "fetch", to |-> to, page |-> {}, short |-> FALSE, linked |-> TRUE,
                   early |-> ((closed + 1)..to) \cup (IF resumes THEN cp.early ELSE {}),
                   start |-> IF resumes THEN cp.last ELSE from,
                   token |-> IF resumes THEN cp.token ELSE 0,
                   origin |-> IF resumes THEN cp.origin ELSE from])
    /\ UNCHANGED <<closed, stored, streamVars, checkpoint, backfill>>

\* A run that resumes past the ledger it stopped in.
InRangeAfter(run) == {e \in OnLedger : run.start < LedgerOf[e] /\ LedgerOf[e] <= run.to /\ e > run.token}

InRange(run) == {e \in OnLedger : run.start <= LedgerOf[e] /\ LedgerOf[e] <= run.to /\ e > run.token}

fetchPage(run) ==
    {e \in InRange(run) : Cardinality({f \in InRange(run) : f <= e}) <= PageLimit}

\* Fetches are retried, and the run may give up at any of its steps. A short
\* page is the last one, and so is one without a link to the next, which
\* Horizon may leave out when there is none.
fetchPageWithRetry(r) ==
    LET run == reindexing[r]
        page == fetchPage(run)
        short == Cardinality(page) < PageLimit
    IN  /\ run.step = "fetch"
        /\ \E linked \in BOOLEAN :
             /\ linked \/ page = InRange(run)
             /\ Set(r, [run EXCEPT !.step = IF page = {} THEN "finish" ELSE "persist",
                                   !.page = page, !.linked = linked, !.short = short])
        /\ UNCHANGED <<closed, stored, streamVars, checkpoint, requests, backfill>>

Least(page) == CHOOSE e \in page : \A f \in page : e <= f

\* The events of a page are stored one by one, each before the next.
persistEvent(r) ==
    LET run == reindexing[r]
        e == Least(run.page)
    IN  /\ run.step = "persist"
        /\ stored' = IF storedByReindex(e) THEN stored \cup {e} ELSE stored
        /\ Set(r, [run EXCEPT !.page = @ \ {e}, !.token = e,
                              !.step = IF run.page = {e} THEN "save" ELSE "persist"])
        /\ UNCHANGED <<closed, streamVars, checkpoint, requests, backfill>>

\* The checkpoint follows each page.
saveCheckpoint(r) ==
    LET run == reindexing[r]
    IN  /\ run.step = "save"
        /\ checkpoint' = [last |-> LedgerOf[run.token], token |-> IF run.linked THEN run.token ELSE 0,
                          origin |-> run.origin, early |-> run.early]
        /\ Set(r, [run EXCEPT !.step = IF run.short \/ ~run.linked THEN "finish" ELSE "fetch"])
        /\ UNCHANGED <<closed, stored, streamVars, requests, backfill>>

finishRange(r) ==
    LET run == reindexing[r]
    IN  /\ run.step = "finish"
        /\ checkpoint' = [last |-> run.to, token |-> 0, origin |-> run.origin, early |-> run.early]
        /\ Set(r, NoRun)
        /\ UNCHANGED <<closed, stored, streamVars, requests, backfill>>

\* An error that outlives its retries, or a table that refuses a write.
reindexFails(r) ==
    /\ reindexing[r] # NoRun
    /\ Set(r, NoRun)
    /\ UNCHANGED <<closed, stored, streamVars, checkpoint, requests, backfill>>

-----------------------------------------------------------------------------
(* Backfills.  A batch or an event that fails is counted and left behind.  *)

continueBackfill(b) == backfill' = IF b.page # {} THEN [b EXCEPT !.step = "persist"]
                                   ELSE IF b.from + BatchSize > b.end THEN NoRun
                                   ELSE [b EXCEPT !.step = "fetch", !.from = @ + BatchSize]

startBackfill(from, end) ==
    /\ backfill = NoRun /\ session + requests < MaxStarts
    /\ backfill' = [step |-> "fetch", from |-> from, end |-> end, page |-> {}]
    /\ requests' = requests + 1
    /\ UNCHANGED <<closed, stored, streamVars, checkpoint, reindexing>>

\* One request for the whole batch, which may fail; what lies past its limit is not asked for again.
fetchContractEvents ==
    LET asked == {e \in OnLedger : backfill.from <= LedgerOf[e]
                                   /\ LedgerOf[e] <= backfill.end /\ LedgerOf[e] < backfill.from + BatchSize}
    IN  /\ backfill # NoRun /\ backfill.step = "fetch"
        /\ \E page \in {{}, {e \in asked : Cardinality({f \in asked : f <= e}) <= FetchLimit}} :
             continueBackfill([backfill EXCEPT !.page = page])
        /\ UNCHANGED <<closed, stored, streamVars, reindexVars>>

persistBackfilled ==
    LET e == Least(backfill.page)
        left == [backfill EXCEPT !.page = @ \ {e}]
    IN  /\ backfill # NoRun /\ backfill.step = "persist"
        /\ \/ /\ Kind[e] # "unknown"
              /\ stored' = IF storedByStream(e) THEN stored \cup {e} ELSE stored
              /\ backfill' = [backfill EXCEPT !.step = "save"]
           \/ continueBackfill(left) /\ UNCHANGED stored
        /\ UNCHANGED <<closed, streamVars, reindexVars>>

\* The cursor it saves is the stream's.
saveBackfilled ==
    LET e == Least(backfill.page) IN
    /\ backfill # NoRun /\ backfill.step = "save"
    /\ cursor' \in {cursor, e}
    /\ continueBackfill([backfill EXCEPT !.page = @ \ {e}])
    /\ UNCHANGED <<closed, stored, source, session, task, delivered, reindexVars>>

\* The process that streams dies, with what it was working on.
IngestCrash ==
    /\ source' = [source EXCEPT !.open = FALSE]
    /\ task' = [t \in Events \X Sessions |-> "none"]
    /\ \E lost \in SUBSET Runs : reindexing' = [r \in Runs |-> IF r \in lost THEN NoRun ELSE reindexing[r]]
    /\ backfill' = NoRun
    /\ UNCHANGED <<closed, stored, cursor, session, delivered, checkpoint, requests>>

-----------------------------------------------------------------------------
IngestNext ==
    \/ CloseLedger \/ openStream \/ handleRecord \/ streamError \/ IngestCrash
    \/ \E t \in Events \X Sessions : persistStreamed(t) \/ safeUpdateCursor(t)
    \/ \E r \in Runs :
         \/ \E from, to \in (1..(closed + Ahead)) \cap (1..Ledgers), force \in BOOLEAN : reindex(r, from, to, force)
         \/ fetchPageWithRetry(r) \/ persistEvent(r) \/ saveCheckpoint(r) \/ finishRange(r)
         \/ reindexFails(r)
    \/ \E end \in 1..closed : \E from \in 1..end : startBackfill(from, end)
    \/ fetchContractEvents \/ persistBackfilled \/ saveBackfilled

IngestSpec == IngestInit /\ [][IngestNext]_ingestVars

-----------------------------------------------------------------------------
\* A checkpoint never runs ahead of the tables: from the ledger its chain of
\* runs began at up to the token or ledger it names, every event of a type
\* that has a table is stored, whichever runs failed, crashed, were resumed by
\* another process or crossed one another. Ledgers that had not closed when a
\* run of the chain asked for them are the exception: the checkpoint may pass
\* them unread.
CheckpointCovers ==
    \A e \in OnLedger :
        (/\ storedByReindex(e) /\ checkpoint.origin <= LedgerOf[e] /\ LedgerOf[e] \notin checkpoint.early
         /\ IF checkpoint.token = 0 THEN LedgerOf[e] <= checkpoint.last ELSE e <= checkpoint.token)
        => e \in stored

\* "The worst case is re-processing a handful of events on the next restart"
\* (safeUpdateCursor): an escrow event that was delivered is stored, or being
\* handled, or lies ahead of the cursor.
StreamLosesNothing ==
    \A e \in delivered : storedByStream(e) =>
        \/ e \in stored \/ e > cursor
        \/ \E s \in Sessions : task[e, s] # "none"
=============================================================================
