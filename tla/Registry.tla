------------------------------- MODULE Registry -------------------------------
(***************************************************************************)
(* The contract registry: deployments publish builds of a contract and     *)
(* operators roll back to one, through functions of the database that run  *)
(* as transactions under READ COMMITTED.  A call that loses its connection *)
(* is made again, whether or not it had committed.                         *)
(***************************************************************************)
EXTENDS Integers, FiniteSets, FiniteSetsExt

CONSTANTS
    Publishers,     \* calls of publish and rollback that run at the same time
    Builds,         \* contract versions a deployment may carry
    MaxRows,        \* bound on the rows of the contract
    MaxVersion,     \* bound on the registry version
    MaxRetries      \* of retryOperation

ASSUME RegistryBounds == MaxVersion \in Nat /\ MaxRows \in Nat /\ MaxRetries \in Nat

VARIABLES
    rows,            \* contract_registry_entries of the contract; a row is known by its id
    calls,           \* what each call is about to do
    fallbackVersion  \* of the process that makes the calls

regVars == <<rows, calls, fallbackVersion>>

Versions == 0..MaxVersion
EntryRow == [id : 1..MaxRows, build : Builds, version : Versions, active : BOOLEAN]
AtRest == [step |-> "idle", build |-> CHOOSE b \in Builds : TRUE, expected |-> 0, max |-> 0,
           seen |-> {}, target |-> 0, tries |-> 0]

RegTypeOK ==
    /\ rows \subseteq EntryRow
    /\ \A q \in Publishers :
         /\ calls[q].step \in {"idle", "publish", "rollback", "deactivate", "activate", "insert", "switch"}
         /\ calls[q].build \in Builds /\ calls[q].seen \subseteq 1..MaxRows
         /\ {calls[q].expected, calls[q].max} \subseteq Versions
         /\ calls[q].target \in 0..MaxRows /\ calls[q].tries \in 0..MaxRetries
    /\ fallbackVersion \in Versions

RegInit ==
    /\ rows = {} /\ fallbackVersion = 0
    /\ calls = [q \in Publishers |-> AtRest]

-----------------------------------------------------------------------------
goes(q, c) == calls' = [calls EXCEPT ![q] = c]

maxVersion == Max({r.version : r \in rows} \cup {0})
activeIds == {r.id : r \in {x \in rows : x.active}}

\* The caller's view: the rows, or nothing when the database is down, and its own version.
publish(q, b) ==
    /\ calls[q].step = "idle"
    /\ \E read \in {maxVersion, 0} :
         goes(q, [AtRest EXCEPT !.step = "publish", !.build = b, !.expected = Max({read, fallbackVersion})])
    /\ UNCHANGED <<rows, fallbackVersion>>

rollback(q, b) ==
    /\ calls[q].step = "idle"
    /\ goes(q, [AtRest EXCEPT !.step = "rollback", !.build = b])
    /\ UNCHANGED <<rows, fallbackVersion>>

\* publish_contract_registry: the version is compared before anything is locked.
checkVersion(q) ==
    /\ calls[q].step = "publish"
    /\ goes(q, IF maxVersion = calls[q].expected
               THEN [calls[q] EXCEPT !.step = "deactivate", !.max = maxVersion] ELSE AtRest)
    /\ UNCHANGED <<rows, fallbackVersion>>

\* The UPDATE sees the rows that are committed when it starts.
deactivate(q) ==
    /\ calls[q].step = "deactivate"
    /\ goes(q, [calls[q] EXCEPT !.step = "insert", !.seen = activeIds])
    /\ UNCHANGED <<rows, fallbackVersion>>

\* rollback_contract_registry: any row of the build may be the target.
findTarget(q) ==
    /\ calls[q].step = "rollback"
    /\ LET ofBuild == {r \in rows : r.build = calls[q].build} IN
       IF ofBuild = {} THEN goes(q, AtRest)
       ELSE \E r \in ofBuild :
              goes(q, [calls[q] EXCEPT !.step = "activate", !.target = r.id, !.max = maxVersion])
    /\ UNCHANGED <<rows, fallbackVersion>>

deactivateAll(q) ==
    /\ calls[q].step = "activate"
    /\ goes(q, [calls[q] EXCEPT !.step = "switch", !.seen = {r.id : r \in rows}])
    /\ UNCHANGED <<rows, fallbackVersion>>

\* Without the index nothing conflicts.
neverConflicts(q) == FALSE

\* The unique index: a row another transaction activated meanwhile makes this one fail.
conflicts(q) == ~(activeIds \subseteq calls[q].seen)

deactivated(ids) == {IF r.id \in ids THEN [r EXCEPT !.active = FALSE] ELSE r : r \in rows}

inserted(q) == deactivated(calls[q].seen) \cup
    {[id |-> Cardinality(rows) + 1, build |-> calls[q].build, version |-> calls[q].max + 1, active |-> TRUE]}

switched(q) == {IF r.id = calls[q].target THEN [r EXCEPT !.active = TRUE, !.version = calls[q].max + 1] ELSE r :
                  r \in deactivated(calls[q].seen)}

\* After a lost connection the function is called again.
again(q, first) == goes(q, IF calls[q].tries < MaxRetries
                           THEN [calls[q] EXCEPT !.step = first, !.seen = {}, !.tries = @ + 1] ELSE AtRest)

commitPublish(q) ==
    /\ calls[q].step = "insert" /\ Cardinality(rows) < MaxRows /\ calls[q].max < MaxVersion
    /\ IF conflicts(q)
       THEN goes(q, AtRest) /\ UNCHANGED <<rows, fallbackVersion>>
       ELSE /\ rows' = inserted(q)
            /\ \/ goes(q, AtRest) /\ fallbackVersion' = calls[q].max + 1
               \/ again(q, "publish") /\ UNCHANGED fallbackVersion

commitRollback(q) ==
    /\ calls[q].step = "switch" /\ calls[q].max < MaxVersion
    /\ IF conflicts(q)
       THEN goes(q, AtRest) /\ UNCHANGED <<rows, fallbackVersion>>
       ELSE /\ rows' = switched(q)
            /\ \/ /\ goes(q, AtRest) /\ fallbackVersion' = Max({fallbackVersion, calls[q].max + 1})
               \/ again(q, "rollback") /\ UNCHANGED fallbackVersion

\* The connection is lost before the commit.
loseCall(q) ==
    /\ calls[q].step # "idle"
    /\ again(q, IF calls[q].step \in {"publish", "deactivate", "insert"} THEN "publish" ELSE "rollback")
    /\ UNCHANGED <<rows, fallbackVersion>>

RegNext ==
    \E q \in Publishers :
      \/ \E b \in Builds : publish(q, b) \/ rollback(q, b)
      \/ checkVersion(q) \/ deactivate(q) \/ commitPublish(q)
      \/ findTarget(q) \/ deactivateAll(q) \/ commitRollback(q) \/ loseCall(q)

RegSpec == RegInit /\ [][RegNext]_regVars

-----------------------------------------------------------------------------
\* Once a contract is published the registry always names exactly one build of it, whatever
\* publishes and rollbacks overlap and whichever of them lose their connection (the two functions
\* deactivate and activate in one transaction).
AlwaysOneBuild == rows # {} => Cardinality(activeIds) = 1
=============================================================================
