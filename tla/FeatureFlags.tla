----------------------------- MODULE FeatureFlags -----------------------------
(***************************************************************************)
(* Feature flags and the gates that ask them.  Every process keeps a copy  *)
(* of the table for a while, falls back to the flags it was built with     *)
(* when the table does not answer, and updates a flag by writing back the  *)
(* whole record it has a copy of.                                          *)
(***************************************************************************)
EXTENDS Integers

CONSTANTS
    FlagProcs,     \* backend processes
    Flags,
    Edited,        \* the flags operators change
    BuiltOn,       \* the flags DEFAULT_FLAGS turns on, testnet.contract_writes among them
    WriteFlag,     \* testnet.contract_writes
    NoCopy,        \* no cache, no load and no update under way
    FlagTtl,       \* featureFlagsCacheTtlMs, in ticks
    MaxFlagTime,   \* bound on the clock
    MaxFlagWrites  \* bound on the updates

ASSUME FlagBounds ==
    /\ BuiltOn \subseteq Flags /\ Edited \subseteq Flags /\ WriteFlag \in BuiltOn
    /\ FlagTtl \in Nat /\ MaxFlagTime \in Nat /\ MaxFlagWrites \in Nat

VARIABLES
    testnet,   \* the network of the deployment
    flagRows,    \* feature_flags; NoCopy for a flag without a row
    cache,     \* what each process keeps
    loading,   \* answers of the table on their way to a process
    updating,  \* the update each process is at: its record, when it was written, what was read after
    passed,    \* whether the last request a gate decided was let through
    lastOn,    \* when the table last had a flag on, for the properties; -1 for never
    flagClock,
    flagWrites

flagVars == <<testnet, flagRows, cache, loading, updating, passed, lastOn, flagClock, flagWrites>>

Flag == [enabled : BOOLEAN, kill : BOOLEAN]
AskedAt == [Flags \ BuiltOn -> 0..MaxFlagTime]   \* when the table was asked, or told, of a flag
Copy == [flags : [Flags -> Flag], asOf : AskedAt, expiresAt : 0..(MaxFlagTime + FlagTtl)]
FlagUpdate == [step : {"write", "reload"}, key : Flags, next : Flag, at : 0..MaxFlagTime]
              \cup [step : {"keep"}, copy : Copy]

FlagTypeOK ==
    /\ testnet \in BOOLEAN
    /\ flagRows \in [Flags -> Flag \cup {NoCopy}]
    /\ cache \in [FlagProcs -> Copy \cup {NoCopy}]
    /\ loading \in [FlagProcs -> Copy \cup {NoCopy}]
    /\ updating \in [FlagProcs -> FlagUpdate \cup {NoCopy}]
    /\ passed \in BOOLEAN
    /\ lastOn \in [Flags -> -1..MaxFlagTime]
    /\ flagClock \in 0..MaxFlagTime /\ flagWrites \in 0..MaxFlagWrites

FlagInit ==
    /\ testnet \in BOOLEAN
    /\ flagRows = [f \in Flags |-> NoCopy]
    /\ cache = [p \in FlagProcs |-> NoCopy]
    /\ loading = [p \in FlagProcs |-> NoCopy]
    /\ updating = [p \in FlagProcs |-> NoCopy]
    /\ passed = FALSE
    /\ lastOn = [f \in Flags |-> -1]
    /\ flagClock = 0 /\ flagWrites = 0

-----------------------------------------------------------------------------
(* Copies.  Rollout, environments and allow lists are left out: they only  *)
(* narrow what an enabled flag without a kill switch lets through.         *)

getBootstrapFlags == [f \in Flags |-> [enabled |-> f \in BuiltOn, kill |-> FALSE]]

\* Rows win over the built-in records of the same key.
mergeFlags == [f \in Flags |-> IF flagRows[f] = NoCopy THEN getBootstrapFlags[f] ELSE flagRows[f]]

renewed(copy) == [copy EXCEPT !.expiresAt = flagClock + FlagTtl]

readNow(flags) ==
    [flags |-> flags, asOf |-> [f \in Flags \ BuiltOn |-> flagClock], expiresAt |-> flagClock + FlagTtl]

isFresh(p) == cache[p] # NoCopy /\ cache[p].expiresAt > flagClock

evaluateFlag(flags, f) == ~flags[f].kill /\ flags[f].enabled

\* The table is read, or does not answer; the answer is put in the cache later.
loadFlags(p) ==
    /\ loading[p] = NoCopy /\ (testnet \/ ~isFresh(p))
    /\ \E flags \in {mergeFlags, getBootstrapFlags} :
         loading' = [loading EXCEPT ![p] = readNow(flags)]
    /\ UNCHANGED <<testnet, flagRows, cache, updating, passed, lastOn, flagClock, flagWrites>>

cacheFlags(p) ==
    /\ loading[p] # NoCopy
    /\ cache' = [cache EXCEPT ![p] = renewed(loading[p])]
    /\ loading' = [loading EXCEPT ![p] = NoCopy]

-----------------------------------------------------------------------------
(* Gates.                                                                  *)

\* Contract writes on testnet wait for a fresh load.
needsFresh(f) == testnet /\ f = WriteFlag

\* A gate asks nothing on testnet but the write switch, on mainnet anything but the write switch.
isOpenRoute(f) == testnet # (f = WriteFlag)

canActivate(p, f) ==
    /\ IF isOpenRoute(f)
       THEN passed' = TRUE /\ UNCHANGED <<cache, loading>>
       ELSE \/ ~needsFresh(f) /\ isFresh(p)
               /\ passed' = evaluateFlag(cache[p].flags, f) /\ UNCHANGED <<cache, loading>>
            \/ cacheFlags(p) /\ passed' = evaluateFlag(loading[p].flags, f)
    /\ UNCHANGED <<testnet, flagRows, updating, lastOn, flagClock, flagWrites>>

-----------------------------------------------------------------------------
(* Updates.                                                                *)

patches(flag) == {[flag EXCEPT !.enabled = b] : b \in BOOLEAN} \cup {[flag EXCEPT !.kill = b] : b \in BOOLEAN}

\* The record to change comes from the copy, of whatever age.
readCurrent(p, f) ==
    /\ updating[p] = NoCopy /\ isFresh(p) /\ flagWrites < MaxFlagWrites
    /\ flagWrites' = flagWrites + 1
    /\ \E next \in patches(cache[p].flags[f]) :
         updating' = [updating EXCEPT ![p] = [step |-> "write", key |-> f, next |-> next, at |-> 0]]
    /\ UNCHANGED <<testnet, flagRows, cache, loading, passed, lastOn, flagClock>>

\* Mutant: an error of the store is not thrown.
upsertFlagUnchecked(p) ==
    /\ updating[p] # NoCopy /\ updating[p].step = "write"
    /\ updating' = [updating EXCEPT ![p] =
                      [step |-> "reload", key |-> @.key, next |-> @.next, at |-> flagClock]]
    /\ UNCHANGED <<testnet, flagRows, lastOn, cache, loading, passed, flagClock, flagWrites>>

\* The row is written, and the process told so or not; or it is not written.
upsertFlag(p) ==
    LET f == updating[p].key
        next == updating[p].next
        told == [step |-> "reload", key |-> f, next |-> next, at |-> flagClock]
    IN
    /\ updating[p] # NoCopy /\ updating[p].step = "write"
    /\ \/ /\ flagRows' = [flagRows EXCEPT ![f] = next]
          /\ lastOn' = IF next.enabled /\ ~next.kill THEN [lastOn EXCEPT ![f] = flagClock] ELSE lastOn
          /\ updating' \in {[updating EXCEPT ![p] = told], [updating EXCEPT ![p] = NoCopy]}
       \/ updating' = [updating EXCEPT ![p] = NoCopy] /\ UNCHANGED <<flagRows, lastOn>>
    /\ UNCHANGED <<testnet, cache, loading, passed, flagClock, flagWrites>>

\* Its record replaces whatever the copy says of the flag.
withWritten(copy, update) ==
    [copy EXCEPT !.flags[update.key] = update.next, !.asOf[update.key] = update.at]

\* Told so, it asks for the flags: a copy that is still fresh is patched at once; or else the table is
\* read (or does not answer), and the answer is patched and kept when it arrives.
updateFlag(p) ==
    LET update == updating[p] IN
    /\ update # NoCopy
    /\ \/ /\ update.step = "reload" /\ isFresh(p)
          /\ cache' = [cache EXCEPT ![p] = renewed(withWritten(cache[p], update))]
          /\ updating' = [updating EXCEPT ![p] = NoCopy]
       \/ /\ update.step = "reload" /\ ~isFresh(p)
          /\ \E flags \in {mergeFlags, getBootstrapFlags} :
               updating' = [updating EXCEPT ![p] = [step |-> "keep", copy |-> withWritten(readNow(flags), update)]]
          /\ UNCHANGED cache
       \/ /\ update.step = "keep"
          /\ cache' = [cache EXCEPT ![p] = renewed(update.copy)]
          /\ updating' = [updating EXCEPT ![p] = NoCopy]
    /\ UNCHANGED <<testnet, flagRows, lastOn, loading, passed, flagClock, flagWrites>>

-----------------------------------------------------------------------------
(* The world.                                                              *)

FlagTick ==
    /\ flagClock < MaxFlagTime
    /\ flagClock' = flagClock + 1
    /\ lastOn' = [f \in Flags |-> IF flagRows[f] # NoCopy /\ evaluateFlag(flagRows, f) THEN flagClock + 1 ELSE lastOn[f]]
    /\ UNCHANGED <<testnet, flagRows, cache, loading, updating, passed, flagWrites>>

FlagNext ==
    \/ \E p \in FlagProcs : loadFlags(p) \/ upsertFlag(p) \/ updateFlag(p)
    \/ \E p \in FlagProcs, f \in Edited : readCurrent(p, f)
    \/ \E p \in FlagProcs, f \in Flags : canActivate(p, f)
    \/ FlagTick

FlagSpec == FlagInit /\ [][FlagNext]_flagVars

-----------------------------------------------------------------------------
\* A flag that is built off is open in a copy only if the table had it open at or after the time its
\* record there dates from, which is when the table was read (loadFlags) or, for a flag the process has
\* updated itself, when it wrote the row (updateFlag): an outage, a load that arrives late, a failed
\* update or the renewal of a copy never opens a mainnet gate that no operator opened. An update's record
\* wins over what is read after it, so that a kill in between does not show before the copy expires.
OpenWasOpened ==
    \A p \in FlagProcs, f \in Flags \ BuiltOn :
      cache[p] # NoCopy /\ evaluateFlag(cache[p].flags, f) => lastOn[f] >= cache[p].asOf[f]
=============================================================================
