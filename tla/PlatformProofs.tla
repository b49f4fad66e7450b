--------------------------- MODULE PlatformProofs ---------------------------
(***************************************************************************)
(* Proofs about the services that MCPlatform runs side by side: feature    *)
(* flags, API keys, login sessions, study rooms, the registry,             *)
(* reconciliation, notifications, cursor pages and ingestion, each for any *)
(* number of its rows, calls and processes at once.                        *)
(***************************************************************************)
EXTENDS Ingestion, Notifications, FeatureFlags, Registry, Reconciliation, ApiKeys,
        CursorPages, AuthSessions, StudyRooms, SumProofs, TLAPS

-----------------------------------------------------------------------------
(* FeatureFlags, for any life of a copy. A copy is honest when each flag     *)
(* built off that it has open was open in the table at or after the time the *)
(* copy was read. Copies are on their way, in the cache, and changed by an   *)
(* update; lastOn only grows, so a copy once honest stays so, and a row that *)
(* is open now makes every copy read from it honest.                         *)

BuiltOff == Flags \ BuiltOn

Honest(copy, on) == \A f \in BuiltOff : evaluateFlag(copy.flags, f) => on[f] >= copy.asOf[f]

IsCopy(copy, now) ==
    /\ copy = [flags |-> copy.flags, asOf |-> copy.asOf, expiresAt |-> copy.expiresAt]
    /\ copy.flags \in [Flags -> Flag] /\ copy.asOf \in [BuiltOff -> Int]
    /\ \A f \in BuiltOff : copy.asOf[f] <= now

HonestCopies(copies, on, now) ==
    \A p \in FlagProcs : copies[p] # NoCopy => IsCopy(copies[p], now) /\ Honest(copies[p], on)

\* What an update has written was in the table then; what it will keep is honest.
HonestUpdate(update, on, now) ==
    /\ update.step \in {"write", "reload", "keep"}
    /\ update.step \in {"write", "reload"} =>
         /\ update = [step |-> update.step, key |-> update.key, next |-> update.next, at |-> update.at]
         /\ update.key \in Flags /\ update.next \in Flag
    /\ update.step = "reload" =>
         /\ update.at \in Int /\ update.at <= now
         /\ update.next.enabled /\ ~update.next.kill => on[update.key] >= update.at
    /\ update.step = "keep" => IsCopy(update.copy, now) /\ Honest(update.copy, on)

HonestUpdates(updates, on, now) ==
    \A p \in FlagProcs : updates[p] # NoCopy => HonestUpdate(updates[p], on, now)

ByProcess(fn) == fn = [q \in FlagProcs |-> fn[q]]

FlagShape ==
    /\ flagRows \in [Flags -> Flag \cup {NoCopy}]
    /\ ByProcess(cache) /\ ByProcess(loading) /\ ByProcess(updating)
    /\ lastOn \in [Flags -> Int] /\ flagClock \in Int

\* What the table has open is counted as open now; nothing was open in the future.
TableCounted ==
    \A f \in Flags :
        /\ lastOn[f] <= flagClock
        /\ flagRows[f] # NoCopy /\ evaluateFlag(flagRows, f) => lastOn[f] = flagClock

AllHonest(on, now) ==
    HonestCopies(cache, on, now) /\ HonestCopies(loading, on, now) /\ HonestUpdates(updating, on, now)

FlagInv == FlagShape /\ TableCounted /\ AllHonest(lastOn, flagClock)

-----------------------------------------------------------------------------
LEMMA SameAt ==
    ASSUME NEW fn, ByProcess(fn), NEW p \in FlagProcs
    PROVE  fn = [fn EXCEPT ![p] = fn[p]]
  <1>1. DOMAIN fn = FlagProcs
    BY DEF ByProcess
  <1>2. [fn EXCEPT ![p] = fn[p]] = [q \in FlagProcs |-> fn[q]]
    BY <1>1
  <1>. QED BY <1>2 DEF ByProcess

LEMMA ChangedAt ==
    ASSUME NEW fn, ByProcess(fn), NEW p \in FlagProcs, NEW value, NEW new, new = [fn EXCEPT ![p] = value]
    PROVE  ByProcess(new)
  <1>1. DOMAIN fn = FlagProcs
    BY DEF ByProcess
  <1>2. new = [q \in FlagProcs |-> new[q]]
    BY <1>1
  <1>. QED BY <1>1, <1>2 DEF ByProcess

LEMMA BuiltFlags ==
    /\ getBootstrapFlags \in [Flags -> Flag]
    /\ \A f \in BuiltOff : ~evaluateFlag(getBootstrapFlags, f)
  <1>1. ASSUME NEW f \in Flags
        PROVE  /\ getBootstrapFlags[f] \in Flag
               /\ getBootstrapFlags[f].enabled = (f \in BuiltOn)
    <2>1. getBootstrapFlags[f] = [enabled |-> f \in BuiltOn, kill |-> FALSE]
      BY DEF getBootstrapFlags
    <2>2. getBootstrapFlags[f] \in Flag
      BY <2>1, (f \in BuiltOn) \in BOOLEAN DEF Flag
    <2>. QED BY <2>1, <2>2
  <1>2. getBootstrapFlags \in [Flags -> Flag]
    <2>1. getBootstrapFlags = [f \in Flags |-> getBootstrapFlags[f]]
      BY DEF getBootstrapFlags
    <2>. QED BY <1>1, <2>1
  <1>3. \A f \in BuiltOff : ~evaluateFlag(getBootstrapFlags, f)
    BY <1>1 DEF BuiltOff, evaluateFlag
  <1>. QED BY <1>2, <1>3

(* A copy read now is honest, whether the table answered or not. *)
LEMMA ReadIsHonest ==
    ASSUME FlagShape, TableCounted, NEW flags \in {mergeFlags, getBootstrapFlags}
    PROVE  IsCopy(readNow(flags), flagClock) /\ Honest(readNow(flags), lastOn)
  <1>1. flags \in [Flags -> Flag]
    BY BuiltFlags DEF mergeFlags, FlagShape
  <1>2. ASSUME NEW f \in BuiltOff, evaluateFlag(flags, f)
        PROVE  lastOn[f] = flagClock
    <2>1. f \in Flags /\ ~evaluateFlag(getBootstrapFlags, f)
      BY BuiltFlags DEF BuiltOff
    <2>2. flags = mergeFlags
      BY <1>2, <2>1
    <2>3. flagRows[f] # NoCopy /\ evaluateFlag(flagRows, f)
      BY <1>2, <2>1, <2>2 DEF mergeFlags, evaluateFlag
    <2>. QED BY <2>1, <2>3 DEF TableCounted
  <1>3. /\ readNow(flags).flags = flags
        /\ readNow(flags).asOf = [f \in BuiltOff |-> flagClock]
    BY DEF readNow, BuiltOff
  <1>4. flagClock \in Int
    BY DEF FlagShape
  <1>5. IsCopy(readNow(flags), flagClock)
    <2>1. readNow(flags) = [flags |-> readNow(flags).flags, asOf |-> readNow(flags).asOf,
                            expiresAt |-> readNow(flags).expiresAt]
      BY DEF readNow
    <2>. QED BY <1>1, <1>3, <1>4, <2>1 DEF IsCopy
  <1>. QED BY <1>2, <1>3, <1>4, <1>5 DEF Honest

(* Renewing a copy, which changes no record and no date, keeps it honest. *)
LEMMA RenewedIsHonest ==
    ASSUME NEW copy, IsCopy(copy, flagClock), NEW on, Honest(copy, on)
    PROVE  IsCopy(renewed(copy), flagClock) /\ Honest(renewed(copy), on)
  <1>1. renewed(copy) = [flags |-> copy.flags, asOf |-> copy.asOf, expiresAt |-> flagClock + FlagTtl]
    BY DEF IsCopy, renewed
  <1>. QED BY <1>1 DEF IsCopy, Honest

(* So does a record that dates from when it was written. *)
LEMMA WrittenIsHonest ==
    ASSUME NEW copy, IsCopy(copy, flagClock), NEW on, Honest(copy, on),
           NEW update, update.step = "reload", HonestUpdate(update, on, flagClock)
    PROVE  IsCopy(withWritten(copy, update), flagClock) /\ Honest(withWritten(copy, update), on)
  <1>1. PICK f, next, at : f = update.key /\ next = update.next /\ at = update.at
    OBVIOUS
  <1>2. /\ f \in Flags /\ next \in Flag /\ at \in Int /\ at <= flagClock
        /\ next.enabled /\ ~next.kill => on[f] >= at
    BY <1>1 DEF HonestUpdate
  <1>3. PICK new : new = withWritten(copy, update)
    OBVIOUS
  <1>4. new = [flags |-> [copy.flags EXCEPT ![f] = next], asOf |-> [copy.asOf EXCEPT ![f] = at],
               expiresAt |-> copy.expiresAt]
    BY <1>1, <1>3 DEF IsCopy, withWritten
  <1>5. /\ new.flags \in [Flags -> Flag] /\ new.flags[f] = next
        /\ \A g \in Flags : g # f => new.flags[g] = copy.flags[g]
    BY <1>2, <1>4 DEF IsCopy
  <1>6. /\ new.asOf \in [BuiltOff -> Int]
        /\ \A g \in BuiltOff : new.asOf[g] = IF g = f THEN at ELSE copy.asOf[g]
    BY <1>2, <1>4 DEF IsCopy
  <1>7. IsCopy(new, flagClock)
    BY <1>2, <1>4, <1>5, <1>6 DEF IsCopy
  <1>8. ASSUME NEW g \in BuiltOff, evaluateFlag(new.flags, g) PROVE on[g] >= new.asOf[g]
    <2>1. g \in Flags
      BY DEF BuiltOff
    <2>2. CASE g = f
      BY <1>2, <1>5, <1>6, <1>8, <2>2 DEF evaluateFlag
    <2>3. CASE g # f
      <3>1. evaluateFlag(copy.flags, g)
        BY <1>5, <1>8, <2>1, <2>3 DEF evaluateFlag
      <3>. QED BY <1>6, <2>3, <3>1 DEF Honest
    <2>. QED BY <2>2, <2>3
  <1>. QED BY <1>3, <1>7, <1>8 DEF Honest

LEMMA PatchIsFlag ==
    ASSUME NEW flag \in Flag, NEW next \in patches(flag)
    PROVE  next \in Flag
  BY DEF patches, Flag

(* While the clock does not go back and a flag is not counted open earlier,   *)
(* what is honest stays so.                                                   *)
Later(on, now) ==
    /\ flagClock \in Int /\ now \in Int /\ flagClock <= now
    /\ \A f \in Flags : lastOn[f] \in Int /\ on[f] \in Int /\ lastOn[f] <= on[f]

LEMMA CopyStaysHonest ==
    ASSUME NEW on, NEW now, Later(on, now), NEW copy, IsCopy(copy, flagClock), Honest(copy, lastOn)
    PROVE  IsCopy(copy, now) /\ Honest(copy, on)
  <1>1. \A f \in BuiltOff : f \in Flags /\ copy.asOf[f] \in Int
    BY DEF BuiltOff, IsCopy
  <1>. QED BY <1>1 DEF Later, IsCopy, Honest

LEMMA UpdateStaysHonest ==
    ASSUME NEW on, NEW now, Later(on, now), NEW update, HonestUpdate(update, lastOn, flagClock)
    PROVE  HonestUpdate(update, on, now)
  <1>1. update.step = "keep" => IsCopy(update.copy, now) /\ Honest(update.copy, on)
    BY CopyStaysHonest DEF HonestUpdate
  <1>2. update.step = "reload" =>
          /\ update.at \in Int /\ update.at <= now
          /\ update.next.enabled /\ ~update.next.kill => on[update.key] >= update.at
    BY DEF HonestUpdate, Later
  <1>. QED BY <1>1, <1>2 DEF HonestUpdate

-----------------------------------------------------------------------------
(* What a step of one process has to show: its own records, the clock and the *)
(* table's history do the rest.                                               *)
LEMMA HonestStep ==
    ASSUME FlagInv, NEW p \in FlagProcs, NEW on, NEW now, on = lastOn', now = flagClock',
           Later(on, now), flagRows' \in [Flags -> Flag \cup {NoCopy}], lastOn' \in [Flags -> Int], TableCounted',
           NEW copy, NEW load, NEW update,
           cache' = [cache EXCEPT ![p] = copy], loading' = [loading EXCEPT ![p] = load],
           updating' = [updating EXCEPT ![p] = update],
           copy \notin {cache[p], NoCopy} => IsCopy(copy, now) /\ Honest(copy, on),
           load \notin {loading[p], NoCopy} => IsCopy(load, now) /\ Honest(load, on),
           update \notin {updating[p], NoCopy} => HonestUpdate(update, on, now)
    PROVE  FlagInv'
  <1>1. FlagShape /\ AllHonest(lastOn, flagClock)
    BY DEF FlagInv
  <1>2. \A q \in FlagProcs : /\ cache'[q] = IF q = p THEN copy ELSE cache[q]
                             /\ loading'[q] = IF q = p THEN load ELSE loading[q]
                             /\ updating'[q] = IF q = p THEN update ELSE updating[q]
    <2>1. DOMAIN cache = FlagProcs /\ DOMAIN loading = FlagProcs /\ DOMAIN updating = FlagProcs
      BY <1>1 DEF FlagShape, ByProcess
    <2>. QED BY <2>1
  <1>3. ASSUME NEW q \in FlagProcs, NEW one \in {cache[q], loading[q]}, one # NoCopy
        PROVE  IsCopy(one, now) /\ Honest(one, on)
    <2>1. IsCopy(one, flagClock) /\ Honest(one, lastOn)
      BY <1>1, <1>3 DEF AllHonest, HonestCopies
    <2>. QED BY <2>1, CopyStaysHonest
  <1>4. ASSUME NEW q \in FlagProcs, updating[q] # NoCopy
        PROVE  HonestUpdate(updating[q], on, now)
    <2>1. HonestUpdate(updating[q], lastOn, flagClock)
      BY <1>1, <1>4 DEF AllHonest, HonestUpdates
    <2>. QED BY <2>1, UpdateStaysHonest
  <1>5. HonestCopies(cache', on, now)
    BY <1>2, <1>3 DEF HonestCopies
  <1>6. HonestCopies(loading', on, now)
    BY <1>2, <1>3 DEF HonestCopies
  <1>7. HonestUpdates(updating', on, now)
    BY <1>2, <1>4 DEF HonestUpdates
  <1>8. FlagShape'
    <2>1. ByProcess(cache) /\ ByProcess(loading) /\ ByProcess(updating)
      BY <1>1 DEF FlagShape
    <2>2. ByProcess(cache')
      BY <2>1, ChangedAt
    <2>3. ByProcess(loading')
      BY <2>1, ChangedAt
    <2>4. ByProcess(updating')
      BY <2>1, ChangedAt
    <2>. QED BY <2>2, <2>3, <2>4 DEF FlagShape, ByProcess, Later
  <1>. QED BY <1>5, <1>6, <1>7, <1>8 DEF FlagInv, AllHonest

(* Most steps leave the table, its history and the clock alone. *)
LEMMA QuietStep ==
    ASSUME FlagInv, NEW p \in FlagProcs, UNCHANGED <<flagRows, lastOn, flagClock>>,
           NEW copy, NEW load, NEW update,
           cache' = [cache EXCEPT ![p] = copy], loading' = [loading EXCEPT ![p] = load],
           updating' = [updating EXCEPT ![p] = update],
           copy \notin {cache[p], NoCopy} => IsCopy(copy, flagClock) /\ Honest(copy, lastOn),
           load \notin {loading[p], NoCopy} => IsCopy(load, flagClock) /\ Honest(load, lastOn),
           update \notin {updating[p], NoCopy} => HonestUpdate(update, lastOn, flagClock)
    PROVE  FlagInv'
  <1>1. FlagShape /\ TableCounted
    BY DEF FlagInv
  <1>2. Later(lastOn, flagClock)
    BY <1>1 DEF FlagShape, Later
  <1>3. TableCounted'
    BY <1>1 DEF TableCounted, evaluateFlag
  <1>. QED BY <1>1, <1>2, <1>3, HonestStep DEF FlagShape

LEMMA LoadKeeps ==
    ASSUME FlagInv, NEW p \in FlagProcs, loadFlags(p)
    PROVE  FlagInv'
  <1>1. PICK flags \in {mergeFlags, getBootstrapFlags} : loading' = [loading EXCEPT ![p] = readNow(flags)]
    BY DEF loadFlags
  <1>2. PICK load : load = readNow(flags)
    OBVIOUS
  <1>3. IsCopy(load, flagClock) /\ Honest(load, lastOn)
    BY <1>2, ReadIsHonest DEF FlagInv
  <1>4. UNCHANGED <<flagRows, cache, updating, lastOn, flagClock>>
    BY DEF loadFlags
  <1>5. cache' = [cache EXCEPT ![p] = cache[p]] /\ updating' = [updating EXCEPT ![p] = updating[p]]
    BY <1>4, SameAt DEF FlagInv, FlagShape
  <1>. QED BY <1>1, <1>2, <1>3, <1>4, <1>5, QuietStep

LEMMA GateKeeps ==
    ASSUME FlagInv, NEW p \in FlagProcs, NEW f \in Flags, canActivate(p, f)
    PROVE  FlagInv'
  <1>1. UNCHANGED <<flagRows, updating, lastOn, flagClock>>
    BY DEF canActivate
  <1>2. cacheFlags(p) \/ UNCHANGED <<cache, loading>>
    BY DEF canActivate
  <1>3. updating' = [updating EXCEPT ![p] = updating[p]]
    BY <1>1, SameAt DEF FlagInv, FlagShape
  <1>4. CASE UNCHANGED <<cache, loading>>
    <2>1. cache' = [cache EXCEPT ![p] = cache[p]] /\ loading' = [loading EXCEPT ![p] = loading[p]]
      BY <1>4, SameAt DEF FlagInv, FlagShape
    <2>. QED BY <1>1, <1>3, <2>1, QuietStep
  <1>5. CASE cacheFlags(p)
    <2>1. PICK copy : copy = renewed(loading[p])
      OBVIOUS
    <2>2. /\ loading[p] # NoCopy
          /\ cache' = [cache EXCEPT ![p] = copy] /\ loading' = [loading EXCEPT ![p] = NoCopy]
      BY <1>5, <2>1 DEF cacheFlags
    <2>3. IsCopy(loading[p], flagClock) /\ Honest(loading[p], lastOn)
      BY <2>2 DEF FlagInv, AllHonest, HonestCopies
    <2>4. IsCopy(copy, flagClock) /\ Honest(copy, lastOn)
      BY <2>1, <2>3, RenewedIsHonest
    <2>. QED BY <1>1, <1>3, <2>2, <2>4, QuietStep
  <1>. QED BY <1>2, <1>4, <1>5

LEMMA EditKeeps ==
    ASSUME FlagInv, NEW p \in FlagProcs, NEW f \in Edited, readCurrent(p, f)
    PROVE  FlagInv'
  <1>1. f \in Flags
    BY FlagBounds
  <1>2. PICK next \in patches(cache[p].flags[f]) :
          updating' = [updating EXCEPT ![p] = [step |-> "write", key |-> f, next |-> next, at |-> 0]]
    BY DEF readCurrent
  <1>3. cache[p] # NoCopy /\ UNCHANGED <<flagRows, cache, loading, lastOn, flagClock>>
    BY DEF readCurrent, isFresh
  <1>4. cache[p].flags[f] \in Flag
    BY <1>1, <1>3 DEF FlagInv, AllHonest, HonestCopies, IsCopy
  <1>5. next \in Flag
    BY <1>4, PatchIsFlag
  <1>6. PICK update : update = [step |-> "write", key |-> f, next |-> next, at |-> 0]
    OBVIOUS
  <1>7. HonestUpdate(update, lastOn, flagClock)
    BY <1>1, <1>5, <1>6 DEF HonestUpdate
  <1>8. cache' = [cache EXCEPT ![p] = cache[p]] /\ loading' = [loading EXCEPT ![p] = loading[p]]
    BY <1>3, SameAt DEF FlagInv, FlagShape
  <1>. QED BY <1>2, <1>3, <1>6, <1>7, <1>8, QuietStep

(* A row is written now: what the update says is open counts as open now. *)
LEMMA UpsertKeeps ==
    ASSUME FlagInv, NEW p \in FlagProcs, upsertFlag(p)
    PROVE  FlagInv'
  <1>1. FlagShape /\ TableCounted /\ AllHonest(lastOn, flagClock)
    BY DEF FlagInv
  <1>2. PICK f, next : f = updating[p].key /\ next = updating[p].next
    OBVIOUS
  <1>3. /\ updating[p] # NoCopy /\ updating[p].step = "write"
        /\ UNCHANGED <<cache, loading, flagClock>>
    BY DEF upsertFlag
  <1>4. HonestUpdate(updating[p], lastOn, flagClock)
    BY <1>1, <1>3 DEF AllHonest, HonestUpdates
  <1>5. f \in Flags /\ next \in Flag
    BY <1>2, <1>3, <1>4 DEF HonestUpdate
  <1>6. PICK told : told = [step |-> "reload", key |-> f, next |-> next, at |-> flagClock]
    OBVIOUS
  <1>8. cache' = [cache EXCEPT ![p] = cache[p]] /\ loading' = [loading EXCEPT ![p] = loading[p]]
    BY <1>1, <1>3, SameAt DEF FlagShape
  <1>9. CASE updating' = [updating EXCEPT ![p] = NoCopy] /\ UNCHANGED <<flagRows, lastOn>>
    BY <1>3, <1>8, <1>9, QuietStep
  <1>10. ASSUME NEW update \in {told, NoCopy}, updating' = [updating EXCEPT ![p] = update],
                flagRows' = [flagRows EXCEPT ![f] = next],
                lastOn' = IF next.enabled /\ ~next.kill THEN [lastOn EXCEPT ![f] = flagClock] ELSE lastOn
         PROVE  FlagInv'
    <2>1. /\ lastOn' \in [Flags -> Int]
          /\ \A g \in Flags : g # f => lastOn'[g] = lastOn[g]
          /\ next.enabled /\ ~next.kill => lastOn'[f] = flagClock
          /\ ~(next.enabled /\ ~next.kill) => lastOn'[f] = lastOn[f]
      BY <1>1, <1>5, <1>10 DEF FlagShape
    <2>2. \A g \in Flags : lastOn[g] <= lastOn'[g] /\ lastOn'[g] <= flagClock
      BY <1>1, <1>5, <2>1 DEF FlagShape, TableCounted
    <2>3. \A g \in Flags : flagRows'[g] = IF g = f THEN next ELSE flagRows[g]
      BY <1>1, <1>5, <1>10 DEF FlagShape
    <2>6. flagRows' \in [Flags -> Flag \cup {NoCopy}]
      BY <1>1, <1>5, <1>10 DEF FlagShape
    <2>7. TableCounted'
      BY <1>1, <1>3, <1>5, <2>1, <2>2, <2>3 DEF TableCounted, evaluateFlag
    <2>8. PICK on : on = lastOn'
      OBVIOUS
    <2>9. Later(on, flagClock)
      BY <1>1, <2>1, <2>2, <2>8 DEF FlagShape, Later
    <2>10. HonestUpdate(told, on, flagClock)
      BY <1>1, <1>5, <1>6, <2>1, <2>8 DEF HonestUpdate, FlagShape
    <2>11. update \notin {updating[p], NoCopy} => HonestUpdate(update, on, flagClock)
      BY <1>10, <2>10
    <2>12. PICK now : now = flagClock' /\ now = flagClock
      BY <1>3
    <2>13. Later(on, now) /\ (update \notin {updating[p], NoCopy} => HonestUpdate(update, on, now))
      BY <2>9, <2>11, <2>12
    <2>14. lastOn' \in [Flags -> Int] /\ on = lastOn' /\ now = flagClock'
      BY <2>1, <2>8, <2>12
    <2>. QED BY <1>8, <1>10, <2>6, <2>7, <2>13, <2>14, HonestStep
  <1>11. \/ updating' = [updating EXCEPT ![p] = NoCopy] /\ UNCHANGED <<flagRows, lastOn>>
         \/ \E update \in {told, NoCopy} :
              /\ updating' = [updating EXCEPT ![p] = update]
              /\ flagRows' = [flagRows EXCEPT ![f] = next]
              /\ lastOn' = IF next.enabled /\ ~next.kill THEN [lastOn EXCEPT ![f] = flagClock] ELSE lastOn
    BY <1>2, <1>6 DEF upsertFlag
  <1>. QED BY <1>9, <1>10, <1>11

(* The record written wins over what is read after it, but keeps its date. *)
LEMMA UpdateKeeps ==
    ASSUME FlagInv, NEW p \in FlagProcs, updateFlag(p)
    PROVE  FlagInv'
  <1>1. FlagShape /\ TableCounted /\ AllHonest(lastOn, flagClock)
    BY DEF FlagInv
  <1>2. PICK update : update = updating[p]
    OBVIOUS
  <1>3. update # NoCopy /\ UNCHANGED <<flagRows, lastOn, loading, flagClock>>
    BY <1>2 DEF updateFlag
  <1>4. HonestUpdate(update, lastOn, flagClock)
    BY <1>1, <1>2, <1>3 DEF AllHonest, HonestUpdates
  <1>5. loading' = [loading EXCEPT ![p] = loading[p]]
    BY <1>1, <1>3, SameAt DEF FlagShape
  <1>6. ASSUME update.step = "reload", isFresh(p),
               cache' = [cache EXCEPT ![p] = renewed(withWritten(cache[p], update))],
               updating' = [updating EXCEPT ![p] = NoCopy]
        PROVE  FlagInv'
    <2>1. PICK patched : patched = withWritten(cache[p], update)
      OBVIOUS
    <2>2. IsCopy(cache[p], flagClock) /\ Honest(cache[p], lastOn)
      BY <1>1, <1>6 DEF isFresh, AllHonest, HonestCopies
    <2>3. IsCopy(patched, flagClock) /\ Honest(patched, lastOn)
      BY <1>4, <1>6, <2>1, <2>2, WrittenIsHonest
    <2>4. PICK copy : copy = renewed(patched)
      OBVIOUS
    <2>5. IsCopy(copy, flagClock) /\ Honest(copy, lastOn)
      BY <2>3, <2>4, RenewedIsHonest
    <2>. QED BY <1>3, <1>5, <1>6, <2>1, <2>4, <2>5, QuietStep
  <1>7. ASSUME update.step = "reload", NEW flags \in {mergeFlags, getBootstrapFlags}, cache' = cache,
               updating' = [updating EXCEPT ![p] =
                              [step |-> "keep", copy |-> withWritten(readNow(flags), update)]]
        PROVE  FlagInv'
    <2>1. PICK read : read = readNow(flags)
      OBVIOUS
    <2>2. IsCopy(read, flagClock) /\ Honest(read, lastOn)
      BY <1>1, <2>1, ReadIsHonest
    <2>3. PICK patched : patched = withWritten(read, update)
      OBVIOUS
    <2>4. IsCopy(patched, flagClock) /\ Honest(patched, lastOn)
      BY <1>4, <1>7, <2>2, <2>3, WrittenIsHonest
    <2>5. PICK kept : kept = [step |-> "keep", copy |-> patched]
      OBVIOUS
    <2>6. HonestUpdate(kept, lastOn, flagClock)
      BY <2>4, <2>5 DEF HonestUpdate
    <2>7. cache' = [cache EXCEPT ![p] = cache[p]]
      BY <1>1, <1>7, SameAt DEF FlagShape
    <2>. QED BY <1>3, <1>5, <1>7, <2>1, <2>3, <2>5, <2>6, <2>7, QuietStep
  <1>8. ASSUME update.step = "keep", cache' = [cache EXCEPT ![p] = renewed(update.copy)],
               updating' = [updating EXCEPT ![p] = NoCopy]
        PROVE  FlagInv'
    <2>1. PICK old : old = update.copy
      OBVIOUS
    <2>2. IsCopy(old, flagClock) /\ Honest(old, lastOn)
      BY <1>4, <1>8, <2>1 DEF HonestUpdate
    <2>3. PICK copy : copy = renewed(old)
      OBVIOUS
    <2>4. IsCopy(copy, flagClock) /\ Honest(copy, lastOn)
      BY <2>2, <2>3, RenewedIsHonest
    <2>. QED BY <1>3, <1>5, <1>8, <2>1, <2>3, <2>4, QuietStep
  <1>. QED BY <1>2, <1>6, <1>7, <1>8 DEF updateFlag

LEMMA TickKeeps ==
    ASSUME FlagInv, FlagTick
    PROVE  FlagInv'
  <1>1. FlagShape /\ TableCounted /\ AllHonest(lastOn, flagClock)
    BY DEF FlagInv
  <1>2. /\ flagClock' = flagClock + 1
        /\ lastOn' = [f \in Flags |-> IF flagRows[f] # NoCopy /\ evaluateFlag(flagRows, f)
                                      THEN flagClock + 1 ELSE lastOn[f]]
        /\ UNCHANGED <<flagRows, cache, loading, updating>>
    BY DEF FlagTick
  <1>3. \A f \in Flags : lastOn[f] \in Int /\ lastOn[f] <= flagClock
    BY <1>1 DEF FlagShape, TableCounted
  <1>4. FlagShape'
    BY <1>1, <1>2, <1>3 DEF FlagShape, ByProcess
  <1>5. TableCounted'
    BY <1>1, <1>2, <1>3 DEF TableCounted, evaluateFlag, FlagShape
  <1>6. PICK on, now : on = lastOn' /\ now = flagClock'
    OBVIOUS
  <1>7. Later(on, now)
    BY <1>1, <1>2, <1>3, <1>6 DEF FlagShape, Later
  <1>8. HonestCopies(cache, on, now) /\ HonestCopies(loading, on, now)
    BY <1>1, <1>7, CopyStaysHonest DEF AllHonest, HonestCopies
  <1>9. HonestUpdates(updating, on, now)
    BY <1>1, <1>7, UpdateStaysHonest DEF AllHonest, HonestUpdates
  <1>. QED BY <1>2, <1>4, <1>5, <1>6, <1>8, <1>9 DEF FlagInv, AllHonest

LEMMA InitHonest == FlagInit => FlagInv
  <1> SUFFICES ASSUME FlagInit PROVE FlagInv
    OBVIOUS
  <1>2. ByProcess(cache) /\ ByProcess(loading) /\ ByProcess(updating)
    BY DEF FlagInit, ByProcess
  <1>. QED BY <1>2 DEF FlagInit, FlagInv, FlagShape, TableCounted, AllHonest, HonestCopies, HonestUpdates

(* For any processes, flags and timing: no outage, late load, failed update   *)
(* or renewed copy opens a gate for a flag that is built off, unless the table *)
(* had it open when the copy was read or this process updated it, or later    *)
(* (feature-flags.service.ts).                                                *)
THEOREM GatesOpenHonestly == FlagSpec => []OpenWasOpened
  <1>1. FlagInv /\ [FlagNext]_flagVars => FlagInv'
    <2> SUFFICES ASSUME FlagInv, [FlagNext]_flagVars
                 PROVE  FlagInv'
      OBVIOUS
    <2>1. CASE UNCHANGED flagVars
      BY <2>1 DEF flagVars, FlagInv, FlagShape, ByProcess, TableCounted, AllHonest, evaluateFlag
    <2>. QED BY <2>1, LoadKeeps, GateKeeps, EditKeeps, UpsertKeeps, UpdateKeeps, TickKeeps DEF FlagNext
  <1>2. FlagInv => OpenWasOpened
    BY DEF FlagInv, AllHonest, HonestCopies, Honest, OpenWasOpened, BuiltOff
  <1>. QED BY <1>1, <1>2, InitHonest, PTL DEF FlagSpec

-----------------------------------------------------------------------------
(* ApiKeys, however the keys share prefixes. Every raw key belongs to one    *)
(* row for ever: the rows, and the rotations that hold what they read, never *)
(* share one. So a key that an emergency has replaced, and that no rotation  *)
(* held, is nowhere left to come back from.                                  *)

KeysOf(id) == {apiKeys[id].hash, apiKeys[id].old} \ {NoKey}

Holding == {c \in KeyCalls : keyCalls[c].step = "update"}

Named == {c \in KeyCalls : keyCalls[c].step \in {"revoke", "rotate", "update", "emergency"}}

RowsOwn ==
    /\ \A id \in DOMAIN apiKeys : /\ apiKeys[id].hash \in RawKeys
                                  /\ KeysOf(id) \subseteq issued
                                  /\ KeysOf(id) \cap burned = {}
    /\ \A i, j \in DOMAIN apiKeys : i # j => KeysOf(i) \cap KeysOf(j) = {}

HoldersOwn ==
    /\ \A c \in Holding : /\ keyCalls[c].current \in issued \cap RawKeys
                          /\ keyCalls[c].current \notin burned
                          /\ \A j \in DOMAIN apiKeys :
                                j # keyCalls[c].id => keyCalls[c].current \notin KeysOf(j)
    /\ \A c, d \in Holding :
          keyCalls[c].id # keyCalls[d].id => keyCalls[c].current # keyCalls[d].current

OwnInv ==
    /\ DOMAIN keyCalls = KeyCalls /\ keyCalls = [c \in KeyCalls |-> keyCalls[c]]
    /\ \A c \in Named : keyCalls[c].id \in DOMAIN apiKeys
    /\ burned \subseteq issued /\ NoKey \notin issued
    /\ RowsOwn
    /\ HoldersOwn

-----------------------------------------------------------------------------
LEMMA InitOwns == KeysInit => OwnInv
  <1> SUFFICES ASSUME KeysInit PROVE OwnInv
    OBVIOUS
  <1>1. DOMAIN apiKeys = {} /\ issued = {} /\ burned = {}
    BY DEF KeysInit
  <1>2. \A c \in KeyCalls : keyCalls[c].step = "served"
    BY DEF KeysInit, Served
  <1>3. DOMAIN keyCalls = KeyCalls /\ keyCalls = [c \in KeyCalls |-> keyCalls[c]]
    BY DEF KeysInit
  <1>4. Named = {} /\ Holding = {}
    BY <1>2 DEF Named, Holding
  <1>. QED BY <1>1, <1>3, <1>4 DEF OwnInv, RowsOwn, HoldersOwn

(* A call that goes on holds nothing new, and no row changes.                 *)
LEMMA KeyCallGoesOn ==
    ASSUME OwnInv, NEW c \in KeyCalls, NEW to, Continue(c, to),
           to.step # "update",
           to.step \in {"revoke", "rotate", "emergency"} => to.id \in DOMAIN apiKeys,
           DOMAIN apiKeys' = DOMAIN apiKeys,
           UNCHANGED burned
    PROVE  /\ DOMAIN keyCalls' = KeyCalls /\ keyCalls' = [d \in KeyCalls |-> keyCalls'[d]]
           /\ \A d \in Named' : keyCalls'[d].id \in DOMAIN apiKeys'
           /\ Holding' = Holding \ {c}
           /\ \A d \in Holding' : keyCalls'[d] = keyCalls[d]
  <1>1. /\ DOMAIN keyCalls' = KeyCalls /\ keyCalls' = [d \in KeyCalls |-> keyCalls'[d]]
        /\ keyCalls'[c] = to
        /\ \A d \in KeyCalls : d # c => keyCalls'[d] = keyCalls[d]
    BY DEF OwnInv, Continue
  <1>2. \A d \in Named' : keyCalls'[d].id \in DOMAIN apiKeys'
    BY <1>1 DEF Named, OwnInv
  <1>3. Holding' = Holding \ {c}
    BY <1>1 DEF Holding
  <1>4. \A d \in Holding' : keyCalls'[d] = keyCalls[d]
    BY <1>1, <1>3 DEF Holding
  <1>. QED BY <1>1, <1>2, <1>3, <1>4

(* What the rows and the holders own stays theirs when some stop holding, and *)
(* neither rows, issued nor burned keys change.                               *)
LEMMA FewerHolders ==
    ASSUME OwnInv, UNCHANGED <<apiKeys, issued, burned>>,
           Holding' \subseteq Holding, \A d \in Holding' : keyCalls'[d] = keyCalls[d]
    PROVE  RowsOwn' /\ HoldersOwn'
  <1>1. \A id : KeysOf(id)' = KeysOf(id)
    BY DEF KeysOf
  <1>2. RowsOwn'
    BY <1>1 DEF OwnInv, RowsOwn
  <1>3. HoldersOwn'
    BY <1>1 DEF OwnInv, HoldersOwn
  <1>. QED BY <1>2, <1>3

(* A row that is given a key nobody had, and keeps or takes over keys that    *)
(* are its own.                                                               *)
Rekeys(id, raw, others) ==
    /\ issued' = issued \cup {raw} /\ burned \subseteq burned' /\ burned' \subseteq issued
    /\ DOMAIN apiKeys' = DOMAIN apiKeys \cup {id}
    /\ \A j \in DOMAIN apiKeys : j # id => apiKeys'[j] = apiKeys[j]
    /\ apiKeys'[id].hash = raw
    /\ KeysOf(id)' = {raw} \cup others /\ others \cap burned' = {}
    /\ \A j \in DOMAIN apiKeys : j # id =>
          KeysOf(j) \cap others = {} /\ KeysOf(j) \cap burned' = {}
    /\ Holding' \subseteq Holding
    /\ \A d \in Holding' : keyCalls'[d] = keyCalls[d] /\ keyCalls[d].current \notin burned'
    /\ \A d \in Holding' : keyCalls[d].id # id => keyCalls[d].current \notin others

(* It leaves every key with one row. *)
LEMMA RowRekeyed ==
    ASSUME OwnInv, NEW id, NEW raw \in RawKeys \ issued, NEW others \in SUBSET issued,
           Rekeys(id, raw, others)
    PROVE  RowsOwn' /\ HoldersOwn'
  <1>. USE DEF Rekeys
  <1>1. \A j \in DOMAIN apiKeys : j # id => KeysOf(j)' = KeysOf(j)
    BY DEF KeysOf
  <1>2. \A j \in DOMAIN apiKeys : KeysOf(j) \subseteq issued /\ raw \notin KeysOf(j)
    BY DEF OwnInv, RowsOwn
  <1>3. \A j \in DOMAIN apiKeys' : j # id => j \in DOMAIN apiKeys
    OBVIOUS
  <1>4. ASSUME NEW j \in DOMAIN apiKeys'
        PROVE  /\ apiKeys'[j].hash \in RawKeys
               /\ KeysOf(j)' \subseteq issued'
               /\ KeysOf(j)' \cap burned' = {}
    <2>1. CASE j = id
      BY <2>1
    <2>2. CASE j # id
      BY <2>2, <1>1, <1>2, <1>3 DEF OwnInv, RowsOwn
    <2>. QED BY <2>1, <2>2
  <1>5. ASSUME NEW i \in DOMAIN apiKeys', NEW j \in DOMAIN apiKeys', i # j
        PROVE  KeysOf(i)' \cap KeysOf(j)' = {}
    <2>1. CASE i = id
      BY <2>1, <1>1, <1>2, <1>3, <1>5
    <2>2. CASE j = id
      BY <2>2, <1>1, <1>2, <1>3, <1>5
    <2>3. CASE i # id /\ j # id
      BY <2>3, <1>1, <1>3, <1>5 DEF OwnInv, RowsOwn
    <2>. QED BY <2>1, <2>2, <2>3
  <1>6. RowsOwn'
    BY <1>4, <1>5 DEF RowsOwn
  <1>7. ASSUME NEW c \in Holding'
        PROVE  /\ keyCalls'[c].current \in issued' \cap RawKeys
               /\ keyCalls'[c].current \notin burned'
               /\ \A j \in DOMAIN apiKeys' :
                     j # keyCalls'[c].id => keyCalls'[c].current \notin KeysOf(j)'
    <2>1. /\ keyCalls'[c] = keyCalls[c]
          /\ keyCalls[c].current \in issued \cap RawKeys
          /\ \A j \in DOMAIN apiKeys : j # keyCalls[c].id => keyCalls[c].current \notin KeysOf(j)
      BY DEF OwnInv, HoldersOwn
    <2>2. ASSUME NEW j \in DOMAIN apiKeys', j # keyCalls[c].id
          PROVE  keyCalls[c].current \notin KeysOf(j)'
      <3>1. CASE j = id
        BY <3>1, <2>1, <2>2
      <3>2. CASE j # id
        BY <3>2, <2>1, <2>2, <1>1, <1>3
      <3>. QED BY <3>1, <3>2
    <2>. QED BY <2>1, <2>2
  <1>8. \A c, d \in Holding' :
           keyCalls'[c].id # keyCalls'[d].id => keyCalls'[c].current # keyCalls'[d].current
    BY DEF OwnInv, HoldersOwn
  <1>9. HoldersOwn'
    BY <1>7, <1>8 DEF HoldersOwn
  <1>. QED BY <1>6, <1>9

-----------------------------------------------------------------------------
LEMMA CreateOwns ==
    ASSUME OwnInv, NEW id \in KeyRows, NEW o, NEW raw \in RawKeys, createKey(id, o, raw)
    PROVE  OwnInv'
  <1>1. /\ raw \notin issued /\ issued' = issued \cup {raw} /\ id \notin DOMAIN apiKeys
        /\ DOMAIN apiKeys' = DOMAIN apiKeys \cup {id}
        /\ apiKeys'[id].hash = raw /\ apiKeys'[id].old = NoKey
        /\ \A j \in DOMAIN apiKeys : j # id => apiKeys'[j] = apiKeys[j]
        /\ UNCHANGED <<keyCalls, burned>>
    BY DEF createKey
  <1>2. PICK others : others = {}
    OBVIOUS
  <1>8. KeysOf(id)' = {raw} \cup others /\ raw \in RawKeys \ issued
    BY <1>1, <1>2, KeysAssumption DEF KeysOf
  <1>3. Holding' = Holding /\ Holding' \subseteq Holding
    BY <1>1 DEF Holding
  <1>4. \A d \in Holding' : keyCalls'[d] = keyCalls[d] /\ keyCalls[d].current \notin burned'
    BY <1>1, <1>3 DEF OwnInv, HoldersOwn
  <1>5. \A j \in DOMAIN apiKeys : j # id =>
            KeysOf(j) \cap others = {} /\ KeysOf(j) \cap burned' = {}
    BY <1>1, <1>2 DEF OwnInv, RowsOwn
  <1>6. /\ burned \subseteq burned' /\ burned' \subseteq issued /\ burned' = burned
        /\ others \in SUBSET issued /\ others \cap burned' = {}
    BY <1>1, <1>2 DEF OwnInv
  <1>9. \A d \in Holding' : keyCalls[d].id # id => keyCalls[d].current \notin others
    BY <1>2
  <1>7. RowsOwn' /\ HoldersOwn'
    <2>1. Rekeys(id, raw, others)
      BY <1>1, <1>3, <1>4, <1>5, <1>6, <1>8, <1>9 DEF Rekeys
    <2>. QED BY <1>6, <1>8, <2>1, RowRekeyed
  <1>10. DOMAIN keyCalls' = KeyCalls /\ keyCalls' = [c \in KeyCalls |-> keyCalls'[c]]
    BY <1>1 DEF OwnInv
  <1>11. \A c \in Named' : keyCalls'[c].id \in DOMAIN apiKeys'
    BY <1>1 DEF OwnInv, Named
  <1>12. burned' \subseteq issued' /\ NoKey \notin issued'
    BY <1>1, <1>6, <1>8, KeysAssumption DEF OwnInv
  <1>. QED BY <1>7, <1>10, <1>11, <1>12 DEF OwnInv

LEMMA UpdateOwns ==
    ASSUME OwnInv, NEW c \in KeyCalls, NEW raw \in RawKeys, updateKey(c, raw)
    PROVE  OwnInv'
  <1>1. PICK id, old : id = keyCalls[c].id /\ old = keyCalls[c].current
    OBVIOUS
  <1>2. c \in Holding /\ c \in Named
    BY DEF updateKey, Holding, Named
  <1>3. /\ id \in DOMAIN apiKeys /\ old \in issued \cap RawKeys /\ old \notin burned
        /\ \A j \in DOMAIN apiKeys : j # id => old \notin KeysOf(j)
    BY <1>1, <1>2 DEF OwnInv, HoldersOwn
  <1>4. /\ raw \notin issued /\ issued' = issued \cup {raw}
        /\ apiKeys' = [apiKeys EXCEPT ![id] = Rekeyed(apiKeys[id], raw, old)]
        /\ Continue(c, Served) /\ burned' = burned
    BY <1>1 DEF updateKey
  <1>5. /\ DOMAIN apiKeys' = DOMAIN apiKeys /\ DOMAIN apiKeys' = DOMAIN apiKeys \cup {id}
        /\ \A j \in DOMAIN apiKeys : j # id => apiKeys'[j] = apiKeys[j]
        /\ apiKeys'[id].hash = raw /\ apiKeys'[id].old = old
    BY <1>3, <1>4 DEF Rekeyed
  <1>12. PICK others : others = {old}
    OBVIOUS
  <1>6. KeysOf(id)' = {raw} \cup others /\ raw \in RawKeys \ issued
    BY <1>3, <1>4, <1>5, <1>12, KeysAssumption DEF KeysOf
  <1>7. /\ DOMAIN keyCalls' = KeyCalls /\ keyCalls' = [d \in KeyCalls |-> keyCalls'[d]]
        /\ \A d \in Named' : keyCalls'[d].id \in DOMAIN apiKeys'
        /\ Holding' = Holding \ {c} /\ \A d \in Holding' : keyCalls'[d] = keyCalls[d]
    BY <1>4, <1>5, KeyCallGoesOn DEF Served
  <1>8. /\ \A d \in Holding' : keyCalls'[d] = keyCalls[d] /\ keyCalls[d].current \notin burned'
        /\ \A d \in Holding' : keyCalls[d].id # id => keyCalls[d].current \notin others
        /\ Holding' \subseteq Holding
    BY <1>1, <1>2, <1>4, <1>7, <1>12 DEF OwnInv, HoldersOwn
  <1>9. \A j \in DOMAIN apiKeys : j # id =>
            KeysOf(j) \cap others = {} /\ KeysOf(j) \cap burned' = {}
    BY <1>3, <1>4, <1>12 DEF OwnInv, RowsOwn
  <1>10. /\ burned \subseteq burned' /\ burned' \subseteq issued
         /\ others \in SUBSET issued /\ others \cap burned' = {}
    BY <1>3, <1>4, <1>12 DEF OwnInv
  <1>11. RowsOwn' /\ HoldersOwn'
    <2>1. Rekeys(id, raw, others)
      BY <1>4, <1>5, <1>6, <1>7, <1>8, <1>9, <1>10 DEF Rekeys
    <2>. QED BY <1>6, <1>10, <2>1, RowRekeyed
  <1>13. burned' \subseteq issued' /\ NoKey \notin issued'
    BY <1>4, <1>6, <1>10, KeysAssumption DEF OwnInv
  <1>. QED BY <1>7, <1>11, <1>13 DEF OwnInv

LEMMA EmergencyOwns ==
    ASSUME OwnInv, NEW c \in KeyCalls, NEW raw \in RawKeys, emergencyUpdateKey(c, raw)
    PROVE  OwnInv'
  <1>1. PICK id : id = keyCalls[c].id
    OBVIOUS
  <1>2. id \in DOMAIN apiKeys
    BY <1>1 DEF emergencyUpdateKey, Named, OwnInv
  <1>3. PICK left : left = {k \in KeysOf(id) : ~HeldByRotation(k)}
    OBVIOUS
  <1>4. /\ raw \notin issued /\ issued' = issued \cup {raw}
        /\ apiKeys' = [apiKeys EXCEPT ![id] = Rekeyed(apiKeys[id], raw, NoKey)]
        /\ Continue(c, Served) /\ burned' = burned \cup left
        /\ keyCalls[c].step = "emergency"
    BY <1>1, <1>3 DEF emergencyUpdateKey, EmergencyRow, KeysOf
  <1>5. /\ DOMAIN apiKeys' = DOMAIN apiKeys /\ DOMAIN apiKeys' = DOMAIN apiKeys \cup {id}
        /\ \A j \in DOMAIN apiKeys : j # id => apiKeys'[j] = apiKeys[j]
        /\ apiKeys'[id].hash = raw /\ apiKeys'[id].old = NoKey
    BY <1>2, <1>4 DEF Rekeyed
  <1>15. PICK others : others = {}
    OBVIOUS
  <1>6. KeysOf(id)' = {raw} \cup others /\ raw \in RawKeys \ issued
    BY <1>4, <1>5, <1>15, KeysAssumption DEF KeysOf
  <1>7. left \subseteq KeysOf(id) /\ KeysOf(id) \subseteq issued
    BY <1>2, <1>3 DEF OwnInv, RowsOwn
  <1>8. /\ DOMAIN keyCalls' = KeyCalls /\ keyCalls' = [d \in KeyCalls |-> keyCalls'[d]]
        /\ keyCalls'[c] = Served
        /\ \A d \in KeyCalls : d # c => keyCalls'[d] = keyCalls[d]
    BY <1>4 DEF Continue, OwnInv
  <1>9. Holding' = Holding /\ Holding' \subseteq Holding
    BY <1>4, <1>8 DEF Holding, Served
  <1>10. \A d \in Holding' : keyCalls'[d] = keyCalls[d] /\ keyCalls[d].current \notin burned'
    <2>1. ASSUME NEW d \in Holding PROVE keyCalls[d].current \notin left
      BY <1>3 DEF HeldByRotation, Holding
    <2>. QED BY <2>1, <1>4, <1>8, <1>9 DEF OwnInv, HoldersOwn, Holding
  <1>11. \A j \in DOMAIN apiKeys : j # id =>
            KeysOf(j) \cap others = {} /\ KeysOf(j) \cap burned' = {}
    BY <1>2, <1>4, <1>7, <1>15 DEF OwnInv, RowsOwn
  <1>12. /\ burned \subseteq burned' /\ burned' \subseteq issued /\ burned' \subseteq issued'
         /\ others \in SUBSET issued /\ others \cap burned' = {}
    BY <1>4, <1>7, <1>15 DEF OwnInv
  <1>16. \A d \in Holding' : keyCalls[d].id # id => keyCalls[d].current \notin others
    BY <1>15
  <1>13. RowsOwn' /\ HoldersOwn'
    <2>1. Rekeys(id, raw, others)
      BY <1>4, <1>5, <1>6, <1>9, <1>10, <1>11, <1>12, <1>16 DEF Rekeys
    <2>. QED BY <1>6, <1>12, <2>1, RowRekeyed
  <1>14. \A d \in Named' : keyCalls'[d].id \in DOMAIN apiKeys'
    BY <1>5, <1>8 DEF OwnInv, Named, Served
  <1>17. NoKey \notin issued'
    BY <1>4, <1>6, KeysAssumption DEF OwnInv
  <1>. QED BY <1>8, <1>12, <1>13, <1>14, <1>17 DEF OwnInv

(* A rotation that reads its row holds a key of that row and of no other.     *)
LEMMA RotateOwns ==
    ASSUME OwnInv, NEW c \in KeyCalls, rotateReads(c), Found(keyCalls[c].id)
    PROVE  OwnInv'
  <1>1. PICK id, old : id = keyCalls[c].id /\ old = apiKeys[id].hash
    OBVIOUS
  <1>2. /\ Continue(c, [step |-> "update", id |-> id, current |-> old])
        /\ UNCHANGED <<apiKeys, issued, burned>>
        /\ id \in DOMAIN apiKeys
    BY <1>1 DEF rotateReads, Found
  <1>3. old \in RawKeys /\ old \in KeysOf(id) /\ old \in issued /\ old \notin burned
    BY <1>1, <1>2, KeysAssumption DEF OwnInv, RowsOwn, KeysOf
  <1>4. \A j \in DOMAIN apiKeys : j # id => old \notin KeysOf(j)
    BY <1>2, <1>3 DEF OwnInv, RowsOwn
  <1>5. /\ DOMAIN keyCalls' = KeyCalls /\ keyCalls' = [d \in KeyCalls |-> keyCalls'[d]]
        /\ keyCalls'[c] = [step |-> "update", id |-> id, current |-> old]
        /\ \A d \in KeyCalls : d # c => keyCalls'[d] = keyCalls[d]
    BY <1>2 DEF Continue, OwnInv
  <1>6. Holding' = Holding \cup {c}
    BY <1>5 DEF Holding
  <1>7. \A j : KeysOf(j)' = KeysOf(j)
    BY <1>2 DEF KeysOf
  <1>8. RowsOwn'
    BY <1>2, <1>7 DEF OwnInv, RowsOwn
  <1>9. ASSUME NEW d \in Holding'
        PROVE  /\ keyCalls'[d].current \in issued' \cap RawKeys
               /\ keyCalls'[d].current \notin burned'
               /\ \A j \in DOMAIN apiKeys' :
                     j # keyCalls'[d].id => keyCalls'[d].current \notin KeysOf(j)'
    <2>1. CASE d = c
      BY <2>1, <1>2, <1>3, <1>4, <1>5, <1>7
    <2>2. CASE d # c
      BY <2>2, <1>2, <1>5, <1>6, <1>7 DEF OwnInv, HoldersOwn, Holding
    <2>. QED BY <2>1, <2>2
  <1>10. ASSUME NEW d \in Holding, d # c, keyCalls[d].id # id PROVE keyCalls[d].current # old
    BY <1>2, <1>3, <1>10 DEF OwnInv, HoldersOwn
  <1>11. ASSUME NEW d \in Holding', NEW e \in Holding', keyCalls'[d].id # keyCalls'[e].id
         PROVE  keyCalls'[d].current # keyCalls'[e].current
    <2>1. CASE d = c /\ e # c
      BY <2>1, <1>5, <1>6, <1>10, <1>11 DEF Holding
    <2>2. CASE d # c /\ e = c
      BY <2>2, <1>5, <1>6, <1>10, <1>11 DEF Holding
    <2>3. CASE d # c /\ e # c
      BY <2>3, <1>5, <1>6, <1>11 DEF OwnInv, HoldersOwn, Holding
    <2>. QED BY <2>1, <2>2, <2>3, <1>11
  <1>12. HoldersOwn'
    BY <1>9, <1>11 DEF HoldersOwn
  <1>13. \A d \in Named' : keyCalls'[d].id \in DOMAIN apiKeys'
    BY <1>2, <1>5 DEF OwnInv, Named
  <1>. QED BY <1>2, <1>5, <1>8, <1>12, <1>13 DEF OwnInv

LEMMA StepOwns == OwnInv /\ [KeysNext]_keyVars => OwnInv'
  <1> SUFFICES ASSUME OwnInv, [KeysNext]_keyVars PROVE OwnInv'
    OBVIOUS
  <1>1. ASSUME NEW c \in KeyCalls, NEW kind \in {"revoke", "rotate", "emergency"},
               NEW id \in KeyRows, NEW o \in Organizations, readFor(c, kind, id, o)
        PROVE  OwnInv'
    <2>1. PICK to : to = [step |-> kind, id |-> id]
      OBVIOUS
    <2>2. /\ Continue(c, to) /\ id \in DOMAIN apiKeys /\ UNCHANGED <<apiKeys, issued, burned>>
          /\ to.step # "update" /\ to.id = id
      BY <1>1, <2>1 DEF readFor, OfCaller, Found
    <2>3. /\ DOMAIN keyCalls' = KeyCalls /\ keyCalls' = [d \in KeyCalls |-> keyCalls'[d]]
          /\ \A d \in Named' : keyCalls'[d].id \in DOMAIN apiKeys'
          /\ Holding' = Holding \ {c} /\ \A d \in Holding' : keyCalls'[d] = keyCalls[d]
      BY <2>2, KeyCallGoesOn
    <2>4. RowsOwn' /\ HoldersOwn'
      BY <2>2, <2>3, FewerHolders
    <2>. QED BY <2>2, <2>3, <2>4 DEF OwnInv
  <1>2. ASSUME NEW c \in KeyCalls, revoke(c) PROVE OwnInv'
    <2>1. PICK id : id = keyCalls[c].id
      OBVIOUS
    <2>2. /\ apiKeys' = [apiKeys EXCEPT ![id].active = FALSE] /\ DOMAIN apiKeys' = DOMAIN apiKeys
          /\ Continue(c, Served) /\ UNCHANGED <<issued, burned>>
      BY <1>2, <2>1 DEF revoke
    <2>3. \A j \in DOMAIN apiKeys : apiKeys'[j].hash = apiKeys[j].hash /\ apiKeys'[j].old = apiKeys[j].old
      BY <2>2
    <2>4. \A j \in DOMAIN apiKeys : KeysOf(j)' = KeysOf(j)
      BY <2>3 DEF KeysOf
    <2>5. /\ DOMAIN keyCalls' = KeyCalls /\ keyCalls' = [d \in KeyCalls |-> keyCalls'[d]]
          /\ \A d \in Named' : keyCalls'[d].id \in DOMAIN apiKeys'
          /\ Holding' = Holding \ {c} /\ \A d \in Holding' : keyCalls'[d] = keyCalls[d]
      BY <2>2, KeyCallGoesOn DEF Served
    <2>6. RowsOwn'
      BY <2>2, <2>3, <2>4 DEF OwnInv, RowsOwn
    <2>7. ASSUME NEW d \in Holding'
          PROVE  /\ keyCalls'[d].current \in issued' \cap RawKeys
                 /\ keyCalls'[d].current \notin burned'
                 /\ \A j \in DOMAIN apiKeys' :
                       j # keyCalls'[d].id => keyCalls'[d].current \notin KeysOf(j)'
      BY <2>2, <2>4, <2>5 DEF OwnInv, HoldersOwn
    <2>8. \A d, e \in Holding' :
             keyCalls'[d].id # keyCalls'[e].id => keyCalls'[d].current # keyCalls'[e].current
      BY <2>5 DEF OwnInv, HoldersOwn
    <2>9. HoldersOwn'
      BY <2>7, <2>8 DEF HoldersOwn
    <2>. QED BY <2>2, <2>5, <2>6, <2>9 DEF OwnInv
  <1>3. ASSUME NEW c \in KeyCalls, rotateReads(c), ~Found(keyCalls[c].id) PROVE OwnInv'
    <2>1. Continue(c, Served) /\ UNCHANGED <<apiKeys, issued, burned>>
      BY <1>3 DEF rotateReads
    <2>2. /\ DOMAIN keyCalls' = KeyCalls /\ keyCalls' = [d \in KeyCalls |-> keyCalls'[d]]
          /\ \A d \in Named' : keyCalls'[d].id \in DOMAIN apiKeys'
          /\ Holding' = Holding \ {c} /\ \A d \in Holding' : keyCalls'[d] = keyCalls[d]
      BY <2>1, KeyCallGoesOn DEF Served
    <2>3. RowsOwn' /\ HoldersOwn'
      BY <2>1, <2>2, FewerHolders
    <2>. QED BY <2>1, <2>2, <2>3 DEF OwnInv
  <1>4. CASE KeyTick \/ UNCHANGED keyVars
    <2>1. UNCHANGED <<apiKeys, keyCalls, issued, burned>>
      BY <1>4 DEF KeyTick, keyVars
    <2>2. Holding' = Holding /\ \A d \in Holding' : keyCalls'[d] = keyCalls[d]
      BY <2>1 DEF Holding
    <2>3. RowsOwn' /\ HoldersOwn'
      BY <2>1, <2>2, FewerHolders
    <2>. QED BY <2>1, <2>3 DEF OwnInv, Named
  <1>. QED BY <1>1, <1>2, <1>3, <1>4, CreateOwns, UpdateOwns, EmergencyOwns, RotateOwns DEF KeysNext

-----------------------------------------------------------------------------
(* A key that an emergency rotation replaced is never accepted again, but for *)
(* one that a rotation had read before.                                       *)
THEOREM BurnedNeverAccepted == KeysSpec => []BurnedStaysDead
  <1>1. OwnInv => BurnedStaysDead
    <2> SUFFICES ASSUME OwnInv, NEW raw \in burned, NEW id \in DOMAIN apiKeys,
                        Matches(apiKeys[id], raw)
                 PROVE  FALSE
      BY DEF BurnedStaysDead, Accepts, Candidates
    <2>1. raw = apiKeys[id].hash \/ raw = apiKeys[id].old
      BY DEF Matches
    <2>2. raw # NoKey
      BY DEF OwnInv
    <2>. QED BY <2>1, <2>2 DEF OwnInv, RowsOwn, KeysOf
  <1>. QED BY InitOwns, StepOwns, <1>1, PTL DEF KeysSpec

-----------------------------------------------------------------------------
(* Login sessions. A session or a signature names its login, whose first     *)
(* session stays in the map; an id is drawn once. Of one login at most one   *)
(* session is live or being signed, and none once the login has ended.       *)

Live == {id \in DOMAIN sessions : ~sessions[id].revoked}

LoginOf(id) == sessions[id].login
UserOf(id) == sessions[id].user

SessionsNameLogins ==
    \A id \in DOMAIN sessions :
      /\ sessions[id] \in [user : Learners, login : SessionIds, revoked : BOOLEAN, expired : BOOLEAN]
      /\ LoginOf(id) \in DOMAIN sessions /\ UserOf(LoginOf(id)) = UserOf(id)

\* A signature of a fresh login names itself.
SignaturesNameLogins ==
    \A c \in Signing :
      /\ authCalls[c].id \in SessionIds \ DOMAIN sessions
      /\ authCalls[c].user \in Learners /\ authCalls[c].login \in SessionIds
      /\ \/ authCalls[c].login = authCalls[c].id
         \/ /\ authCalls[c].login \in DOMAIN sessions
            /\ UserOf(authCalls[c].login) = authCalls[c].user
      /\ \A d \in Signing \ {c} : authCalls[d].id # authCalls[c].id

CallsShape ==
    /\ \E states : authCalls \in [AuthCalls -> states]
    /\ \A c \in AuthCalls : authCalls[c].step = "verify" => authCalls[c].id \in DOMAIN sessions
    /\ ended \subseteq DOMAIN sessions

OneOfLogin ==
    /\ \A i, j \in Live : LoginOf(i) = LoginOf(j) => i = j
    /\ \A c, d \in Signing : authCalls[c].login = authCalls[d].login => c = d
    /\ \A i \in Live, c \in Signing : LoginOf(i) # authCalls[c].login
    /\ \A i \in Live : LoginOf(i) \notin ended
    /\ \A c \in Signing : authCalls[c].login \notin ended

AuthInv == SessionsNameLogins /\ SignaturesNameLogins /\ CallsShape /\ OneOfLogin

LEMMA InitAuth == AuthInit => AuthInv
  <1> SUFFICES ASSUME AuthInit PROVE AuthInv
    OBVIOUS
  <1>1. DOMAIN sessions = {} /\ Signing = {} /\ Live = {}
    BY DEF AuthInit, Answered, Signing, Live
  <1>2. \A c \in AuthCalls : authCalls[c].step # "verify"
    BY DEF AuthInit, Answered
  <1>3. authCalls \in [AuthCalls -> {Answered}] /\ ended = {}
    BY DEF AuthInit
  <1>. QED
    BY <1>1, <1>2, <1>3 DEF AuthInv, SessionsNameLogins, SignaturesNameLogins, CallsShape, OneOfLogin

-----------------------------------------------------------------------------
\* What is known of the sessions after a step: old ones keep login and user.
SessionsStay ==
    /\ DOMAIN sessions \subseteq DOMAIN sessions'
    /\ \A id \in DOMAIN sessions :
         /\ LoginOf(id)' = LoginOf(id) /\ UserOf(id)' = UserOf(id)
         /\ sessions'[id] \in [user : Learners, login : SessionIds, revoked : BOOLEAN, expired : BOOLEAN]

Rewritten(live) == SessionsStay /\ DOMAIN sessions' = DOMAIN sessions /\ Live' = live

LEMMA Untouched == SessionsNameLogins /\ UNCHANGED sessions => Rewritten(Live)
  BY DEF Rewritten, SessionsStay, SessionsNameLogins, Live, LoginOf, UserOf

LEMMA RevokedSession ==
    ASSUME SessionsNameLogins, NEW held \in DOMAIN sessions, sessions' = Revoked(held)
    PROVE  Rewritten(Live \ {held})
  <1>1. sessions' = [sessions EXCEPT ![held].revoked = TRUE]
    BY DEF Revoked
  <1>2. DOMAIN sessions' = DOMAIN sessions /\ \A id \in DOMAIN sessions \ {held} : sessions'[id] = sessions[id]
    BY <1>1
  <1>3. sessions'[held] = [sessions[held] EXCEPT !.revoked = TRUE]
    BY <1>1
  <1>4. PICK s \in [user : Learners, login : SessionIds, revoked : BOOLEAN, expired : BOOLEAN] :
          s = sessions[held]
    BY DEF SessionsNameLogins
  <1> DEFINE t == [s EXCEPT !.revoked = TRUE]
  <1>5. /\ t \in [user : Learners, login : SessionIds, revoked : BOOLEAN, expired : BOOLEAN]
        /\ t.login = s.login /\ t.user = s.user /\ t.revoked
    OBVIOUS
  <1>6. sessions'[held] = t
    BY <1>3, <1>4
  <1>. HIDE DEF t
  <1>7. SessionsStay
    BY <1>2, <1>4, <1>5, <1>6 DEF SessionsStay, SessionsNameLogins, LoginOf, UserOf
  <1>8. Live' = Live \ {held}
    BY <1>2, <1>5, <1>6 DEF Live
  <1>. QED BY <1>2, <1>7, <1>8 DEF Rewritten

LEMMA ExpiredSession ==
    ASSUME SessionsNameLogins, NEW held \in DOMAIN sessions,
           sessions' = [sessions EXCEPT ![held].expired = TRUE]
    PROVE  Rewritten(Live)
  <1>2. DOMAIN sessions' = DOMAIN sessions /\ \A id \in DOMAIN sessions \ {held} : sessions'[id] = sessions[id]
    OBVIOUS
  <1>3. sessions'[held] = [sessions[held] EXCEPT !.expired = TRUE]
    OBVIOUS
  <1>4. PICK s \in [user : Learners, login : SessionIds, revoked : BOOLEAN, expired : BOOLEAN] :
          s = sessions[held]
    BY DEF SessionsNameLogins
  <1> DEFINE t == [s EXCEPT !.expired = TRUE]
  <1>5. /\ t \in [user : Learners, login : SessionIds, revoked : BOOLEAN, expired : BOOLEAN]
        /\ t.login = s.login /\ t.user = s.user /\ t.revoked = s.revoked
    OBVIOUS
  <1>6. sessions'[held] = t
    BY <1>3, <1>4
  <1>. HIDE DEF t
  <1>7. SessionsStay
    BY <1>2, <1>4, <1>5, <1>6 DEF SessionsStay, SessionsNameLogins, LoginOf, UserOf
  <1>8. Live' = Live
    BY <1>2, <1>4, <1>5, <1>6 DEF Live
  <1>. QED BY <1>2, <1>7, <1>8 DEF Rewritten

LEMMA RevokedUser ==
    ASSUME SessionsNameLogins, NEW user, sessions' = RevokedOf(user)
    PROVE  Rewritten({id \in Live : UserOf(id) # user})
  <1>1. DOMAIN sessions' = DOMAIN sessions
    BY DEF RevokedOf
  <1>2. ASSUME NEW id \in DOMAIN sessions
        PROVE  /\ LoginOf(id)' = LoginOf(id) /\ UserOf(id)' = UserOf(id)
               /\ sessions'[id] \in [user : Learners, login : SessionIds, revoked : BOOLEAN, expired : BOOLEAN]
               /\ id \in Live' <=> id \in Live /\ UserOf(id) # user
    <2>1. PICK s \in [user : Learners, login : SessionIds, revoked : BOOLEAN, expired : BOOLEAN] :
            s = sessions[id]
      BY DEF SessionsNameLogins
    <2> DEFINE t == [s EXCEPT !.revoked = TRUE]
    <2>2. /\ t \in [user : Learners, login : SessionIds, revoked : BOOLEAN, expired : BOOLEAN]
          /\ t.login = s.login /\ t.user = s.user /\ t.revoked
      OBVIOUS
    <2>3. Revoked(id)[id] = t
      BY <2>1 DEF Revoked
    <2>4. sessions'[id] = IF s.user = user THEN t ELSE s
      BY <2>1, <2>3 DEF RevokedOf
    <2>. HIDE DEF t
    <2>5. CASE s.user = user
      BY <1>1, <2>1, <2>2, <2>4, <2>5 DEF Live, LoginOf, UserOf
    <2>6. CASE s.user # user
      BY <1>1, <2>1, <2>4, <2>6 DEF Live, LoginOf, UserOf
    <2>. QED BY <2>5, <2>6
  <1>3. Live' = {id \in Live : UserOf(id) # user}
    BY <1>1, <1>2 DEF Live
  <1>. QED BY <1>1, <1>2, <1>3 DEF Rewritten, SessionsStay

\* A call that goes on, other than to a signature.
LEMMA CallMoves ==
    ASSUME AuthInv, NEW c \in AuthCalls, NEW at, Suspend(c, at)
    PROVE  /\ authCalls'[c] = at /\ \A d \in AuthCalls \ {c} : authCalls'[d] = authCalls[d]
           /\ \E states : authCalls' \in [AuthCalls -> states]
           /\ at.step # "sign" => Signing' = Signing \ {c}
           /\ at.step = "sign" => Signing' = Signing \cup {c}
  <1>1. PICK states : authCalls \in [AuthCalls -> states]
    BY DEF AuthInv, CallsShape
  <1>2. /\ authCalls'[c] = at /\ \A d \in AuthCalls \ {c} : authCalls'[d] = authCalls[d]
        /\ authCalls' \in [AuthCalls -> states \cup {at}]
    BY <1>1 DEF Suspend
  <1>. QED BY <1>2 DEF Signing

\* Sessions are rewritten, and no call starts a signature.
LEMMA RewrittenKeeps ==
    ASSUME AuthInv, NEW live \in SUBSET Live, Rewritten(live),
           Signing' \subseteq Signing, \A d \in Signing' : authCalls'[d] = authCalls[d],
           \E states : authCalls' \in [AuthCalls -> states],
           \A c \in AuthCalls : authCalls'[c].step = "verify" => authCalls'[c].id \in DOMAIN sessions,
           ended' \subseteq DOMAIN sessions,
           \A i \in live : LoginOf(i) \in ended' => LoginOf(i) \in ended,
           \A c \in Signing : authCalls[c].login \in ended' => authCalls[c].login \in ended
    PROVE  AuthInv'
  <1>1. SessionsNameLogins'
    BY DEF AuthInv, SessionsNameLogins, Rewritten, SessionsStay, LoginOf, UserOf
  <1>2. SignaturesNameLogins'
    BY DEF AuthInv, SignaturesNameLogins, Rewritten, SessionsStay
  <1>3. CallsShape'
    BY DEF CallsShape, Rewritten
  <1>4. \A i \in Live' : i \in live /\ i \in Live /\ i \in DOMAIN sessions /\ LoginOf(i)' = LoginOf(i)
    BY DEF Rewritten, SessionsStay, Live
  <1>5. OneOfLogin'
    BY <1>4 DEF OneOfLogin, AuthInv
  <1>. QED BY <1>1, <1>2, <1>3, <1>5 DEF AuthInv

LEMMA AnswerKeeps ==
    ASSUME AuthInv, NEW c \in AuthCalls, NEW live \in SUBSET Live, Rewritten(live),
           Suspend(c, Answered), UNCHANGED ended
    PROVE  AuthInv'
  <1>1. Answered.step # "sign" /\ Answered.step # "verify"
    BY DEF Answered
  <1>2. /\ Signing' = Signing \ {c} /\ \A d \in AuthCalls \ {c} : authCalls'[d] = authCalls[d]
        /\ authCalls'[c] = Answered /\ \E states : authCalls' \in [AuthCalls -> states]
    BY <1>1, CallMoves
  <1>3. \A d \in AuthCalls : authCalls'[d].step = "verify" => authCalls'[d].id \in DOMAIN sessions
    BY <1>1, <1>2 DEF AuthInv, CallsShape
  <1>. QED BY <1>2, <1>3, RewrittenKeeps DEF Signing, AuthInv, CallsShape

\* A call draws a fresh id and signs, for a login no session of which is live.
LEMMA SignKeeps ==
    ASSUME AuthInv, NEW c \in AuthCalls, c \notin Signing, NEW live \in SUBSET Live, Rewritten(live),
           NEW id \in SessionIds, NEW user \in Learners, NEW login \in SessionIds,
           createSession(c, id, user, login), UNCHANGED ended,
           \/ login = id
           \/ login \in DOMAIN sessions /\ UserOf(login) = user,
           \A i \in live : LoginOf(i) # login,
           \A d \in Signing : authCalls[d].login # login,
           login \notin ended
    PROVE  AuthInv'
  <1> DEFINE at == [step |-> "sign", id |-> id, user |-> user, login |-> login]
  <1>1. /\ at.step = "sign" /\ at.id = id /\ at.user = user /\ at.login = login
    OBVIOUS
  <1>2. Suspend(c, at) /\ id \notin DOMAIN sessions /\ \A d \in Signing : authCalls[d].id # id
    BY DEF createSession, FreshId
  <1>. HIDE DEF at
  <1>3. /\ Signing' = Signing \cup {c} /\ \A d \in AuthCalls \ {c} : authCalls'[d] = authCalls[d]
        /\ authCalls'[c] = at /\ \E states : authCalls' \in [AuthCalls -> states]
    BY <1>1, <1>2, CallMoves
  <1>4. DOMAIN sessions' = DOMAIN sessions /\ SessionsStay /\ Live' = live
    BY DEF Rewritten
  <1>5. SessionsNameLogins'
    BY <1>4 DEF AuthInv, SessionsNameLogins, SessionsStay, LoginOf, UserOf
  <1>6. Signing \subseteq AuthCalls
    BY DEF Signing
  <1>7. SignaturesNameLogins'
    BY <1>1, <1>2, <1>3, <1>4, <1>6 DEF AuthInv, SignaturesNameLogins, SessionsStay
  <1>8. CallsShape'
    BY <1>1, <1>3, <1>4 DEF AuthInv, CallsShape
  <1>9. \A i \in Live' : i \in live /\ i \in Live /\ LoginOf(i)' = LoginOf(i)
    BY <1>4 DEF SessionsStay, Live
  <1>10. OneOfLogin'
    BY <1>1, <1>3, <1>6, <1>9 DEF OneOfLogin, AuthInv
  <1>. QED BY <1>5, <1>7, <1>8, <1>10 DEF AuthInv

LEMMA LogInKeeps ==
    ASSUME AuthInv, NEW c \in AuthCalls, NEW id \in SessionIds, NEW user \in Learners, logIn(c, id, user)
    PROVE  AuthInv'
  <1>1. c \notin Signing
    BY DEF logIn, Answered, Signing
  <1>2. id \notin DOMAIN sessions /\ \A d \in Signing : authCalls[d].id # id
    BY DEF logIn, createSession, FreshId
  <1>3. \A i \in Live : LoginOf(i) # id
    BY <1>2 DEF Live, AuthInv, SessionsNameLogins
  <1>4. \A d \in Signing : authCalls[d].login # id
    BY <1>2 DEF AuthInv, SignaturesNameLogins
  <1>5. id \notin ended
    BY <1>2 DEF AuthInv, CallsShape
  <1>6. Rewritten(Live) /\ createSession(c, id, user, id) /\ UNCHANGED ended
    BY Untouched DEF logIn, AuthInv
  <1>. QED BY <1>1, <1>3, <1>4, <1>5, <1>6, SignKeeps

LEMMA RefreshKeeps ==
    ASSUME AuthInv, NEW c \in AuthCalls, NEW id \in SessionIds, refreshTokens(c, id)
    PROVE  AuthInv'
  <1>1. authCalls[c].step = "verify" /\ UNCHANGED ended
    BY DEF refreshTokens
  <1>2. PICK held \in DOMAIN sessions : held = authCalls[c].id
    BY <1>1 DEF AuthInv, CallsShape
  <1>3. CASE Suspend(c, Answered) /\ UNCHANGED sessions
    BY <1>1, <1>3, Untouched, AnswerKeeps DEF AuthInv
  <1>4. CASE Suspend(c, Answered) /\ sessions' = Revoked(held)
    <2>1. Rewritten(Live \ {held})
      BY <1>4, RevokedSession DEF AuthInv
    <2>. QED BY <1>1, <1>4, <2>1, AnswerKeeps
  <1>5. CASE /\ held \in Live /\ sessions' = Revoked(held)
             /\ createSession(c, id, sessions[held].user, sessions[held].login)
    <2>1. Rewritten(Live \ {held}) /\ c \notin Signing
      BY <1>1, <1>5, RevokedSession DEF AuthInv, Signing
    <2>2. PICK user \in Learners, login \in SessionIds : user = UserOf(held) /\ login = LoginOf(held)
      BY DEF AuthInv, SessionsNameLogins, UserOf, LoginOf
    <2>3. login \in DOMAIN sessions /\ UserOf(login) = user
      BY <2>2 DEF AuthInv, SessionsNameLogins
    <2>4. \A i \in Live \ {held} : LoginOf(i) # login
      BY <1>5, <2>2 DEF AuthInv, OneOfLogin
    <2>5. (\A d \in Signing : authCalls[d].login # login) /\ login \notin ended
      BY <1>5, <2>2 DEF AuthInv, OneOfLogin
    <2>6. createSession(c, id, user, login)
      BY <1>5, <2>2 DEF UserOf, LoginOf
    <2>. QED BY <1>1, <2>1, <2>3, <2>4, <2>5, <2>6, SignKeeps
  <1>. QED BY <1>2, <1>3, <1>4, <1>5 DEF refreshTokens, Live

\* The session that was signed is stored: it was the one of its login.
LEMMA StoreKeeps ==
    ASSUME AuthInv, NEW c \in AuthCalls, storeSession(c)
    PROVE  AuthInv'
  <1>1. c \in Signing /\ UNCHANGED ended /\ Suspend(c, Answered)
    BY DEF storeSession, Signing
  <1>2. PICK id \in SessionIds \ DOMAIN sessions, user \in Learners, login \in SessionIds :
          /\ id = authCalls[c].id /\ user = authCalls[c].user /\ login = authCalls[c].login
          /\ \/ login = id
             \/ login \in DOMAIN sessions /\ UserOf(login) = user
          /\ \A d \in Signing \ {c} : authCalls[d].id # id
    BY <1>1 DEF AuthInv, SignaturesNameLogins
  <1> DEFINE new == [user |-> user, login |-> login, revoked |-> FALSE, expired |-> FALSE]
  <1>3. sessions' = [k \in DOMAIN sessions \cup {id} |-> IF k = id THEN new ELSE sessions[k]]
    BY <1>2 DEF storeSession, Put
  <1>4. new \in [user : Learners, login : SessionIds, revoked : BOOLEAN, expired : BOOLEAN]
        /\ new.user = user /\ new.login = login /\ ~new.revoked
    BY <1>2
  <1>5. Answered.step # "sign" /\ Answered.step # "verify"
    BY DEF Answered
  <1>6. /\ Signing' = Signing \ {c} /\ \A d \in AuthCalls \ {c} : authCalls'[d] = authCalls[d]
        /\ authCalls'[c] = Answered /\ \E states : authCalls' \in [AuthCalls -> states]
    BY <1>1, <1>5, CallMoves
  <1>. HIDE DEF new
  <1>7. /\ DOMAIN sessions' = DOMAIN sessions \cup {id} /\ sessions'[id] = new
        /\ \A k \in DOMAIN sessions : sessions'[k] = sessions[k]
    BY <1>2, <1>3
  <1>8. Live' = Live \cup {id} /\ id \notin Live
    BY <1>2, <1>4, <1>7 DEF Live
  <1>9. /\ LoginOf(id)' = login /\ UserOf(id)' = user
        /\ \A k \in DOMAIN sessions : LoginOf(k)' = LoginOf(k) /\ UserOf(k)' = UserOf(k)
    BY <1>4, <1>7 DEF LoginOf, UserOf
  <1>10. SessionsNameLogins'
    <2> SUFFICES ASSUME NEW k \in DOMAIN sessions'
                 PROVE  /\ sessions'[k] \in [user : Learners, login : SessionIds, revoked : BOOLEAN, expired : BOOLEAN]
                        /\ LoginOf(k)' \in DOMAIN sessions' /\ sessions'[LoginOf(k)'].user = UserOf(k)'
      BY DEF SessionsNameLogins, LoginOf, UserOf
    <2>1. CASE k = id
      <3>1. login \in DOMAIN sessions' /\ sessions'[login].user = user
        BY <1>2, <1>4, <1>7 DEF UserOf
      <3>. QED BY <1>4, <1>7, <1>9, <2>1, <3>1
    <2>2. CASE k \in DOMAIN sessions
      <3>1. /\ sessions[k] \in [user : Learners, login : SessionIds, revoked : BOOLEAN, expired : BOOLEAN]
            /\ LoginOf(k) \in DOMAIN sessions /\ sessions[LoginOf(k)].user = UserOf(k)
        BY <2>2 DEF AuthInv, SessionsNameLogins, UserOf
      <3>. QED BY <1>7, <1>9, <2>2, <3>1
    <2>. QED BY <1>7, <2>1, <2>2
  <1>11. Signing \subseteq AuthCalls
    BY DEF Signing
  <1>12. SignaturesNameLogins'
    <2> SUFFICES ASSUME NEW d \in Signing \ {c}
                 PROVE  /\ authCalls[d].id \in SessionIds \ DOMAIN sessions'
                        /\ authCalls[d].user \in Learners /\ authCalls[d].login \in SessionIds
                        /\ \/ authCalls[d].login = authCalls[d].id
                           \/ /\ authCalls[d].login \in DOMAIN sessions'
                              /\ sessions'[authCalls[d].login].user = authCalls[d].user
                        /\ \A e \in Signing \ {c, d} : authCalls[e].id # authCalls[d].id
      BY <1>6, <1>11 DEF SignaturesNameLogins, UserOf
    <2>. QED BY <1>2, <1>7 DEF AuthInv, SignaturesNameLogins, UserOf
  <1>13. CallsShape'
    BY <1>1, <1>5, <1>6, <1>7 DEF AuthInv, CallsShape
  <1>14. /\ \A i \in Live : LoginOf(i)' = LoginOf(i) /\ LoginOf(i) # login
         /\ login \notin ended /\ \A d \in Signing \ {c} : authCalls[d].login # login
    BY <1>1, <1>2, <1>9 DEF AuthInv, OneOfLogin, Live
  <1>15. OneOfLogin'
    BY <1>1, <1>6, <1>8, <1>9, <1>11, <1>14 DEF OneOfLogin, AuthInv
  <1>. QED BY <1>10, <1>12, <1>13, <1>15 DEF AuthInv

\* A logout-all ends every login of which it revokes a session, unless a token
\* of it is being signed; all sessions of a login are of one user.
LEMMA LogoutKeeps ==
    ASSUME AuthInv, NEW user, revokeAllUserSessions(user)
    PROVE  AuthInv'
  <1> DEFINE live == {id \in Live : UserOf(id) # user}
             logins == {sessions[id].login : id \in {i \in DOMAIN sessions : sessions[i].user = user}}
  <1>1. Rewritten(live) /\ authCalls' = authCalls
        /\ ended' = ended \cup {login \in logins : ~BeingSigned(login)}
    BY RevokedUser DEF revokeAllUserSessions, AuthInv
  <1>2. \A l \in logins : l \in DOMAIN sessions /\ UserOf(l) = user
    BY DEF AuthInv, SessionsNameLogins, LoginOf, UserOf
  <1>3. ended' \subseteq DOMAIN sessions
    BY <1>1, <1>2 DEF AuthInv, CallsShape
  <1>4. \A i \in live : LoginOf(i) \notin logins
    BY <1>2 DEF AuthInv, SessionsNameLogins, Live
  <1>5. \A c \in Signing : BeingSigned(authCalls[c].login)
    BY DEF BeingSigned
  <1>6. Signing' = Signing
    BY <1>1 DEF Signing
  <1>7. \A c \in AuthCalls : authCalls'[c].step = "verify" => authCalls'[c].id \in DOMAIN sessions
    BY <1>1 DEF AuthInv, CallsShape
  <1>8. \E states : authCalls' \in [AuthCalls -> states]
    BY <1>1 DEF AuthInv, CallsShape
  <1>9. live \in SUBSET Live
    OBVIOUS
  <1>. HIDE DEF live, logins
  <1>10. \A i \in live : LoginOf(i) \in ended' => LoginOf(i) \in ended
    BY <1>1, <1>4
  <1>11. \A c \in Signing : authCalls[c].login \in ended' => authCalls[c].login \in ended
    BY <1>1, <1>5
  <1>. QED BY <1>1, <1>3, <1>6, <1>7, <1>8, <1>9, <1>10, <1>11, RewrittenKeeps

\* A session is revoked or expires by itself; a token is on its way to be verified.
LEMMA SessionEndsKeeps ==
    ASSUME AuthInv, NEW id \in DOMAIN sessions, revokeSession(id) \/ SessionExpires(id)
    PROVE  AuthInv'
  <1>1. UNCHANGED <<authCalls, ended>>
    BY DEF revokeSession, SessionExpires
  <1>2. PICK live \in SUBSET Live : Rewritten(live)
    BY RevokedSession, ExpiredSession DEF revokeSession, SessionExpires, AuthInv
  <1>3. Signing' = Signing
    BY <1>1 DEF Signing
  <1>. QED BY <1>1, <1>2, <1>3, RewrittenKeeps DEF AuthInv, CallsShape

LEMMA VerifyKeeps ==
    ASSUME AuthInv, NEW c \in AuthCalls, NEW id \in DOMAIN sessions, verifyRefreshToken(c, id)
    PROVE  AuthInv'
  <1> DEFINE at == [step |-> "verify", id |-> id]
  <1>1. at.step = "verify" /\ at.id = id /\ Suspend(c, at) /\ UNCHANGED <<sessions, ended>>
    BY DEF verifyRefreshToken
  <1>2. c \notin Signing
    BY DEF verifyRefreshToken, Answered, Signing
  <1>. HIDE DEF at
  <1>3. /\ Signing' = Signing /\ \A d \in AuthCalls \ {c} : authCalls'[d] = authCalls[d]
        /\ authCalls'[c] = at /\ \E states : authCalls' \in [AuthCalls -> states]
    BY <1>1, <1>2, CallMoves
  <1>4. \A d \in AuthCalls : authCalls'[d].step = "verify" => authCalls'[d].id \in DOMAIN sessions
    BY <1>1, <1>3 DEF AuthInv, CallsShape
  <1>5. Rewritten(Live)
    BY <1>1, Untouched DEF AuthInv
  <1>6. \A d \in Signing' : authCalls'[d] = authCalls[d]
    BY <1>2, <1>3 DEF Signing
  <1>. QED BY <1>1, <1>3, <1>4, <1>5, <1>6, RewrittenKeeps DEF AuthInv, CallsShape

LEMMA AuthStep == AuthInv /\ [AuthNext]_authVars => AuthInv'
  <1> SUFFICES ASSUME AuthInv, [AuthNext]_authVars PROVE AuthInv'
    OBVIOUS
  <1>1. ASSUME NEW c \in AuthCalls, NEW id \in SessionIds, NEW user \in Learners, logIn(c, id, user)
        PROVE  AuthInv'
    BY <1>1, LogInKeeps
  <1>2. ASSUME NEW c \in AuthCalls, NEW id \in DOMAIN sessions, verifyRefreshToken(c, id)
        PROVE  AuthInv'
    BY <1>2, VerifyKeeps
  <1>3. ASSUME NEW c \in AuthCalls, NEW id \in SessionIds, refreshTokens(c, id)
        PROVE  AuthInv'
    BY <1>3, RefreshKeeps
  <1>4. ASSUME NEW c \in AuthCalls, storeSession(c)
        PROVE  AuthInv'
    BY <1>4, StoreKeeps
  <1>5. ASSUME NEW id \in DOMAIN sessions, revokeSession(id) \/ SessionExpires(id)
        PROVE  AuthInv'
    BY <1>5, SessionEndsKeeps
  <1>6. ASSUME NEW user \in Learners, revokeAllUserSessions(user)
        PROVE  AuthInv'
    BY <1>6, LogoutKeeps
  <1>7. CASE UNCHANGED authVars
    <2>1. Rewritten(Live) /\ Signing' = Signing /\ UNCHANGED <<authCalls, ended>>
      BY <1>7, Untouched DEF authVars, AuthInv, Signing
    <2>. QED BY <2>1, RewrittenKeeps DEF AuthInv, CallsShape
  <1>. QED BY <1>1, <1>2, <1>3, <1>4, <1>5, <1>6, <1>7 DEF AuthNext

\* At most one of the two sets has a member, and no more than one.
LEMMA InvOneSession == AuthInv => LoginHasOneSession
  <1> SUFFICES ASSUME AuthInv, NEW login \in SessionIds
               PROVE  Cardinality(LiveOf(login)) + Cardinality(SignedFor(login))
                        <= IF login \in ended THEN 0 ELSE 1
    BY DEF LoginHasOneSession
  <1>1. LiveOf(login) = {id \in Live : LoginOf(id) = login}
    BY DEF LiveOf, Live, LoginOf
  <1>2. SignedFor(login) = {c \in Signing : authCalls[c].login = login}
    BY DEF SignedFor
  <1>3. Cardinality({}) = 0 /\ \A x : Cardinality({x}) = 1
    BY FS_EmptySet, FS_Singleton
  <1>4. CASE LiveOf(login) = {} /\ SignedFor(login) = {}
    BY <1>3, <1>4
  <1>5. ASSUME NEW id \in LiveOf(login) PROVE LiveOf(login) = {id} /\ SignedFor(login) = {} /\ login \notin ended
    BY <1>1, <1>2, <1>5 DEF AuthInv, OneOfLogin
  <1>6. ASSUME NEW c \in SignedFor(login) PROVE SignedFor(login) = {c} /\ LiveOf(login) = {} /\ login \notin ended
    BY <1>1, <1>2, <1>6 DEF AuthInv, OneOfLogin
  <1>7. CASE LiveOf(login) # {}
    <2>1. PICK id : id \in LiveOf(login)
      BY <1>7
    <2>2. LiveOf(login) = {id} /\ SignedFor(login) = {} /\ login \notin ended
      BY <1>5, <2>1
    <2>3. Cardinality(LiveOf(login)) = 1 /\ Cardinality(SignedFor(login)) = 0
      BY <1>3, <2>2
    <2>. QED BY <2>2, <2>3
  <1>8. CASE SignedFor(login) # {}
    <2>1. PICK c : c \in SignedFor(login)
      BY <1>8
    <2>2. SignedFor(login) = {c} /\ LiveOf(login) = {} /\ login \notin ended
      BY <1>6, <2>1
    <2>3. Cardinality(SignedFor(login)) = 1 /\ Cardinality(LiveOf(login)) = 0
      BY <1>3, <2>2
    <2>. QED BY <2>2, <2>3
  <1>. QED BY <1>4, <1>7, <1>8

\* However refreshes, logins and logouts overlap, and for any number of them, a
\* login has at most one session that is live or about to be, and none after
\* the logout-all that ended it (auth-session.service.ts).
THEOREM LoginsHaveOneSession == AuthSpec => []LoginHasOneSession
  <1>1. AuthInit => AuthInv
    BY InitAuth
  <1>2. AuthInv /\ [AuthNext]_authVars => AuthInv'
    BY AuthStep
  <1>3. AuthInv => LoginHasOneSession
    BY InvOneSession
  <1>. QED BY <1>1, <1>2, <1>3, PTL DEF AuthSpec

-----------------------------------------------------------------------------
(* Study rooms. A request is admitted when it is about to add a member, or   *)
(* holds a count that lets it. A count lets nobody in once the room is at    *)
(* its highest limit, so members and admitted requests together exceed that  *)
(* limit by no more than the other requests at work and the failed counts.   *)

Admitted == {c \in RoomCalls : \/ roomCalls[c].step = "add"
                               \/ roomCalls[c].step = "look" /\ Fits(roomCalls[c])}

RoomShape ==
    /\ \E states : roomCalls \in [RoomCalls -> states]
    /\ IsFiniteSet(members)
    /\ highest \in Nat \cup {Unlimited} /\ miscounts \in Nat
    /\ highest > 0 => room.limit \in Nat /\ room.limit <= highest
    /\ Exists => highest # 0
    /\ highest = 0 => members = {}

\* No limit that a request has read is above the highest there was.
ReadLimits ==
    \A c \in RoomCalls :
      /\ roomCalls[c].step \in {"count", "look"} =>
           /\ highest # 0
           /\ highest > 0 => roomCalls[c].room.limit \in Nat /\ roomCalls[c].room.limit <= highest
      /\ roomCalls[c].step = "look" => roomCalls[c].count \in Nat

Spare == highest + (Cardinality(RoomCalls) - 1) + miscounts

RoomInv ==
    /\ RoomShape /\ ReadLimits
    /\ highest > 0 => Cardinality(members) + Cardinality(Admitted) <= Spare

LEMMA InitRoom == RoomInit => RoomInv
  <1> SUFFICES ASSUME RoomInit PROVE RoomInv
    OBVIOUS
  <1>1. roomCalls \in [RoomCalls -> {RoomServed}]
    BY DEF RoomInit
  <1>2. room.status = "none" /\ room.limit = 0 /\ highest = 0 /\ miscounts = 0
    BY DEF RoomInit, NoRoom
  <1>3. members = {} /\ IsFiniteSet(members)
    BY FS_EmptySet DEF RoomInit
  <1>4. RoomShape
    <2>1. \E states : roomCalls \in [RoomCalls -> states]
      BY <1>1
    <2>. QED BY <2>1, <1>2, <1>3 DEF RoomShape, Exists
  <1>5. ReadLimits
    BY <1>1 DEF ReadLimits, RoomServed
  <1>. QED BY <1>2, <1>4, <1>5 DEF RoomInv

LEMMA RoomCounts ==
    ASSUME RoomInv
    PROVE  /\ Cardinality(RoomCalls) \in Nat /\ Cardinality(members) \in Nat
           /\ IsFiniteSet(Admitted) /\ Cardinality(Admitted) \in Nat
           /\ Cardinality(Admitted) <= Cardinality(RoomCalls)
           /\ highest \in Int /\ (highest # 0 => highest > 0 \/ highest = Unlimited)
           /\ Unlimited \in Int /\ ~(Unlimited > 0) /\ miscounts \in Nat
  <1>1. Admitted \subseteq RoomCalls
    BY DEF Admitted
  <1>2. IsFiniteSet(RoomCalls) /\ IsFiniteSet(members)
    BY RoomAssumption DEF RoomInv, RoomShape
  <1>. QED BY <1>1, <1>2, FS_Subset, FS_CardinalityType DEF RoomInv, RoomShape, Unlimited

\* One request goes on; it may be admitted or lose its admission.
LEMMA RequestGoesOn ==
    ASSUME RoomInv, NEW c \in RoomCalls, NEW to, Then(c, to)
    PROVE  /\ \E states : roomCalls' \in [RoomCalls -> states]
           /\ roomCalls'[c] = to /\ \A d \in RoomCalls \ {c} : roomCalls'[d] = roomCalls[d]
           /\ Admitted' = IF to.step = "add" \/ (to.step = "look" /\ Fits(to))
                          THEN Admitted \cup {c} ELSE Admitted \ {c}
  <1>1. PICK states : roomCalls \in [RoomCalls -> states]
    BY DEF RoomInv, RoomShape
  <1>2. /\ roomCalls'[c] = to /\ \A d \in RoomCalls \ {c} : roomCalls'[d] = roomCalls[d]
        /\ roomCalls' \in [RoomCalls -> states \cup {to}]
    BY <1>1 DEF Then
  <1>. QED BY <1>2 DEF Admitted, Fits

\* What a request goes on to has read no limit above the highest.
Sound(to) ==
    /\ to.step \in {"count", "look"} =>
         highest # 0 /\ (highest > 0 => to.room.limit \in Nat /\ to.room.limit <= highest)
    /\ to.step = "look" => to.count \in Nat

\* A request goes on without being let in: whatever it knew, it is admitted
\* only if it was, and nothing else changes but that a member may leave.
LEMMA NobodyEnters ==
    ASSUME RoomInv, NEW c \in RoomCalls, NEW to, Then(c, to), Sound(to),
           members' \subseteq members, UNCHANGED <<room, highest, miscounts>>,
           to.step = "add" \/ (to.step = "look" /\ Fits(to)) => c \in Admitted
    PROVE  RoomInv'
  <1>1. /\ roomCalls'[c] = to /\ \A d \in RoomCalls \ {c} : roomCalls'[d] = roomCalls[d]
        /\ \E states : roomCalls' \in [RoomCalls -> states]
        /\ Admitted' \subseteq Admitted
    BY RequestGoesOn
  <1>2. IsFiniteSet(members') /\ Cardinality(members') <= Cardinality(members) /\ Cardinality(members') \in Nat
    BY FS_Subset, FS_CardinalityType DEF RoomInv, RoomShape
  <1>3. Cardinality(Admitted') <= Cardinality(Admitted) /\ Cardinality(Admitted') \in Nat
    BY <1>1, RoomCounts, FS_Subset, FS_CardinalityType
  <1>4. RoomShape'
    BY <1>1, <1>2 DEF RoomInv, RoomShape, Exists
  <1>5. ReadLimits'
    BY <1>1 DEF RoomInv, ReadLimits, Sound
  <1>6. (highest > 0 => Cardinality(members) + Cardinality(Admitted) <= Spare)'
    BY <1>2, <1>3, RoomCounts DEF RoomInv, Spare
  <1>. QED BY <1>4, <1>5, <1>6 DEF RoomInv

LEMMA ServedKeeps ==
    ASSUME RoomInv, NEW c \in RoomCalls, Then(c, RoomServed),
           members' \subseteq members, UNCHANGED <<room, highest, miscounts>>
    PROVE  RoomInv'
  <1>1. Sound(RoomServed) /\ RoomServed.step = "served"
    BY DEF Sound, RoomServed
  <1>2. ~(RoomServed.step = "add" \/ (RoomServed.step = "look" /\ Fits(RoomServed)))
    BY <1>1
  <1>. QED BY <1>1, <1>2, NobodyEnters

\* The first admission, of the creator: the room is empty.
LEMMA CreateRoomKeeps ==
    ASSUME RoomInv, NEW c \in RoomCalls, NEW guest, NEW limit \in MaxParticipants, createRoom(c, guest, limit)
    PROVE  RoomInv'
  <1>1. /\ room' = [status |-> "active", limit |-> limit] /\ highest' = limit /\ highest = 0
        /\ Then(c, [step |-> "add", guest |-> guest]) /\ UNCHANGED <<members, miscounts>>
    BY DEF createRoom
  <1>2. limit = Unlimited \/ (limit \in Nat /\ limit > 0)
    BY RoomAssumption DEF MaxParticipants
  <1> DEFINE to == [step |-> "add", guest |-> guest]
  <1>3. to.step = "add" /\ Then(c, to)
    BY <1>1
  <1>. HIDE DEF to
  <1>4. /\ roomCalls'[c] = to /\ \A d \in RoomCalls \ {c} : roomCalls'[d] = roomCalls[d]
        /\ \E states : roomCalls' \in [RoomCalls -> states]
        /\ Admitted' = Admitted \cup {c}
    BY <1>3, RequestGoesOn
  <1>5. Admitted' \subseteq RoomCalls
    BY <1>4 DEF Admitted
  <1>6. Cardinality(Admitted') <= Cardinality(RoomCalls) /\ Cardinality(Admitted') \in Nat
    BY <1>5, RoomAssumption, FS_Subset, FS_CardinalityType
  <1>7. members = {} /\ Cardinality(members) = 0
    BY <1>1, FS_EmptySet DEF RoomInv, RoomShape
  <1>8. RoomShape'
    BY <1>1, <1>2, <1>4, <1>7, FS_EmptySet DEF RoomInv, RoomShape, Exists, Unlimited
  <1>9. ReadLimits'
    BY <1>1, <1>2, <1>3, <1>4 DEF RoomInv, ReadLimits
  <1>10. highest' > 0 => Cardinality(members') + Cardinality(Admitted') <= Spare'
    <2>1. CASE limit = Unlimited
      BY <1>1, <2>1 DEF Unlimited
    <2>2. CASE limit \in Nat /\ limit > 0
      BY <1>1, <2>2, <1>6, <1>7, RoomCounts DEF Spare
    <2>. QED BY <1>2, <2>1, <2>2
  <1>. QED BY <1>8, <1>9, <1>10 DEF RoomInv

\* An admitted request gives its admission for the member it adds.
LEMMA AddMemberKeeps ==
    ASSUME RoomInv, NEW c \in RoomCalls, addMember(c)
    PROVE  RoomInv'
  <1>1. roomCalls[c].step = "add" /\ Then(c, RoomServed) /\ UNCHANGED <<room, highest, miscounts>>
    BY DEF addMember, At
  <1>2. PICK guest : members' = IF Exists THEN members \cup {guest} ELSE members
    BY DEF addMember
  <1>3. CASE ~Exists
    BY <1>1, <1>2, <1>3, ServedKeeps
  <1>4. CASE Exists
    <2>1. members' = members \cup {guest}
      BY <1>2, <1>4
    <2>2. IsFiniteSet(members') /\ Cardinality(members') <= Cardinality(members) + 1
          /\ Cardinality(members') \in Nat
      <3>1. IsFiniteSet(members) /\ Cardinality(members) \in Nat
        BY RoomCounts DEF RoomInv, RoomShape
      <3>2. /\ IsFiniteSet(members \cup {guest})
            /\ Cardinality(members \cup {guest}) =
                 IF guest \in members THEN Cardinality(members) ELSE Cardinality(members) + 1
        BY <3>1, FS_AddElement
      <3>. QED BY <2>1, <3>1, <3>2
    <2>3. RoomServed.step = "served"
      BY DEF RoomServed
    <2>4. /\ roomCalls'[c] = RoomServed /\ \A d \in RoomCalls \ {c} : roomCalls'[d] = roomCalls[d]
          /\ \E states : roomCalls' \in [RoomCalls -> states]
          /\ Admitted' = Admitted \ {c}
      BY <1>1, <2>3, RequestGoesOn
    <2>5. c \in Admitted
      BY <1>1 DEF Admitted
    <2>6. Cardinality(Admitted') = Cardinality(Admitted) - 1
      BY <2>4, <2>5, RoomCounts, FS_RemoveElement
    <2>7. RoomShape'
      BY <1>1, <1>4, <2>2, <2>4 DEF RoomInv, RoomShape, Exists
    <2>8. ReadLimits'
      BY <1>1, <2>3, <2>4 DEF RoomInv, ReadLimits
    <2>9. (highest > 0 => Cardinality(members) + Cardinality(Admitted) <= Spare)'
      BY <1>1, <2>2, <2>6, RoomCounts DEF RoomInv, Spare
    <2>. QED BY <2>7, <2>8, <2>9 DEF RoomInv
  <1>. QED BY <1>3, <1>4

LEMMA FindRoomKeeps ==
    ASSUME RoomInv, NEW c \in RoomCalls, NEW guest, findRoomById(c, guest)
    PROVE  RoomInv'
  <1> DEFINE to == [step |-> "count", guest |-> guest, room |-> room]
  <1>1. Then(c, to) /\ Exists /\ UNCHANGED <<room, members, highest, miscounts>>
    BY DEF findRoomById, OnlyCall
  <1>2. to.step = "count" /\ Sound(to)
    BY <1>1 DEF Sound, RoomInv, RoomShape
  <1>3. PICK t : t = to
    OBVIOUS
  <1>. HIDE DEF to
  <1>4. ~(t.step = "add" \/ (t.step = "look" /\ Fits(t))) /\ Sound(t) /\ Then(c, t)
    BY <1>1, <1>2, <1>3
  <1>. QED BY <1>1, <1>4, NobodyEnters

\* Whoever counts fewer members than its limit leaves room for one more: all
\* the other requests may be admitted too, and no more.
LEMMA CountMembersKeeps ==
    ASSUME RoomInv, NEW c \in RoomCalls, countMembers(c)
    PROVE  RoomInv'
  <1> DEFINE to == [step |-> "look", guest |-> roomCalls[c].guest, room |-> roomCalls[c].room,
                    count |-> Cardinality(members)]
  <1>1. Then(c, to) /\ roomCalls[c].step = "count" /\ UNCHANGED <<room, members, highest, miscounts>>
    BY DEF countMembers, At, OnlyCall
  <1>2. /\ to.step = "look" /\ to.count = Cardinality(members)
        /\ highest # 0 /\ (highest > 0 => to.room.limit \in Nat /\ to.room.limit <= highest)
    BY <1>1 DEF RoomInv, ReadLimits
  <1>3. PICK t : t = to
    OBVIOUS
  <1>. HIDE DEF to
  <1>4. Then(c, t) /\ t.step = "look" /\ t.count = Cardinality(members) /\ Sound(t)
        /\ (highest > 0 => t.room.limit \in Nat /\ t.room.limit <= highest)
    BY <1>1, <1>2, <1>3, RoomCounts DEF Sound
  <1>5. CASE ~Fits(t)
    BY <1>1, <1>4, <1>5, NobodyEnters
  <1>6. CASE Fits(t)
    <2>1. highest > 0 => Cardinality(members) <= highest - 1
      BY <1>4, <1>6, RoomCounts DEF Fits, Unlimited
    <2>2. /\ roomCalls'[c] = t /\ \A d \in RoomCalls \ {c} : roomCalls'[d] = roomCalls[d]
          /\ \E states : roomCalls' \in [RoomCalls -> states]
          /\ Admitted' = Admitted \cup {c}
      BY <1>4, <1>6, RequestGoesOn
    <2>3. Admitted' \subseteq RoomCalls
      BY <2>2 DEF Admitted
    <2>4. Cardinality(Admitted') <= Cardinality(RoomCalls) /\ Cardinality(Admitted') \in Nat
      BY <2>3, RoomAssumption, FS_Subset, FS_CardinalityType
    <2>5. RoomShape'
      BY <1>1, <2>2 DEF RoomInv, RoomShape, Exists
    <2>6. ReadLimits'
      BY <1>1, <1>4, <2>2 DEF RoomInv, ReadLimits, Sound
    <2>7. highest' > 0 => Cardinality(members') + Cardinality(Admitted') <= Spare'
      BY <1>1, <2>1, <2>4, RoomCounts DEF Spare
    <2>. QED BY <2>5, <2>6, <2>7 DEF RoomInv
  <1>. QED BY <1>5, <1>6

\* A count that fails lets one request in, and is counted.
LEMMA CountFailsKeeps ==
    ASSUME RoomInv, NEW c \in RoomCalls, countFails(c)
    PROVE  RoomInv'
  <1> DEFINE to == [step |-> "look", guest |-> roomCalls[c].guest, room |-> roomCalls[c].room,
                    count |-> 0]
  <1>1. /\ Then(c, to) /\ roomCalls[c].step = "count" /\ UNCHANGED <<room, members, highest>>
        /\ miscounts' = miscounts + 1
    BY DEF countFails, At
  <1>2. /\ to.step = "look" /\ to.count = 0
        /\ highest # 0 /\ (highest > 0 => to.room.limit \in Nat /\ to.room.limit <= highest)
    BY <1>1 DEF RoomInv, ReadLimits
  <1>3. PICK t : t = to
    OBVIOUS
  <1>. HIDE DEF to
  <1>4. Then(c, t) /\ Sound(t)
    BY <1>1, <1>2, <1>3 DEF Sound
  <1>5. /\ roomCalls'[c] = t /\ \A d \in RoomCalls \ {c} : roomCalls'[d] = roomCalls[d]
        /\ \E states : roomCalls' \in [RoomCalls -> states]
        /\ Admitted' \subseteq Admitted \cup {c}
    BY <1>4, RequestGoesOn
  <1>6. /\ IsFiniteSet(Admitted \cup {c}) /\ Cardinality(Admitted \cup {c}) \in Nat
        /\ Cardinality(Admitted \cup {c}) <= Cardinality(Admitted) + 1
    <2>1. IsFiniteSet(Admitted) /\ Cardinality(Admitted) \in Nat
      BY RoomCounts
    <2>2. /\ IsFiniteSet(Admitted \cup {c})
          /\ Cardinality(Admitted \cup {c}) =
               IF c \in Admitted THEN Cardinality(Admitted) ELSE Cardinality(Admitted) + 1
      BY <2>1, FS_AddElement
    <2>. QED BY <2>1, <2>2
  <1>7. Cardinality(Admitted') <= Cardinality(Admitted) + 1 /\ Cardinality(Admitted') \in Nat
    BY <1>5, <1>6, RoomCounts, FS_Subset, FS_CardinalityType
  <1>8. RoomShape'
    BY <1>1, <1>5 DEF RoomInv, RoomShape, Exists
  <1>9. ReadLimits'
    BY <1>1, <1>4, <1>5 DEF RoomInv, ReadLimits, Sound
  <1>10. (highest > 0 => Cardinality(members) + Cardinality(Admitted) <= Spare)'
    BY <1>1, <1>7, RoomCounts DEF RoomInv, Spare
  <1>. QED BY <1>8, <1>9, <1>10 DEF RoomInv

LEMMA FindMemberKeeps ==
    ASSUME RoomInv, NEW c \in RoomCalls, findMember(c)
    PROVE  RoomInv'
  <1>1. roomCalls[c].step = "look" /\ UNCHANGED <<room, members, highest, miscounts>>
    BY DEF findMember, At, OnlyCall
  <1>2. CASE Fits(roomCalls[c]) /\ Then(c, [step |-> "add", guest |-> roomCalls[c].guest])
    <2> DEFINE to == [step |-> "add", guest |-> roomCalls[c].guest]
    <2>1. to.step = "add" /\ Then(c, to) /\ c \in Admitted
      BY <1>1, <1>2 DEF Admitted
    <2>. HIDE DEF to
    <2>2. Sound(to)
      BY <2>1 DEF Sound
    <2>. QED BY <1>1, <2>1, <2>2, NobodyEnters
  <1>3. CASE Then(c, RoomServed)
    BY <1>1, <1>3, ServedKeeps
  <1>. QED BY <1>2, <1>3 DEF findMember

LEMMA LookMemberKeeps ==
    ASSUME RoomInv, NEW c \in RoomCalls, NEW guest, lookMember(c, guest)
    PROVE  RoomInv'
  <1> DEFINE to == [step |-> "leave", guest |-> guest]
  <1>1. Then(c, to) /\ to.step = "leave" /\ UNCHANGED <<room, members, highest, miscounts>>
    BY DEF lookMember, OnlyCall
  <1>. HIDE DEF to
  <1>2. Sound(to)
    BY <1>1 DEF Sound
  <1>. QED BY <1>1, <1>2, NobodyEnters

\* The creator may lower the limit, but not what the highest has been.
LEMMA UpdateRoomKeeps ==
    ASSUME RoomInv, NEW status \in {"active", "archived"}, NEW limit \in MaxParticipants,
           updateRoom(status, limit)
    PROVE  RoomInv'
  <1>1. /\ room'.status = status /\ room'.limit = limit
        /\ UNCHANGED <<members, roomCalls, miscounts>>
        /\ highest' = Higher(limit)
        /\ Exists
    BY DEF updateRoom
  <1>2. /\ limit = Unlimited \/ (limit \in Nat /\ limit > 0)
        /\ highest = Unlimited \/ (highest \in Nat /\ highest > 0)
    BY <1>1, RoomAssumption DEF RoomInv, RoomShape, MaxParticipants
  <1>3. \/ highest' = Unlimited
        \/ /\ highest' \in Nat /\ highest' >= highest /\ highest' >= limit
           /\ highest \in Nat /\ highest > 0 /\ limit \in Nat
    BY <1>1, <1>2 DEF Higher, Unlimited
  <1>4. Admitted' = Admitted
    BY <1>1 DEF Admitted, Fits
  <1>5. RoomShape'
    BY <1>1, <1>2, <1>3 DEF RoomInv, RoomShape, Exists, Unlimited
  <1>6. ReadLimits'
    <2>1. CASE highest' = Unlimited
      BY <1>1, <2>1 DEF RoomInv, ReadLimits, Unlimited
    <2>2. CASE highest' \in Nat /\ highest' >= highest /\ highest \in Nat /\ highest > 0
      BY <1>1, <2>2 DEF RoomInv, ReadLimits
    <2>. QED BY <1>3, <2>1, <2>2
  <1>7. highest' > 0 => Cardinality(members') + Cardinality(Admitted') <= Spare'
    <2>1. CASE highest' = Unlimited
      BY <2>1 DEF Unlimited
    <2>2. CASE highest' \in Nat /\ highest' >= highest /\ highest \in Nat /\ highest > 0
      BY <1>1, <1>4, <2>2, RoomCounts DEF RoomInv, Spare
    <2>. QED BY <1>3, <2>1, <2>2
  <1>. QED BY <1>5, <1>6, <1>7 DEF RoomInv

\* The members go with their room.
LEMMA DeleteRoomKeeps ==
    ASSUME RoomInv, deleteRoom
    PROVE  RoomInv'
  <1>1. /\ room'.status = "none" /\ room'.limit = 0 /\ members' = {}
        /\ UNCHANGED <<roomCalls, highest, miscounts>>
        /\ Exists
    BY DEF deleteRoom, NoRoom
  <1>2. Cardinality(members') = 0 /\ IsFiniteSet(members')
    BY <1>1, FS_EmptySet
  <1>3. Admitted' = Admitted
    BY <1>1 DEF Admitted, Fits
  <1>4. RoomShape'
    BY <1>1, <1>2 DEF RoomInv, RoomShape, Exists
  <1>5. ReadLimits'
    BY <1>1 DEF RoomInv, ReadLimits
  <1>6. Cardinality(members') + Cardinality(Admitted') <= Spare' \/ ~(highest' > 0)
    BY <1>1, <1>2, <1>3, RoomCounts DEF RoomInv, RoomShape, Spare
  <1>. QED BY <1>4, <1>5, <1>6 DEF RoomInv

LEMMA RoomInvAlways == RoomInv /\ [RoomNext]_roomVars => RoomInv'
  <1> SUFFICES ASSUME RoomInv, [RoomNext]_roomVars PROVE RoomInv'
    OBVIOUS
  <1>1. CASE UNCHANGED roomVars
    <2>1. UNCHANGED <<room, members, roomCalls, highest, miscounts>>
      BY <1>1 DEF roomVars
    <2>. QED BY <2>1 DEF RoomInv, RoomShape, ReadLimits, Spare, Admitted, Fits, Exists
  <1>2. CASE RoomNext
    <2>1. ASSUME NEW c \in RoomCalls, NEW guest, NEW limit \in MaxParticipants, createRoom(c, guest, limit)
          PROVE  RoomInv'
      BY <2>1, CreateRoomKeeps
    <2>2. ASSUME NEW c \in RoomCalls, NEW guest, findRoomById(c, guest) PROVE RoomInv'
      BY <2>2, FindRoomKeeps
    <2>3. ASSUME NEW c \in RoomCalls, NEW guest, lookMember(c, guest) PROVE RoomInv'
      BY <2>3, LookMemberKeeps
    <2>4. ASSUME NEW c \in RoomCalls, addMember(c) PROVE RoomInv'
      BY <2>4, AddMemberKeeps
    <2>5. ASSUME NEW c \in RoomCalls, addFails(c) PROVE RoomInv'
      BY <2>5, ServedKeeps DEF addFails, OnlyCall
    <2>6. ASSUME NEW c \in RoomCalls, countMembers(c) PROVE RoomInv'
      BY <2>6, CountMembersKeeps
    <2>7. ASSUME NEW c \in RoomCalls, countFails(c) PROVE RoomInv'
      BY <2>7, CountFailsKeeps
    <2>8. ASSUME NEW c \in RoomCalls, findMember(c) PROVE RoomInv'
      BY <2>8, FindMemberKeeps
    <2>9. ASSUME NEW c \in RoomCalls, removeMember(c) PROVE RoomInv'
      BY <2>9, ServedKeeps DEF removeMember
    <2>10. ASSUME NEW status \in {"active", "archived"}, NEW limit \in MaxParticipants,
                  updateRoom(status, limit)
           PROVE  RoomInv'
      BY <2>10, UpdateRoomKeeps
    <2>11. ASSUME deleteRoom PROVE RoomInv'
      BY <2>11, DeleteRoomKeeps
    <2>. QED BY <1>2, <2>1, <2>2, <2>3, <2>4, <2>5, <2>6, <2>7, <2>8, <2>9, <2>10, <2>11
             DEF RoomNext
  <1>. QED BY <1>1, <1>2

(* However joins, leaves, changes of the limit and failed counts overlap, a   *)
(* room that always had a limit is never overfilled by more than the joins at *)
(* work at once, less one, and the counts that failed                         *)
(* (study-room.service.ts, joinRoom).                                         *)
THEOREM RoomsOverfillByRacesOnly == RoomSpec => []OverfullByRacesOnly
  <1>1. RoomInv => OverfullByRacesOnly
    BY RoomCounts DEF RoomInv, RoomShape, Spare, OverfullByRacesOnly
  <1>. QED BY <1>1, InitRoom, RoomInvAlways, PTL DEF RoomSpec

-----------------------------------------------------------------------------
(* The registry. A transaction that is not refused leaves no row active but  *)
(* its own: it has deactivated every row that was active when it commits,    *)
(* because a row that became active meanwhile would have refused it.         *)

IdsOf(set) == {r.id : r \in set}

\* A call is a record of these fields.
PublishIn(A, B, E, M, S, T, N) ==
    [step : A, build : B, expected : E, max : M, seen : S, target : T, tries : N]

IsPublish(c) == \E A, B, E, M, S, T, N : c \in PublishIn(A, B, E, M, S, T, N)

RegInv ==
    /\ \E ids, builds, versions :
         rows \subseteq [id : ids, build : builds, version : versions, active : BOOLEAN]
    /\ \E states : calls \in [Publishers -> states]
    /\ \A q \in Publishers : IsPublish(calls[q])
    /\ \A q \in Publishers :
         calls[q].step \in {"activate", "switch"} => calls[q].target \in IdsOf(rows)
    /\ rows # {} => \E i : activeIds = {i}

LEMMA RestsSound == IsPublish(AtRest) /\ AtRest.step = "idle"
  <1>1. PICK i, b, z, s : i = "idle" /\ b = (CHOOSE x \in Builds : TRUE) /\ z = 0 /\ s = {}
    OBVIOUS
  <1>2. AtRest = [step |-> i, build |-> b, expected |-> z, max |-> z, seen |-> s, target |-> z,
                  tries |-> z]
    BY <1>1 DEF AtRest
  <1>3. AtRest \in PublishIn({i}, {b}, {z}, {z}, {s}, {z}, {z})
    BY <1>2 DEF PublishIn
  <1>. QED BY <1>1, <1>2, <1>3 DEF IsPublish
LEMMA RegInitially == RegInit => RegInv
  <1> SUFFICES ASSUME RegInit PROVE RegInv
    OBVIOUS
  <1>1. calls \in [Publishers -> {AtRest}] /\ rows = {}
    BY DEF RegInit
  <1>2. IsPublish(AtRest) /\ AtRest.step = "idle"
    BY RestsSound
  <1>3. \E states : calls \in [Publishers -> states]
    BY <1>1
  <1>4. \A q \in Publishers : calls[q] = AtRest
    BY <1>1
  <1>. HIDE DEF IsPublish
  <1>. QED BY <1>1, <1>2, <1>3, <1>4 DEF RegInv

\* A call goes on and the rows stay, or keep at least their ids.
LEMMA PublishGoesOn ==
    ASSUME RegInv, NEW q \in Publishers, NEW c, goes(q, c), IsPublish(c),
           IdsOf(rows) \subseteq IdsOf(rows'),
           c.step \in {"activate", "switch"} => c.target \in IdsOf(rows)
    PROVE  /\ \E states : calls' \in [Publishers -> states]
           /\ \A p \in Publishers : IsPublish(calls'[p])
           /\ \A p \in Publishers :
                calls'[p].step \in {"activate", "switch"} => calls'[p].target \in IdsOf(rows')
  <1>1. PICK states : calls \in [Publishers -> states]
    BY DEF RegInv
  <1>2. /\ calls' \in [Publishers -> states \cup {c}]
        /\ calls'[q] = c /\ \A p \in Publishers \ {q} : calls'[p] = calls[p]
    BY <1>1 DEF goes
  <1>3. \A p \in Publishers \ {q} :
          /\ IsPublish(calls[p])
          /\ calls[p].step \in {"activate", "switch"} => calls[p].target \in IdsOf(rows)
    BY DEF RegInv
  <1>. HIDE DEF IsPublish, IdsOf
  <1>4. \A p \in Publishers :
          /\ IsPublish(calls'[p])
          /\ calls'[p].step \in {"activate", "switch"} => calls'[p].target \in IdsOf(rows)
    BY <1>2, <1>3
  <1>. QED BY <1>2, <1>4

LEMMA RowsStay ==
    ASSUME RegInv, NEW q \in Publishers, NEW c, goes(q, c), IsPublish(c), UNCHANGED rows,
           c.step \in {"activate", "switch"} => c.target \in IdsOf(rows)
    PROVE  RegInv'
  <1>1. IdsOf(rows) \subseteq IdsOf(rows')
    BY DEF IdsOf
  <1>2. /\ \E states : calls' \in [Publishers -> states]
        /\ \A p \in Publishers : IsPublish(calls'[p])
        /\ \A p \in Publishers :
             calls'[p].step \in {"activate", "switch"} => calls'[p].target \in IdsOf(rows')
    BY <1>1, PublishGoesOn
  <1>3. activeIds' = activeIds
    BY DEF activeIds
  <1>. QED BY <1>2, <1>3 DEF RegInv, IsPublish

\* Calling the function again forgets what the call had read.
LEMMA AgainSound ==
    ASSUME RegInv, NEW q \in Publishers, NEW first \in {"publish", "rollback"}, again(q, first)
    PROVE  \E c : goes(q, c) /\ IsPublish(c) /\ c.step \notin {"activate", "switch"}
  <1>1. CASE goes(q, AtRest)
    BY <1>1, RestsSound
  <1>2. CASE goes(q, [calls[q] EXCEPT !.step = first, !.seen = {}, !.tries = @ + 1])
    <2>1. PICK c : c = calls[q]
      OBVIOUS
    <2>2. IsPublish(c)
      BY <2>1 DEF RegInv
    <2> DEFINE to == [c EXCEPT !.step = first, !.seen = {}, !.tries = @ + 1]
    <2>3. PICK n : n = c.tries + 1
      OBVIOUS
    <2>4. to = [c EXCEPT !.step = first, !.seen = {}, !.tries = n]
      BY <2>3
    <2>. HIDE DEF to
    <2>5. PICK none : none = {}
      OBVIOUS
    <2>6. IsPublish(to) /\ to.step = first
      <3>1. PICK A, B, E, M, S, T, N : c \in PublishIn(A, B, E, M, S, T, N)
        BY <2>2, <2>4, <2>5 DEF IsPublish
      <3>2. to \in PublishIn(A \cup {first}, B, E, M, S \cup {none}, T, N \cup {n}) /\ to.step = first
        BY <2>2, <2>4, <2>5, <3>1 DEF PublishIn
      <3>. QED BY <3>2 DEF IsPublish
    <2>7. goes(q, to)
      BY <1>2, <2>1 DEF to
    <2>. QED BY <2>6, <2>7
  <1>. QED BY <1>1, <1>2 DEF again

\* The row that is active once a transaction has committed.
LEMMA CommitKeeps ==
    ASSUME RegInv, NEW q \in Publishers, NEW c, goes(q, c), IsPublish(c),
           c.step \notin {"activate", "switch"}, ~conflicts(q),
           NEW ids, NEW builds, NEW versions,
           rows' \subseteq [id : ids, build : builds, version : versions, active : BOOLEAN],
           IdsOf(rows) \subseteq IdsOf(rows'), \E i : activeIds' = {i}
    PROVE  RegInv'
  <1>1. /\ \E states : calls' \in [Publishers -> states]
        /\ \A p \in Publishers : IsPublish(calls'[p])
        /\ \A p \in Publishers :
             calls'[p].step \in {"activate", "switch"} => calls'[p].target \in IdsOf(rows')
    BY PublishGoesOn
  <1>. QED BY <1>1 DEF RegInv, IsPublish

\* Nothing that was active is left so, and no row is lost.
LEMMA NoneLeft ==
    ASSUME RegInv, NEW off, activeIds \subseteq off,
           NEW ids, NEW builds, NEW versions,
           rows \subseteq [id : ids, build : builds, version : versions, active : BOOLEAN]
    PROVE  /\ deactivated(off) \subseteq [id : ids, build : builds, version : versions, active : BOOLEAN]
           /\ \A r \in deactivated(off) : ~r.active
           /\ IdsOf(deactivated(off)) = IdsOf(rows)
  <1> DEFINE out(r) == IF r.id \in off THEN [r EXCEPT !.active = FALSE] ELSE r
  <1>1. ASSUME NEW r \in rows
        PROVE  /\ out(r) \in [id : ids, build : builds, version : versions, active : BOOLEAN]
               /\ out(r).id = r.id /\ ~out(r).active
    <2>1. r \in [id : ids, build : builds, version : versions, active : BOOLEAN]
      OBVIOUS
    <2>2. CASE r.id \in off
      BY <2>1, <2>2
    <2>3. CASE r.id \notin off
      <3>1. ~r.active
        BY <2>3 DEF activeIds
      <3>. QED BY <2>1, <2>3, <3>1
    <2>. QED BY <2>2, <2>3
  <1>2. deactivated(off) = {out(r) : r \in rows}
    BY DEF deactivated
  <1>. HIDE DEF out
  <1>. QED BY <1>1, <1>2 DEF IdsOf

LEMMA CommitPublishKeeps ==
    ASSUME RegInv, NEW q \in Publishers, commitPublish(q)
    PROVE  RegInv'
  <1>1. CASE conflicts(q)
    <2>1. goes(q, AtRest) /\ UNCHANGED rows
      BY <1>1 DEF commitPublish
    <2>. QED BY <2>1, RestsSound, RowsStay
  <1>2. CASE ~conflicts(q)
    <2>1. rows' = inserted(q) /\ (goes(q, AtRest) \/ again(q, "publish"))
      BY <1>2 DEF commitPublish
    <2>2. PICK c : goes(q, c) /\ IsPublish(c) /\ c.step \notin {"activate", "switch"}
      BY <2>1, RestsSound, AgainSound
    <2>3. PICK ids, builds, versions :
            rows \subseteq [id : ids, build : builds, version : versions, active : BOOLEAN]
      BY DEF RegInv
    <2>4. PICK n, b, v : n = Cardinality(rows) + 1 /\ b = calls[q].build /\ v = calls[q].max + 1
      OBVIOUS
    <2>5. PICK off : off = calls[q].seen
      OBVIOUS
    <2> DEFINE new == [id |-> n, build |-> b, version |-> v, active |-> TRUE]
    <2>6. rows' = deactivated(off) \cup {new}
      BY <2>1, <2>4, <2>5 DEF inserted
    <2>7. /\ deactivated(off) \subseteq
               [id : ids, build : builds, version : versions, active : BOOLEAN]
          /\ \A r \in deactivated(off) : ~r.active
          /\ IdsOf(deactivated(off)) = IdsOf(rows)
      BY <1>2, <2>3, <2>5, NoneLeft DEF conflicts
    <2>8. /\ new.id = n /\ new.active
          /\ new \in [id : ids \cup {n}, build : builds \cup {b}, version : versions \cup {v},
                      active : BOOLEAN]
      OBVIOUS
    <2>. HIDE DEF new
    <2>9. rows' \subseteq [id : ids \cup {n}, build : builds \cup {b}, version : versions \cup {v},
                           active : BOOLEAN]
      BY <2>6, <2>7, <2>8
    <2>10. IdsOf(rows) \subseteq IdsOf(rows')
      BY <2>6, <2>7 DEF IdsOf
    <2>11. activeIds' = {n}
      BY <2>6, <2>7, <2>8 DEF activeIds
    <2>. QED BY <1>2, <2>2, <2>9, <2>10, <2>11, CommitKeeps
  <1>. QED BY <1>1, <1>2

LEMMA CommitRollbackKeeps ==
    ASSUME RegInv, NEW q \in Publishers, commitRollback(q)
    PROVE  RegInv'
  <1>1. CASE conflicts(q)
    <2>1. goes(q, AtRest) /\ UNCHANGED rows
      BY <1>1 DEF commitRollback
    <2>. QED BY <2>1, RestsSound, RowsStay
  <1>2. CASE ~conflicts(q)
    <2>1. /\ rows' = switched(q) /\ (goes(q, AtRest) \/ again(q, "rollback"))
          /\ calls[q].step = "switch"
      BY <1>2 DEF commitRollback
    <2>2. PICK c : goes(q, c) /\ IsPublish(c) /\ c.step \notin {"activate", "switch"}
      BY <2>1, RestsSound, AgainSound
    <2>3. PICK ids, builds, versions :
            rows \subseteq [id : ids, build : builds, version : versions, active : BOOLEAN]
      BY DEF RegInv
    <2>4. PICK t, v, off : t = calls[q].target /\ v = calls[q].max + 1 /\ off = calls[q].seen
      OBVIOUS
    <2> DEFINE on(r) == IF r.id = t THEN [r EXCEPT !.active = TRUE, !.version = v] ELSE r
    <2>5. rows' = {on(r) : r \in deactivated(off)}
      BY <2>1, <2>4 DEF switched
    <2>6. /\ deactivated(off) \subseteq
               [id : ids, build : builds, version : versions, active : BOOLEAN]
          /\ \A r \in deactivated(off) : ~r.active
          /\ IdsOf(deactivated(off)) = IdsOf(rows)
      BY <1>2, <2>3, <2>4, NoneLeft DEF conflicts
    <2>7. ASSUME NEW r \in deactivated(off)
          PROVE  /\ on(r) \in [id : ids, build : builds, version : versions \cup {v},
                               active : BOOLEAN]
                 /\ on(r).id = r.id /\ (on(r).active <=> r.id = t)
      <3>1. r \in [id : ids, build : builds, version : versions, active : BOOLEAN] /\ ~r.active
        BY <2>6
      <3>2. CASE r.id = t
        <4>1. on(r) = [r EXCEPT !.active = TRUE, !.version = v]
          BY <3>2
        <4>. HIDE DEF on
        <4>. QED BY <3>1, <3>2, <4>1
      <3>3. CASE r.id # t
        BY <3>1, <3>3
      <3>. QED BY <3>2, <3>3
    <2>. HIDE DEF on
    <2>8. rows' \subseteq [id : ids, build : builds, version : versions \cup {v}, active : BOOLEAN]
      BY <2>5, <2>7
    <2>9. IdsOf(rows') = IdsOf(rows)
      BY <2>5, <2>6, <2>7 DEF IdsOf
    <2>10. t \in IdsOf(deactivated(off))
      BY <2>1, <2>4, <2>6 DEF RegInv
    <2>11. activeIds' = {t}
      <3>1. activeIds' \subseteq {t}
        BY <2>5, <2>7 DEF activeIds
      <3>2. PICK r \in deactivated(off) : r.id = t
        BY <2>10 DEF IdsOf
      <3>3. on(r) \in rows' /\ on(r).active /\ on(r).id = t
        BY <2>5, <2>7, <3>2
      <3>. QED BY <3>1, <3>3 DEF activeIds
    <2>. QED BY <1>2, <2>2, <2>8, <2>9, <2>11, CommitKeeps
  <1>. QED BY <1>1, <1>2

LEMMA CallStarts ==
    ASSUME NEW q \in Publishers, NEW b, publish(q, b) \/ rollback(q, b)
    PROVE  UNCHANGED rows /\ \E c : goes(q, c) /\ IsPublish(c) /\ c.step \in {"publish", "rollback"}
  <1>1. PICK rest : rest = AtRest
    OBVIOUS
  <1>2. IsPublish(rest)
    BY <1>1, RestsSound
  <1>3. CASE publish(q, b)
    <2>1. PICK e : goes(q, [rest EXCEPT !.step = "publish", !.build = b, !.expected = e])
      BY <1>1, <1>3 DEF publish
    <2>2. PICK i, to : i = "publish" /\ to = [rest EXCEPT !.step = i, !.build = b, !.expected = e]
      OBVIOUS
    <2>3. IsPublish(to) /\ to.step = i
      <3>1. PICK A, B, E, M, S, T, N : rest \in PublishIn(A, B, E, M, S, T, N)
        BY <1>2, <2>2 DEF IsPublish
      <3>2. to \in PublishIn(A \cup {i}, B \cup {b}, E \cup {e}, M, S, T, N) /\ to.step = i
        BY <1>2, <2>2, <3>1 DEF PublishIn
      <3>. QED BY <3>2 DEF IsPublish
    <2>. QED BY <1>3, <2>1, <2>2, <2>3 DEF publish
  <1>4. CASE rollback(q, b)
    <2>1. goes(q, [rest EXCEPT !.step = "rollback", !.build = b])
      BY <1>1, <1>4 DEF rollback
    <2>2. PICK i, to : i = "rollback" /\ to = [rest EXCEPT !.step = i, !.build = b]
      OBVIOUS
    <2>3. IsPublish(to) /\ to.step = i
      <3>1. PICK A, B, E, M, S, T, N : rest \in PublishIn(A, B, E, M, S, T, N)
        BY <1>2, <2>2 DEF IsPublish
      <3>2. to \in PublishIn(A \cup {i}, B \cup {b}, E, M, S, T, N) /\ to.step = i
        BY <1>2, <2>2, <3>1 DEF PublishIn
      <3>. QED BY <3>2 DEF IsPublish
    <2>. QED BY <1>4, <2>1, <2>2, <2>3 DEF rollback
  <1>. QED BY <1>3, <1>4

LEMMA RegInvAlways == RegInv /\ [RegNext]_regVars => RegInv'
  <1> SUFFICES ASSUME RegInv, [RegNext]_regVars PROVE RegInv'
    OBVIOUS
  <1>1. CASE UNCHANGED regVars
    <2>1. UNCHANGED <<rows, calls>>
      BY <1>1 DEF regVars
    <2>. QED BY <2>1 DEF RegInv, IsPublish, IdsOf, activeIds
  <1>2. CASE RegNext
    <2>1. PICK q \in Publishers :
            \/ \E b \in Builds : publish(q, b) \/ rollback(q, b)
            \/ checkVersion(q) \/ deactivate(q) \/ commitPublish(q)
            \/ findTarget(q) \/ deactivateAll(q) \/ commitRollback(q) \/ loseCall(q)
      BY <1>2 DEF RegNext
    <2>2. CASE \E b \in Builds : publish(q, b) \/ rollback(q, b)
      <3>1. PICK c : goes(q, c) /\ IsPublish(c) /\ c.step \in {"publish", "rollback"} /\ UNCHANGED rows
        BY <2>2, CallStarts
      <3>. QED BY <3>1, RowsStay
    <2>3. CASE checkVersion(q)
      <3>1. PICK m : m = maxVersion
        OBVIOUS
      <3>2. UNCHANGED rows /\ \/ goes(q, AtRest)
                              \/ goes(q, [calls[q] EXCEPT !.step = "deactivate", !.max = m])
        BY <2>3, <3>1 DEF checkVersion
      <3>3. PICK c : c = calls[q] /\ IsPublish(c)
        BY DEF RegInv
      <3>4. PICK d : goes(q, d) /\ IsPublish(d) /\ d.step \in {"idle", "deactivate"}
        <4>1. PICK i, to : i = "deactivate" /\ to = [c EXCEPT !.step = i, !.max = m]
          OBVIOUS
        <4>2. IsPublish(to) /\ to.step = i
          <5>1. PICK A, B, E, M, S, T, N : c \in PublishIn(A, B, E, M, S, T, N)
            BY <3>3, <4>1 DEF IsPublish
          <5>2. to \in PublishIn(A \cup {i}, B, E, M \cup {m}, S, T, N) /\ to.step = i
            BY <3>3, <4>1, <5>1 DEF PublishIn
          <5>. QED BY <5>2 DEF IsPublish
        <4>. QED BY <3>2, <3>3, <4>1, <4>2, RestsSound
      <3>. QED BY <3>2, <3>4, RowsStay
    <2>4. CASE deactivate(q)
      <3>1. PICK c : c = calls[q] /\ IsPublish(c)
        BY DEF RegInv
      <3>2. PICK d : goes(q, d) /\ IsPublish(d) /\ d.step = "insert" /\ UNCHANGED rows
        <4>1. PICK i, s, to : i = "insert" /\ s = activeIds /\ to = [c EXCEPT !.step = i, !.seen = s]
          OBVIOUS
        <4>2. IsPublish(to) /\ to.step = i
          <5>1. PICK A, B, E, M, S, T, N : c \in PublishIn(A, B, E, M, S, T, N)
            BY <3>1, <4>1 DEF IsPublish
          <5>2. to \in PublishIn(A \cup {i}, B, E, M, S \cup {s}, T, N) /\ to.step = i
            BY <3>1, <4>1, <5>1 DEF PublishIn
          <5>. QED BY <5>2 DEF IsPublish
        <4>. QED BY <2>4, <3>1, <4>1, <4>2 DEF deactivate
      <3>. QED BY <3>2, RowsStay
    <2>5. CASE commitPublish(q)
      BY <2>5, CommitPublishKeeps
    <2>6. CASE findTarget(q)
      <3>1. PICK m : m = maxVersion
        OBVIOUS
      <3>2. UNCHANGED rows /\ \/ goes(q, AtRest)
                              \/ \E r \in rows :
                                   goes(q, [calls[q] EXCEPT !.step = "activate", !.target = r.id, !.max = m])
        BY <2>6, <3>1 DEF findTarget
      <3>3. CASE goes(q, AtRest)
        BY <3>2, <3>3, RestsSound, RowsStay
      <3>4. CASE \E r \in rows :
                   goes(q, [calls[q] EXCEPT !.step = "activate", !.target = r.id, !.max = m])
        <4>1. PICK r \in rows :
                goes(q, [calls[q] EXCEPT !.step = "activate", !.target = r.id, !.max = m])
          BY <3>4
        <4>2. PICK d : d = calls[q] /\ IsPublish(d)
          BY DEF RegInv
        <4>3. PICK i : i = r.id
          OBVIOUS
        <4>4. goes(q, [d EXCEPT !.step = "activate", !.target = i, !.max = m])
          BY <4>1, <4>2, <4>3
        <4>5. PICK c : goes(q, c) /\ IsPublish(c) /\ c.step = "activate" /\ c.target = r.id
          <5>1. PICK j, to : j = "activate" /\ to = [d EXCEPT !.step = j, !.target = i, !.max = m]
            OBVIOUS
          <5>2. IsPublish(to) /\ to.step = j /\ to.target = i
            <6>1. PICK A, B, E, M, S, T, N : d \in PublishIn(A, B, E, M, S, T, N)
              BY <4>2, <5>1 DEF IsPublish
            <6>2. to \in PublishIn(A \cup {j}, B, E, M \cup {m}, S, T \cup {i}, N) /\ to.step = j /\ to.target = i
              BY <4>2, <5>1, <6>1 DEF PublishIn
            <6>. QED BY <6>2 DEF IsPublish
          <5>. QED BY <4>3, <4>4, <5>1, <5>2
        <4>6. c.target \in IdsOf(rows)
          BY <4>5 DEF IdsOf
        <4>. QED BY <3>2, <4>5, <4>6, RowsStay
      <3>. QED BY <3>2, <3>3, <3>4
    <2>7. CASE deactivateAll(q)
      <3>1. calls[q].step = "activate" /\ UNCHANGED rows
            /\ goes(q, [calls[q] EXCEPT !.step = "switch", !.seen = {r.id : r \in rows}])
        BY <2>7 DEF deactivateAll
      <3>2. PICK d : d = calls[q] /\ IsPublish(d)
        BY DEF RegInv
      <3>3. PICK c : goes(q, c) /\ IsPublish(c) /\ c.step = "switch" /\ c.target = calls[q].target
        <4>1. PICK j, s, to : /\ j = "switch" /\ s = {r.id : r \in rows}
                              /\ to = [d EXCEPT !.step = j, !.seen = s]
          OBVIOUS
        <4>2. IsPublish(to) /\ to.step = j /\ to.target = d.target
          <5>1. PICK A, B, E, M, S, T, N : d \in PublishIn(A, B, E, M, S, T, N)
            BY <3>2, <4>1 DEF IsPublish
          <5>2. to \in PublishIn(A \cup {j}, B, E, M, S \cup {s}, T, N) /\ to.step = j /\ to.target = d.target
            BY <3>2, <4>1, <5>1 DEF PublishIn
          <5>. QED BY <5>2 DEF IsPublish
        <4>. QED BY <3>1, <3>2, <4>1, <4>2
      <3>4. c.target \in IdsOf(rows)
        BY <3>1, <3>3 DEF RegInv
      <3>. QED BY <3>1, <3>3, <3>4, RowsStay
    <2>8. CASE commitRollback(q)
      BY <2>8, CommitRollbackKeeps
    <2>9. CASE loseCall(q)
      <3>1. PICK first \in {"publish", "rollback"} : again(q, first) /\ UNCHANGED rows
        BY <2>9 DEF loseCall
      <3>2. PICK c : goes(q, c) /\ IsPublish(c) /\ c.step \notin {"activate", "switch"}
        BY <3>1, AgainSound
      <3>. QED BY <3>1, <3>2, RowsStay
    <2>. QED BY <2>1, <2>2, <2>3, <2>4, <2>5, <2>6, <2>7, <2>8, <2>9
  <1>. QED BY <1>1, <1>2

(* Whatever publishes and rollbacks overlap, are made again or lose their     *)
(* connection, a published contract has exactly one active build              *)
(* (contract-registry.repository.ts and its two database functions).          *)
THEOREM RegistryNamesOneBuild == RegSpec => []AlwaysOneBuild
  <1>1. RegInv => AlwaysOneBuild
    BY FS_Singleton DEF RegInv, AlwaysOneBuild
  <1>. QED BY <1>1, RegInitially, RegInvAlways, PTL DEF RegSpec

-----------------------------------------------------------------------------
(* Reconciliation. A row that settled while no run held an answer for it is  *)
(* asked about only afterwards, and what settled does not change: every      *)
(* answer that any run holds for it from then on is the one it will have.    *)

Settled == {"confirmed", "rejected", "emptied", "merged"}

AnswerFor(x, table) ==
    IF table = "escrows" THEN resolveEscrowOnChainState(x) ELSE resolvePaymentOnChainState(x)

Told(x) ==
    \/ chain[x] = "confirmed" /\ dbRow[x] = "paid"
    \/ chain[x] = "rejected" /\ dbRow[x] = "failed"
    \/ chain[x] = "emptied" /\ dbRow[x] = "claimed"
    \/ chain[x] = "merged" /\ dbRow[x] = "irreconcilable"

\* A half of a run holds nothing, or an answer for one of the rows of its table.
HoldsSoundly(l) ==
    /\ \E todos, rs, seens : lane[l] \in [todo : todos, row : rs, seen : seens]
    /\ lane[l].todo \subseteq RowsOf(l[2])
    /\ \/ lane[l].row = {}
       \/ \E x \in RowsOf(l[2]) :
            /\ lane[l].row = {x} /\ lane[l].seen # "none"
            /\ x \in settledFirst => lane[l].seen = AnswerFor(x, l[2])

ReconInv ==
    /\ \E states : dbRow \in [Rows -> states]
    /\ \E states : chain \in [Rows -> states]
    /\ \E states : lane \in [Runners \X Tables -> states]
    /\ \A x \in PaymentRows : chain[x] \in {"missing", "confirmed", "rejected"}
    /\ \A x \in EscrowRows : chain[x] \in {"missing", "funded", "emptied", "merged"}
    /\ settledFirst \subseteq Rows
    /\ \A x \in settledFirst : chain[x] \in Settled /\ (dbRow[x] \notin Undecided => Told(x))
    /\ \A l \in Runners \X Tables : HoldsSoundly(l)

LEMMA ReconInitially == ReconInit => ReconInv
  <1> SUFFICES ASSUME ReconInit PROVE ReconInv
    OBVIOUS
  <1>1. dbRow \in [Rows -> {"pending"}] /\ chain \in [Rows -> {"missing"}] /\ settledFirst = {}
    BY DEF ReconInit
  <1>2. lane \in [Runners \X Tables -> {NoLane}]
    BY DEF ReconInit
  <1>3. \A x \in Rows : chain[x] = "missing"
    BY <1>1
  <1>4. \A l \in Runners \X Tables : lane[l] = NoLane
    BY <1>2
  <1>5. PICK none, nobody : none = "none" /\ nobody = {}
    OBVIOUS
  <1>6. NoLane = [todo |-> nobody, row |-> nobody, seen |-> none]
    BY <1>5 DEF NoLane
  <1>7. NoLane \in [todo : {nobody}, row : {nobody}, seen : {none}] /\ NoLane.todo = {} /\ NoLane.row = {}
    BY <1>5, <1>6
  <1>8. \A l \in Runners \X Tables : HoldsSoundly(l)
    BY <1>4, <1>7 DEF HoldsSoundly
  <1>9. \E states : dbRow \in [Rows -> states]
    BY <1>1
  <1>10. \E states : chain \in [Rows -> states]
    BY <1>1
  <1>11. \E states : lane \in [Runners \X Tables -> states]
    BY <1>2
  <1>12. PaymentRows \subseteq Rows /\ EscrowRows \subseteq Rows
    BY DEF Rows
  <1>. QED BY <1>1, <1>3, <1>8, <1>9, <1>10, <1>11, <1>12 DEF ReconInv

\* What the ledger says of a row that settled is what its table will say.
LEMMA SettleKeeps ==
    ASSUME ReconInv, NEW x \in Rows, Settle(x)
    PROVE  ReconInv'
  <1>1. UNCHANGED <<dbRow, lane>>
    BY DEF Settle
  <1>2. PICK end : /\ chain' = [chain EXCEPT ![x] = end]
                   /\ end \in {"funded", "emptied", "merged", "confirmed", "rejected"}
                   /\ end \notin Settled => end = "funded"
                   /\ x \in EscrowRows => end \in {"funded", "emptied", "merged"}
                   /\ x \in PaymentRows => end \in {"confirmed", "rejected"}
    BY ReconAssumption DEF Settle, Settled
  <1>3. chain[x] \notin Settled
    BY DEF Settle, Settled
  <1>4. x \notin settledFirst
    BY <1>3 DEF ReconInv
  <1>5. PICK states : chain \in [Rows -> states]
    BY DEF ReconInv
  <1>6. /\ chain' \in [Rows -> states \cup {end}]
        /\ chain'[x] = end /\ \A y \in Rows \ {x} : chain'[y] = chain[y]
    BY <1>2, <1>5
  <1>7. /\ settledFirst' \subseteq settledFirst \cup {x} /\ settledFirst \subseteq settledFirst'
        /\ x \in settledFirst' => end # "funded" /\ HeldBy(x) = {} /\ dbRow[x] \in Undecided
    BY <1>4, <1>6 DEF Settle
  <1>8. \A y \in settledFirst' : chain'[y] \in Settled /\ (dbRow'[y] \notin Undecided => Told(y)')
    <2> SUFFICES ASSUME NEW y \in settledFirst'
                 PROVE  chain'[y] \in Settled /\ (dbRow'[y] \notin Undecided => Told(y)')
      OBVIOUS
    <2>1. CASE y = x
      BY <1>1, <1>2, <1>6, <1>7, <2>1
    <2>2. CASE y # x
      <3>1. y \in settledFirst /\ y \in Rows
        BY <1>7, <2>2 DEF ReconInv
      <3>. QED BY <1>1, <1>6, <2>2, <3>1 DEF ReconInv, Told
    <2>. QED BY <2>1, <2>2
  <1>9. \A l \in Runners \X Tables : HoldsSoundly(l)'
    <2> SUFFICES ASSUME NEW l \in Runners \X Tables PROVE HoldsSoundly(l)'
      OBVIOUS
    <2>1. HoldsSoundly(l) /\ lane'[l] = lane[l]
      BY <1>1 DEF ReconInv
    <2>2. CASE lane[l].row = {}
      BY <2>1, <2>2 DEF HoldsSoundly
    <2>3. CASE lane[l].row # {}
      <3>1. PICK y \in RowsOf(l[2]) :
              /\ lane[l].row = {y} /\ lane[l].seen # "none"
              /\ y \in settledFirst => lane[l].seen = AnswerFor(y, l[2])
        BY <2>1, <2>3 DEF HoldsSoundly
      <3>2. y \in settledFirst' => y # x /\ y \in settledFirst
        BY <1>7, <3>1 DEF HeldBy
      <3>3. y \in settledFirst' => lane'[l].seen = AnswerFor(y, l[2])'
        <4> SUFFICES ASSUME y \in settledFirst' PROVE lane'[l].seen = AnswerFor(y, l[2])'
          OBVIOUS
        <4>1. y # x /\ y \in settledFirst /\ y \in Rows
          BY <3>2 DEF ReconInv
        <4>2. chain'[y] = chain[y] /\ chain[y] \in Settled
          BY <1>6, <4>1 DEF ReconInv
        <4>3. resolveEscrowOnChainState(y)' = resolveEscrowOnChainState(y)
          BY <4>2 DEF resolveEscrowOnChainState, Settled
        <4>4. resolvePaymentOnChainState(y)' = resolvePaymentOnChainState(y)
          BY <4>2 DEF resolvePaymentOnChainState
        <4>. QED BY <2>1, <3>1, <4>1, <4>3, <4>4 DEF AnswerFor
      <3>. QED BY <2>1, <3>1, <3>3 DEF HoldsSoundly
    <2>. QED BY <2>2, <2>3
  <1>10. \E any : chain' \in [Rows -> any]
    BY <1>6
  <1>11. /\ \A y \in PaymentRows : chain'[y] \in {"missing", "confirmed", "rejected"}
         /\ \A y \in EscrowRows : chain'[y] \in {"missing", "funded", "emptied", "merged"}
    BY <1>2, <1>6 DEF ReconInv, Rows
  <1>12. settledFirst' \subseteq Rows
    BY <1>7 DEF ReconInv
  <1>. QED BY <1>1, <1>8, <1>9, <1>10, <1>11, <1>12 DEF ReconInv

\* A settled escrow answers the same whatever its date.
LEMMA ExpireKeeps ==
    ASSUME ReconInv, NEW x, Expire(x)
    PROVE  ReconInv'
  <1>1. UNCHANGED <<dbRow, chain, lane, settledFirst>>
    BY DEF Expire
  <1>2. ASSUME NEW y \in settledFirst, NEW t PROVE AnswerFor(y, t)' = AnswerFor(y, t)
    <2>1. chain'[y] = chain[y] /\ chain[y] \in Settled
      BY <1>1 DEF ReconInv
    <2>2. resolveEscrowOnChainState(y)' = resolveEscrowOnChainState(y)
      BY <2>1 DEF resolveEscrowOnChainState, Settled
    <2>3. resolvePaymentOnChainState(y)' = resolvePaymentOnChainState(y)
      BY <2>1 DEF resolvePaymentOnChainState
    <2>. QED BY <2>2, <2>3 DEF AnswerFor
  <1>3. \A l \in Runners \X Tables : HoldsSoundly(l)'
    <2> SUFFICES ASSUME NEW l \in Runners \X Tables PROVE HoldsSoundly(l)'
      OBVIOUS
    <2>1. HoldsSoundly(l)
      BY DEF ReconInv
    <2>2. CASE lane[l].row = {}
      BY <1>1, <2>1, <2>2 DEF HoldsSoundly
    <2>3. CASE lane[l].row # {}
      <3>1. PICK y \in RowsOf(l[2]) :
              /\ lane[l].row = {y} /\ lane[l].seen # "none"
              /\ y \in settledFirst => lane[l].seen = AnswerFor(y, l[2])
        BY <2>1, <2>3 DEF HoldsSoundly
      <3>2. y \in settledFirst => lane[l].seen = AnswerFor(y, l[2])'
        BY <1>2, <3>1
      <3>. QED BY <1>1, <2>1, <3>1, <3>2 DEF HoldsSoundly
    <2>. QED BY <2>2, <2>3
  <1>. QED BY <1>1, <1>3 DEF ReconInv, Told

\* What half of a run does to itself.
LEMMA LaneGoesOn ==
    ASSUME ReconInv, NEW k \in Runners \X Tables, NEW to,
           NEW todos, NEW rs, NEW seens, to \in [todo : todos, row : rs, seen : seens],
           lane' = [lane EXCEPT ![k] = to],
           UNCHANGED <<chain, expired, settledFirst>>,
           to.todo \subseteq RowsOf(k[2]),
           \/ to.row = {}
           \/ \E x \in RowsOf(k[2]) : /\ to.row = {x} /\ to.seen # "none"
                                      /\ to.seen = AnswerFor(x, k[2])
    PROVE  /\ \E states : lane' \in [Runners \X Tables -> states]
           /\ \A l \in Runners \X Tables : HoldsSoundly(l)'
  <1>1. PICK states : lane \in [Runners \X Tables -> states]
    BY DEF ReconInv
  <1>2. /\ lane' \in [Runners \X Tables -> states \cup {to}]
        /\ lane'[k] = to /\ \A l \in (Runners \X Tables) \ {k} : lane'[l] = lane[l]
    BY <1>1
  <1>3. ASSUME NEW y, NEW t PROVE AnswerFor(y, t)' = AnswerFor(y, t)
    BY DEF AnswerFor, resolveEscrowOnChainState, resolvePaymentOnChainState
  <1>4. HoldsSoundly(k)'
    <2>1. \E a, b, c : lane'[k] \in [todo : a, row : b, seen : c]
      BY <1>2
    <2>. QED BY <1>2, <1>3, <2>1 DEF HoldsSoundly
  <1>5. ASSUME NEW l \in (Runners \X Tables) \ {k} PROVE HoldsSoundly(l)'
    <2>1. HoldsSoundly(l) /\ lane'[l] = lane[l]
      BY <1>2 DEF ReconInv
    <2>. QED BY <1>3, <2>1 DEF HoldsSoundly
  <1>. QED BY <1>2, <1>4, <1>5

LEMMA LaneKeeps ==
    ASSUME ReconInv, UNCHANGED <<dbRow, chain, settledFirst>>,
           \E states : lane' \in [Runners \X Tables -> states],
           \A l \in Runners \X Tables : HoldsSoundly(l)'
    PROVE  ReconInv'
  <1>1. \A x \in settledFirst' : chain'[x] \in Settled /\ (dbRow'[x] \notin Undecided => Told(x)')
    BY DEF ReconInv, Told
  <1>. QED BY <1>1 DEF ReconInv

LEMMA LaneRests ==
    \E a, b, c : NoLane \in [todo : a, row : b, seen : c] /\ NoLane.todo = {} /\ NoLane.row = {}
  <1>1. PICK none, nobody : none = "none" /\ nobody = {}
    OBVIOUS
  <1>2. NoLane = [todo |-> nobody, row |-> nobody, seen |-> none]
    BY <1>1 DEF NoLane
  <1>3. NoLane \in [todo : {nobody}, row : {nobody}, seen : {none}] /\ NoLane.todo = {} /\ NoLane.row = {}
    BY <1>1, <1>2
  <1>. QED BY <1>3

LEMMA StartKeeps ==
    ASSUME ReconInv, NEW r \in Runners, NEW table \in Tables, startLane(r, table)
    PROVE  ReconInv'
  <1>1. PICK k, todo : k = <<r, table>> /\ todo = fetchPending(table)
    OBVIOUS
  <1>2. k \in Runners \X Tables /\ k[2] = table
    BY <1>1
  <1>3. todo \subseteq RowsOf(table)
    BY <1>1 DEF fetchPending
  <1>4. /\ lane[k] = NoLane /\ lane' = [lane EXCEPT ![k].todo = todo]
        /\ UNCHANGED <<dbRow, chain, expired, settledFirst>>
    BY <1>1 DEF startLane
  <1>5. PICK a, b, c : NoLane \in [todo : a, row : b, seen : c] /\ NoLane.todo = {} /\ NoLane.row = {}
    BY LaneRests
  <1>6. PICK rest : rest = NoLane
    OBVIOUS
  <1> DEFINE to == [rest EXCEPT !.todo = todo]
  <1>7. to \in [todo : a \cup {todo}, row : b, seen : c] /\ to.todo = todo /\ to.row = {}
    BY <1>5, <1>6
  <1>8. lane' = [lane EXCEPT ![k] = to]
    BY <1>4, <1>6
  <1>. HIDE DEF to
  <1>9. /\ \E states : lane' \in [Runners \X Tables -> states]
        /\ \A l \in Runners \X Tables : HoldsSoundly(l)'
    BY <1>2, <1>3, <1>4, <1>7, <1>8, LaneGoesOn
  <1>. QED BY <1>4, <1>9, LaneKeeps

LEMMA AskKeeps ==
    ASSUME ReconInv, NEW r \in Runners, NEW table \in Tables, askHorizon(r, table)
    PROVE  ReconInv'
  <1>1. PICK k : k = <<r, table>>
    OBVIOUS
  <1>2. k \in Runners \X Tables /\ k[2] = table
    BY <1>1
  <1>3. PICK x \in lane[k].todo :
          lane' = [lane EXCEPT ![k] =
                     [todo |-> lane[k].todo \ {x}, row |-> {x},
                      seen |-> IF table = "escrows" THEN resolveEscrowOnChainState(x)
                                                    ELSE resolvePaymentOnChainState(x)]]
    BY <1>1 DEF askHorizon
  <1>4. PICK todo, row, answer : todo = lane[k].todo \ {x} /\ row = {x} /\ answer = AnswerFor(x, table)
    OBVIOUS
  <1> DEFINE to == [todo |-> todo, row |-> row, seen |-> answer]
  <1>5. lane' = [lane EXCEPT ![k] = to]
    BY <1>3, <1>4 DEF AnswerFor
  <1>6. /\ to \in [todo : {todo}, row : {row}, seen : {answer}]
        /\ to.todo = todo /\ to.row = row /\ to.seen = answer
    OBVIOUS
  <1>. HIDE DEF to
  <1>7. UNCHANGED <<dbRow, chain, expired, settledFirst>>
    BY DEF askHorizon
  <1>8. lane[k].todo \subseteq RowsOf(table)
    BY <1>2 DEF ReconInv, HoldsSoundly
  <1>9. answer # "none"
    BY <1>4 DEF AnswerFor, resolveEscrowOnChainState, resolvePaymentOnChainState
  <1>10. /\ to.todo \subseteq RowsOf(k[2]) /\ x \in RowsOf(k[2])
         /\ to.row = {x} /\ to.seen # "none" /\ to.seen = AnswerFor(x, k[2])
    BY <1>2, <1>4, <1>6, <1>8, <1>9
  <1>11. /\ \E states : lane' \in [Runners \X Tables -> states]
         /\ \A l \in Runners \X Tables : HoldsSoundly(l)'
    BY <1>2, <1>5, <1>6, <1>7, <1>10, LaneGoesOn
  <1>. QED BY <1>7, <1>11, LaneKeeps

LEMMA SkipKeeps ==
    ASSUME ReconInv, NEW r \in Runners, NEW table \in Tables, skipRow(r, table)
    PROVE  ReconInv'
  <1>1. PICK k : k = <<r, table>>
    OBVIOUS
  <1>2. k \in Runners \X Tables /\ k[2] = table
    BY <1>1
  <1>3. PICK l : l = lane[k]
    OBVIOUS
  <1>4. PICK todo : /\ todo \subseteq l.todo /\ lane' = [lane EXCEPT ![k] = [l EXCEPT !.todo = todo]]
                    /\ l.row = {}
    <2>1. PICK x \in l.todo : lane' = [lane EXCEPT ![k].todo = @ \ {x}]
      BY <1>1, <1>3 DEF skipRow
    <2>2. PICK todo : todo = l.todo \ {x}
      OBVIOUS
    <2>3. l.row = {}
      BY <1>1, <1>3 DEF skipRow
    <2>4. lane' = [lane EXCEPT ![k] = [l EXCEPT !.todo = todo]]
      BY <1>3, <2>1, <2>2
    <2>. QED BY <2>2, <2>3, <2>4
  <1>5. PICK a, b, c : l \in [todo : a, row : b, seen : c]
    BY <1>2, <1>3 DEF ReconInv, HoldsSoundly
  <1> DEFINE to == [l EXCEPT !.todo = todo]
  <1>6. to \in [todo : a \cup {todo}, row : b, seen : c] /\ to.todo = todo /\ to.row = {}
    BY <1>4, <1>5
  <1>7. lane' = [lane EXCEPT ![k] = to]
    BY <1>4
  <1>. HIDE DEF to
  <1>8. UNCHANGED <<dbRow, chain, expired, settledFirst>>
    BY DEF skipRow
  <1>9. to.todo \subseteq RowsOf(k[2])
    BY <1>2, <1>3, <1>4, <1>6 DEF ReconInv, HoldsSoundly
  <1>10. /\ \E states : lane' \in [Runners \X Tables -> states]
         /\ \A m \in Runners \X Tables : HoldsSoundly(m)'
    BY <1>2, <1>6, <1>7, <1>8, <1>9, LaneGoesOn
  <1>. QED BY <1>8, <1>10, LaneKeeps

LEMMA FailKeeps ==
    ASSUME ReconInv, NEW r \in Runners, NEW table \in Tables, runFails(r, table)
    PROVE  ReconInv'
  <1>1. PICK k : k = <<r, table>>
    OBVIOUS
  <1>2. k \in Runners \X Tables
    BY <1>1
  <1>3. lane' = [lane EXCEPT ![k] = NoLane] /\ UNCHANGED <<dbRow, chain, expired, settledFirst>>
    BY <1>1 DEF runFails
  <1>4. PICK a, b, c : NoLane \in [todo : a, row : b, seen : c] /\ NoLane.todo = {} /\ NoLane.row = {}
    BY LaneRests
  <1>5. /\ \E states : lane' \in [Runners \X Tables -> states]
        /\ \A l \in Runners \X Tables : HoldsSoundly(l)'
    BY <1>2, <1>3, <1>4, LaneGoesOn
  <1>. QED BY <1>3, <1>5, LaneKeeps

\* The row that is written is the one that was asked about, with its answer.
LEMMA ApplyKeeps ==
    ASSUME ReconInv, NEW r \in Runners, NEW table \in Tables, applyTransition(r, table)
    PROVE  ReconInv'
  <1>1. PICK k : k = <<r, table>>
    OBVIOUS
  <1>2. k \in Runners \X Tables /\ k[2] = table
    BY <1>1
  <1>3. PICK l : l = lane[k]
    OBVIOUS
  <1>4. l.row # {} /\ UNCHANGED <<chain, expired, settledFirst>>
    BY <1>1, <1>3 DEF applyTransition
  <1>5. PICK x \in RowsOf(table) :
          /\ l.row = {x} /\ l.seen # "none"
          /\ x \in settledFirst => l.seen = AnswerFor(x, table)
    BY <1>2, <1>3, <1>4 DEF ReconInv, HoldsSoundly
  <1>6. x \in Rows
    BY <1>5 DEF RowsOf, Rows
  <1>7. (CHOOSE y \in Rows : l.row = {y}) = x
    BY <1>5, <1>6
  <1>8. /\ lane' = [lane EXCEPT ![k] = [NoLane EXCEPT !.todo = l.todo]]
        /\ \/ l.seen = "Active" /\ UNCHANGED dbRow
           \/ l.seen # "Active" /\ dbRow' = [dbRow EXCEPT ![x] = Decision(table, l.seen)]
    BY <1>1, <1>3, <1>7 DEF applyTransition
  <1>9. PICK a, b, c : NoLane \in [todo : a, row : b, seen : c] /\ NoLane.todo = {} /\ NoLane.row = {}
    BY LaneRests
  <1>10. PICK rest, todo : rest = NoLane /\ todo = l.todo
    OBVIOUS
  <1> DEFINE to == [rest EXCEPT !.todo = todo]
  <1>11. to \in [todo : a \cup {todo}, row : b, seen : c] /\ to.todo = todo /\ to.row = {}
    BY <1>9, <1>10
  <1>12. lane' = [lane EXCEPT ![k] = to]
    BY <1>8, <1>10
  <1>. HIDE DEF to
  <1>13. to.todo \subseteq RowsOf(k[2])
    BY <1>2, <1>3, <1>10, <1>11 DEF ReconInv, HoldsSoundly
  <1>14. /\ \E states : lane' \in [Runners \X Tables -> states]
         /\ \A m \in Runners \X Tables : HoldsSoundly(m)'
    BY <1>2, <1>4, <1>11, <1>12, <1>13, LaneGoesOn
  <1>15. CASE UNCHANGED dbRow
    BY <1>4, <1>14, <1>15, LaneKeeps
  <1>16. CASE dbRow' = [dbRow EXCEPT ![x] = Decision(table, l.seen)]
    <2>1. PICK states, d : dbRow \in [Rows -> states] /\ d = Decision(table, l.seen)
      BY DEF ReconInv
    <2>2. /\ dbRow' \in [Rows -> states \cup {d}]
          /\ dbRow'[x] = d /\ \A y \in Rows \ {x} : dbRow'[y] = dbRow[y]
      BY <1>6, <1>16, <2>1
    <2>3. x \in settledFirst => Told(x)'
      <3> SUFFICES ASSUME x \in settledFirst PROVE Told(x)'
        OBVIOUS
      <3>1. chain[x] \in Settled /\ chain'[x] = chain[x] /\ l.seen = AnswerFor(x, table)
        BY <1>4, <1>5 DEF ReconInv
      <3>2. CASE table = "escrows"
        <4>1. chain[x] \in {"emptied", "merged"}
          BY <1>5, <3>1, <3>2 DEF RowsOf, ReconInv, Settled
        <4>2. l.seen = IF chain[x] = "emptied" THEN "Claimed" ELSE "NonExistent"
          BY <3>1, <3>2, <4>1 DEF AnswerFor, resolveEscrowOnChainState
        <4>3. d = IF chain[x] = "emptied" THEN "claimed" ELSE "irreconcilable"
          BY <2>1, <3>2, <4>2 DEF Decision
        <4>. QED BY <2>2, <3>1, <4>1, <4>3 DEF Told
      <3>3. CASE table = "payments"
        <4>1. chain[x] \in {"confirmed", "rejected"}
          BY <1>5, <3>1, <3>3 DEF RowsOf, ReconInv, Settled
        <4>2. l.seen = IF chain[x] = "confirmed" THEN "Confirmed" ELSE "NonExistent"
          BY <3>1, <3>3 DEF AnswerFor, resolvePaymentOnChainState
        <4>3. d = IF chain[x] = "confirmed" THEN "paid" ELSE "failed"
          BY <2>1, <3>3, <4>2 DEF Decision
        <4>. QED BY <2>2, <3>1, <4>1, <4>3 DEF Told
      <3>. QED BY <3>2, <3>3 DEF Tables
    <2>4. \A y \in settledFirst' : chain'[y] \in Settled /\ (dbRow'[y] \notin Undecided => Told(y)')
      <3> SUFFICES ASSUME NEW y \in settledFirst
                   PROVE  chain[y] \in Settled /\ (dbRow'[y] \notin Undecided => Told(y)')
        BY <1>4
      <3>1. y \in Rows /\ chain[y] \in Settled /\ (dbRow[y] \notin Undecided => Told(y))
        BY DEF ReconInv
      <3>2. CASE y = x
        BY <2>3, <3>1, <3>2
      <3>3. CASE y # x
        BY <1>4, <2>2, <3>1, <3>3 DEF Told
      <3>. QED BY <3>2, <3>3
    <2>5. \E any : dbRow' \in [Rows -> any]
      BY <2>2
    <2>. QED BY <1>4, <1>14, <2>4, <2>5 DEF ReconInv
  <1>. QED BY <1>8, <1>15, <1>16

LEMMA ReconInvAlways == ReconInv /\ [ReconNext]_reconVars => ReconInv'
  <1> SUFFICES ASSUME ReconInv, [ReconNext]_reconVars PROVE ReconInv'
    OBVIOUS
  <1>1. CASE UNCHANGED reconVars
    <2>1. UNCHANGED <<dbRow, chain, expired, lane, settledFirst>>
      BY <1>1 DEF reconVars
    <2>2. \A l \in Runners \X Tables : HoldsSoundly(l)'
      BY <2>1 DEF ReconInv, HoldsSoundly, AnswerFor, resolveEscrowOnChainState, resolvePaymentOnChainState
    <2>3. \E states : lane' \in [Runners \X Tables -> states]
      BY <2>1 DEF ReconInv
    <2>. QED BY <2>1, <2>2, <2>3, LaneKeeps
  <1>2. CASE ReconNext
    <2>1. ASSUME NEW x \in Rows, Settle(x) PROVE ReconInv'
      BY <2>1, SettleKeeps
    <2>2. ASSUME NEW x \in EscrowRows, Expire(x) PROVE ReconInv'
      BY <2>2, ExpireKeeps
    <2>3. ASSUME NEW r \in Runners, NEW t \in Tables,
                 startLane(r, t) \/ askHorizon(r, t) \/ skipRow(r, t) \/ applyTransition(r, t)
                   \/ runFails(r, t)
          PROVE  ReconInv'
      BY <2>3, StartKeeps, AskKeeps, SkipKeeps, ApplyKeeps, FailKeeps
    <2>. QED BY <1>2, <2>1, <2>2, <2>3 DEF ReconNext
  <1>. QED BY <1>1, <1>2

(* However runs of the worker overlap, fail and write late, a row that the    *)
(* ledger settled before any run had an answer for it ends as it settled      *)
(* (reconciliation.service.ts, applyTransition writes without looking).       *)
THEOREM SettledRowsAreTold == ReconSpec => []SettledFirstIsTold
  <1>1. ReconInv => SettledFirstIsTold
    BY DEF ReconInv, SettledFirstIsTold, Told
  <1>. QED BY <1>1, ReconInitially, ReconInvAlways, PTL DEF ReconSpec

-----------------------------------------------------------------------------
(* Notifications. Every call that is about to write the attempts of a row    *)
(* has seen a failure of its own. However the unlocked reads and writes      *)
(* cross, what the row says, and what any call read, plus one for every such *)
(* call, stays within the failures there were.                               *)

LogRows == [status : {"none", "pending", "sent", "failed", "dlq"}, attempts : Nat]

\* A call is a record of these fields.
SenderIn(T, L, S, E, H, N, R) ==
    [task : T, list : L, step : S, entry : E, hooks : H, tried : N, read : R]

IsSender(c) == \E T, L, S, E, H, N, R : c \in SenderIn(T, L, S, E, H, N, R)

Writes(c, e) == c.step \in {"read", "write"} /\ c.entry = e

Busy(e) == {s \in Senders : Writes(sender[s], e)}

\* What a call knows of an entry's attempts, the entry has failed as often.
Informed(c) ==
    /\ c.task = "idle" => c.step = "next" /\ c.tried = 0
    /\ \A p \in c.list : p[1] \in Entries /\ p[2] \in Nat /\ p[2] <= failures[p[1]]
    /\ c.step # "next" => c.entry \in Entries /\ c.tried \in Nat /\ c.tried <= failures[c.entry]

NoteInv ==
    /\ log \in [Entries -> LogRows]
    /\ failures \in [Entries -> Nat]
    /\ \E states : sender \in [Senders -> states]
    /\ \A s \in Senders : IsSender(sender[s]) /\ Informed(sender[s])
    /\ \A e \in Entries : log[e].attempts + Cardinality(Busy(e)) <= failures[e]
    /\ \A s \in Senders : sender[s].step = "write" =>
         /\ sender[s].read \in Nat
         /\ sender[s].read + Cardinality(Busy(sender[s].entry)) <= failures[sender[s].entry]
    /\ \A e \in Entries : log[e].status = "dlq" => failures[e] >= MaxAttempts

LEMMA NoCallSound ==
    /\ IsSender(NoCall) /\ NoCall.task = "idle" /\ NoCall.step = "next"
    /\ NoCall.tried = 0 /\ NoCall.list = {}
  <1>1. PICK t, l, s, e, z : /\ t = "idle" /\ l = {} /\ s = "next" /\ z = 0
                             /\ e = (CHOOSE x \in Entries : TRUE)
    OBVIOUS
  <1>2. NoCall = [task |-> t, list |-> l, step |-> s, entry |-> e, hooks |-> z, tried |-> z, read |-> z]
    BY <1>1 DEF NoCall
  <1>3. NoCall \in SenderIn({t}, {l}, {s}, {e}, {z}, {z}, {z})
    BY <1>2 DEF SenderIn
  <1>. QED BY <1>1, <1>2, <1>3 DEF IsSender

LEMMA BusyCounts ==
    ASSUME NEW e
    PROVE  IsFiniteSet(Busy(e)) /\ Cardinality(Busy(e)) \in Nat
  <1>1. Busy(e) \subseteq Senders
    BY DEF Busy
  <1>. QED BY <1>1, NotificationBounds, FS_Subset, FS_CardinalityType

LEMMA NoteInitially == NoteInit => NoteInv
  <1> SUFFICES ASSUME NoteInit PROVE NoteInv
    OBVIOUS
  <1>1. \E states : sender \in [Senders -> states]
    <2>1. sender \in [Senders -> {NoCall}]
      BY DEF NoteInit
    <2>. QED BY <2>1
  <1>2. \A s \in Senders : sender[s] = NoCall
    BY DEF NoteInit
  <1>3. PICK row : row = [status |-> "none", attempts |-> 0]
    OBVIOUS
  <1>4. row \in LogRows /\ row.status = "none" /\ row.attempts = 0
    BY <1>3 DEF LogRows
  <1>5. log = [e \in Entries |-> row] /\ failures = [e \in Entries |-> 0]
    BY <1>3 DEF NoteInit
  <1>6. \A s \in Senders : IsSender(sender[s]) /\ Informed(sender[s]) /\ sender[s].step = "next"
    BY <1>2, NoCallSound DEF Informed
  <1>7. \A e \in Entries : Cardinality(Busy(e)) = 0
    <2> SUFFICES ASSUME NEW e \in Entries PROVE Cardinality(Busy(e)) = 0
      OBVIOUS
    <2>1. Busy(e) = {}
      BY <1>6 DEF Busy, Writes
    <2>. QED BY <2>1, FS_EmptySet
  <1>8. log \in [Entries -> LogRows] /\ failures \in [Entries -> Nat]
    BY <1>4, <1>5
  <1>9. \A e \in Entries : log[e].attempts = 0 /\ log[e].status = "none" /\ failures[e] = 0
    BY <1>4, <1>5
  <1>10. /\ \A e \in Entries : log[e].attempts + Cardinality(Busy(e)) <= failures[e]
         /\ \A e \in Entries : log[e].status # "dlq"
    BY <1>7, <1>9
  <1>11. \A s \in Senders : sender[s].step # "write"
    BY <1>6
  <1>. HIDE DEF IsSender, Informed
  <1>. QED BY <1>1, <1>6, <1>8, <1>10, <1>11 DEF NoteInv

\* How one call that goes on changes the count of those about to write.
LEMMA BusyAfter ==
    ASSUME NoteInv, NEW s \in Senders, NEW to, Call(s, to), NEW e
    PROVE  /\ Cardinality(Busy(e)') \in Nat
           /\ Cardinality(Busy(e)') =
                IF Writes(to, e)
                THEN IF Writes(sender[s], e) THEN Cardinality(Busy(e)) ELSE Cardinality(Busy(e)) + 1
                ELSE IF Writes(sender[s], e) THEN Cardinality(Busy(e)) - 1 ELSE Cardinality(Busy(e))
  <1>1. PICK states : sender \in [Senders -> states]
    BY DEF NoteInv
  <1>2. sender'[s] = to /\ \A t \in Senders \ {s} : sender'[t] = sender[t]
    BY <1>1 DEF Call
  <1>3. IsFiniteSet(Busy(e)) /\ Cardinality(Busy(e)) \in Nat
    BY BusyCounts
  <1>4. CASE Writes(to, e)
    <2>1. Busy(e)' = Busy(e) \cup {s}
      BY <1>2, <1>4 DEF Busy, Writes
    <2>2. s \in Busy(e) <=> Writes(sender[s], e)
      BY DEF Busy
    <2>. QED BY <1>3, <1>4, <2>1, <2>2, FS_AddElement
  <1>5. CASE ~Writes(to, e)
    <2>1. Busy(e)' = Busy(e) \ {s}
      BY <1>2, <1>5 DEF Busy, Writes
    <2>2. s \in Busy(e) <=> Writes(sender[s], e)
      BY DEF Busy
    <2>3. Cardinality(Busy(e) \ {s}) \in Nat
      BY <1>3, FS_RemoveElement, FS_CardinalityType
    <2>. QED BY <1>3, <1>5, <2>1, <2>2, <2>3, FS_RemoveElement
  <1>. QED BY <1>4, <1>5

\* A call goes on: it starts to write only with a failure of its own, and
\* writes no more than it read and one.
LEMMA SenderGoesOn ==
    ASSUME NoteInv, NEW s \in Senders, NEW c, c = sender[s], NEW to, Call(s, to),
           IsSender(to), Informed(to)',
           log' \in [Entries -> LogRows], failures' \in [Entries -> Nat],
           \A e \in Entries :
             /\ failures[e] <= failures'[e]
             /\ Writes(to, e) /\ ~Writes(c, e) => failures[e] + 1 <= failures'[e]
             /\ \/ log'[e].attempts <= log[e].attempts
                \/ /\ c.step = "write" /\ c.entry = e /\ ~Writes(to, e)
                   /\ log'[e].attempts = c.read + 1
             /\ log'[e].status = "dlq" => log[e].status = "dlq" \/ failures'[e] >= MaxAttempts,
           to.step = "write" => /\ c.step = "read" /\ to.entry = c.entry
                                /\ to.read = log[c.entry].attempts
    PROVE  NoteInv'
  <1>1. PICK states : sender \in [Senders -> states]
    BY DEF NoteInv
  <1>2. /\ sender' \in [Senders -> states \cup {to}]
        /\ sender'[s] = to /\ \A t \in Senders \ {s} : sender'[t] = sender[t]
    BY <1>1 DEF Call
  <1>3. \E any : sender' \in [Senders -> any]
    BY <1>2
  <1>4. \A t \in Senders : IsSender(sender'[t])
    BY <1>2 DEF NoteInv
  <1>5. \A t \in Senders : Informed(sender[t])'
    <2> SUFFICES ASSUME NEW t \in Senders PROVE Informed(sender[t])'
      OBVIOUS
    <2>1. CASE t = s
      BY <1>2, <2>1 DEF Informed
    <2>2. CASE t # s
      <3>1. sender'[t] = sender[t] /\ Informed(sender[t])
        BY <1>2, <2>2 DEF NoteInv
      <3>. QED BY <3>1 DEF Informed, NoteInv
    <2>. QED BY <2>1, <2>2
  <1>6. ASSUME NEW e \in Entries
        PROVE  /\ Cardinality(Busy(e)) \in Nat /\ Cardinality(Busy(e)') \in Nat
               /\ log[e].attempts \in Nat /\ log'[e].attempts \in Nat
               /\ failures[e] \in Nat /\ failures'[e] \in Nat
               /\ Cardinality(Busy(e)') - Cardinality(Busy(e)) <= failures'[e] - failures[e]
               /\ Writes(c, e) /\ ~Writes(to, e) => Cardinality(Busy(e)') = Cardinality(Busy(e)) - 1
               /\ Writes(c, e) /\ Writes(to, e) => Cardinality(Busy(e)') = Cardinality(Busy(e))
    <2>1. Cardinality(Busy(e)) \in Nat
      BY BusyCounts
    <2>2. log[e] \in LogRows /\ log'[e] \in LogRows /\ failures[e] \in Nat /\ failures'[e] \in Nat
      BY DEF NoteInv
    <2>3. log[e].attempts \in Nat /\ log'[e].attempts \in Nat
      BY <2>2 DEF LogRows
    <2>. QED BY <2>1, <2>2, <2>3, BusyAfter
  <1>7. \A e \in Entries : log'[e].attempts + Cardinality(Busy(e)') <= failures'[e]
    <2> SUFFICES ASSUME NEW e \in Entries
                 PROVE  log'[e].attempts + Cardinality(Busy(e)') <= failures'[e]
      OBVIOUS
    <2>1. log[e].attempts + Cardinality(Busy(e)) <= failures[e]
      BY DEF NoteInv
    <2>2. CASE log'[e].attempts <= log[e].attempts
      BY <1>6, <2>1, <2>2
    <2>3. CASE /\ c.step = "write" /\ c.entry = e /\ ~Writes(to, e)
               /\ log'[e].attempts = c.read + 1
      <3>1. c.read \in Nat /\ c.read + Cardinality(Busy(e)) <= failures[e]
        BY <2>3 DEF NoteInv
      <3>2. Cardinality(Busy(e)') = Cardinality(Busy(e)) - 1
        BY <1>6, <2>3 DEF Writes
      <3>. QED BY <1>6, <2>3, <3>1, <3>2
    <2>. QED BY <2>2, <2>3
  <1>8. ASSUME NEW t \in Senders, sender'[t].step = "write"
        PROVE  /\ sender'[t].read \in Nat
               /\ sender'[t].read + Cardinality(Busy(sender[t].entry)')
                    <= failures'[sender'[t].entry]
    <2>1. CASE t = s
      <3>1. PICK e \in Entries : e = c.entry
        BY <1>2, <1>8, <2>1 DEF NoteInv, Informed
      <3>2. Writes(c, e) /\ Writes(to, e)
        BY <1>2, <1>8, <2>1, <3>1 DEF Writes
      <3>3. to.read = log[e].attempts /\ log[e].attempts + Cardinality(Busy(e)) <= failures[e]
        BY <1>2, <1>8, <2>1, <3>1 DEF NoteInv
      <3>4. sender'[t].entry = e /\ sender'[t].read = to.read
        BY <1>2, <1>8, <2>1, <3>1
      <3>5. Cardinality(Busy(e)') = Cardinality(Busy(e))
        BY <1>6, <3>2
      <3>6. Cardinality(Busy(sender[t].entry)') = Cardinality(Busy(e)')
        BY <3>4 DEF Busy
      <3>. QED BY <1>6, <3>3, <3>4, <3>5, <3>6
    <2>2. CASE t # s
      <3>1. PICK d : d = sender[t] /\ sender'[t] = d
        BY <1>2, <2>2
      <3>2. PICK e \in Entries : e = d.entry
        BY <1>8, <3>1 DEF NoteInv, Informed
      <3>3. d.read \in Nat /\ d.read + Cardinality(Busy(e)) <= failures[e]
        BY <1>8, <3>1, <3>2 DEF NoteInv
      <3>4. Cardinality(Busy(sender[t].entry)') = Cardinality(Busy(e)')
        BY <3>1, <3>2 DEF Busy
      <3>. QED BY <1>6, <3>1, <3>2, <3>3, <3>4
    <2>. QED BY <2>1, <2>2
  <1>9. \A e \in Entries : log'[e].status = "dlq" => failures'[e] >= MaxAttempts
    BY <1>6, NotificationBounds DEF NoteInv
  <1>. QED BY <1>3, <1>4, <1>5, <1>7, <1>8, <1>9 DEF NoteInv

\* The same of a call that leaves the log alone.
LEMMA LogStays ==
    ASSUME NoteInv, NEW s \in Senders, NEW c, c = sender[s], NEW to, Call(s, to),
           IsSender(to), Informed(to)', UNCHANGED log, failures' \in [Entries -> Nat],
           \A e \in Entries :
             /\ failures[e] <= failures'[e]
             /\ Writes(to, e) /\ ~Writes(c, e) => failures[e] + 1 <= failures'[e],
           to.step = "write" => /\ c.step = "read" /\ to.entry = c.entry
                                /\ to.read = log[c.entry].attempts
    PROVE  NoteInv'
  <1>1. log' \in [Entries -> LogRows]
    BY DEF NoteInv
  <1>2. \A e \in Entries : log[e].attempts \in Nat
    BY DEF NoteInv, LogRows
  <1>3. \A e \in Entries :
          /\ failures[e] <= failures'[e]
          /\ Writes(to, e) /\ ~Writes(c, e) => failures[e] + 1 <= failures'[e]
          /\ log'[e].attempts <= log[e].attempts
          /\ log'[e].status = "dlq" => log[e].status = "dlq"
    BY <1>2
  <1>. QED BY <1>1, <1>3, SenderGoesOn

\* What is known stays known while no failure is forgotten.
LEMMA StillInformed ==
    ASSUME NEW c, Informed(c), failures \in [Entries -> Nat], failures' \in [Entries -> Nat],
           \A e \in Entries : failures[e] <= failures'[e]
    PROVE  Informed(c)'
  BY DEF Informed

LEMMA FailureCounts ==
    ASSUME NoteInv, NEW e \in Entries, Fails(e)
    PROVE  /\ failures' \in [Entries -> Nat]
           /\ failures'[e] = failures[e] + 1
           /\ \A d \in Entries : failures[d] <= failures'[d]
  <1>1. failures \in [Entries -> Nat] /\ failures' = [failures EXCEPT ![e] = failures[e] + 1]
    BY DEF NoteInv, Fails
  <1>. QED BY <1>1

LEMMA SameFailures ==
    ASSUME NoteInv, UNCHANGED failures
    PROVE  failures' \in [Entries -> Nat] /\ \A d \in Entries : failures[d] <= failures'[d]
  <1>1. failures \in [Entries -> Nat]
    BY DEF NoteInv
  <1>. QED BY <1>1

\* A row becomes pending, sent or dead, and keeps its attempts or begins.
LEMMA RowChanges ==
    ASSUME NoteInv, NEW e \in Entries, NEW row \in LogRows, row.attempts <= log[e].attempts,
           log' = [log EXCEPT ![e] = row], row.status = "dlq" => log[e].status = "dlq"
    PROVE  /\ log' \in [Entries -> LogRows]
           /\ \A d \in Entries : log'[d].attempts <= log[d].attempts
           /\ \A d \in Entries : log'[d].status = "dlq" => log[d].status = "dlq"
  <1>1. log \in [Entries -> LogRows]
    BY DEF NoteInv
  <1>2. \A d \in Entries : log[d].attempts \in Nat
    BY <1>1 DEF LogRows
  <1>3. log'[e] = row /\ \A d \in Entries \ {e} : log'[d] = log[d]
    BY <1>1
  <1>. QED BY <1>1, <1>2, <1>3

LEMMA LogSame ==
    ASSUME NoteInv, UNCHANGED log
    PROVE  /\ log' \in [Entries -> LogRows]
           /\ \A d \in Entries : log'[d].attempts <= log[d].attempts
           /\ \A d \in Entries : log'[d].status = "dlq" => log[d].status = "dlq"
  <1>1. log \in [Entries -> LogRows]
    BY DEF NoteInv
  <1>2. \A d \in Entries : log[d].attempts \in Nat
    BY <1>1 DEF LogRows
  <1>. QED BY <1>1, <1>2

LEMMA MarkedSent ==
    ASSUME NoteInv, NEW e \in Entries, markSent(e)
    PROVE  /\ log' \in [Entries -> LogRows]
           /\ \A d \in Entries : log'[d].attempts <= log[d].attempts
           /\ \A d \in Entries : log'[d].status = "dlq" => log[d].status = "dlq"
  <1>1. CASE UNCHANGED log
    BY <1>1, LogSame
  <1>2. CASE log' = [log EXCEPT ![e].status = "sent"]
    <2>1. PICK row : row = log[e]
      OBVIOUS
    <2>2. row \in LogRows
      BY <2>1 DEF NoteInv
    <2> DEFINE sent == [row EXCEPT !.status = "sent"]
    <2>3. sent \in LogRows /\ sent.attempts = row.attempts /\ sent.status = "sent" /\ row.attempts \in Nat
      BY <2>2 DEF LogRows
    <2>4. log' = [log EXCEPT ![e] = sent]
      BY <1>2, <2>1
    <2>. HIDE DEF sent
    <2>5. sent.attempts <= log[e].attempts
      BY <2>1, <2>3
    <2>. QED BY <2>3, <2>4, <2>5, RowChanges
  <1>. QED BY <1>1, <1>2 DEF markSent

LEMMA MarkedDlq ==
    ASSUME NoteInv, NEW e \in Entries, markDlq(e)
    PROVE  /\ log' \in [Entries -> LogRows]
           /\ \A d \in Entries : log'[d].attempts <= log[d].attempts
           /\ \A d \in Entries : log'[d].status = "dlq" => log[d].status = "dlq" \/ d = e
  <1>1. CASE UNCHANGED log
    BY <1>1, LogSame
  <1>2. CASE log' = [log EXCEPT ![e].status = "dlq"]
    <2>1. PICK row : row = log[e]
      OBVIOUS
    <2>2. row \in LogRows
      BY <2>1 DEF NoteInv
    <2> DEFINE dead == [row EXCEPT !.status = "dlq"]
    <2>3. dead \in LogRows /\ dead.attempts = row.attempts /\ row.attempts \in Nat
      BY <2>2 DEF LogRows
    <2>4. log' = [log EXCEPT ![e] = dead]
      BY <1>2, <2>1
    <2>. HIDE DEF dead
    <2>5. log \in [Entries -> LogRows] /\ \A d \in Entries : log[d].attempts \in Nat
      BY DEF NoteInv, LogRows
    <2>6. log'[e] = dead /\ \A d \in Entries \ {e} : log'[d] = log[d]
      BY <2>4, <2>5
    <2>7. dead.attempts <= log[e].attempts
      BY <2>1, <2>3
    <2>. QED BY <2>3, <2>4, <2>5, <2>6, <2>7
  <1>. QED BY <1>1, <1>2 DEF markDlq

\* The log after createPending, which sends nothing.
LEMMA PendingCreated ==
    ASSUME NoteInv, NEW e \in Entries
    PROVE  /\ createPending(log[e]) \in LogRows
           /\ createPending(log[e]).attempts <= log[e].attempts
           /\ createPending(log[e]).status = "dlq" => log[e].status = "dlq"
  <1>1. PICK row : row = log[e]
    OBVIOUS
  <1>2. row \in LogRows /\ row.attempts \in Nat
    BY <1>1 DEF NoteInv, LogRows
  <1>3. CASE row.status = "none"
    <2>1. createPending(row) = [status |-> "pending", attempts |-> 0]
      BY <1>3 DEF createPending
    <2>2. PICK fresh : fresh = [status |-> "pending", attempts |-> 0]
      OBVIOUS
    <2>3. fresh \in LogRows /\ fresh.attempts = 0 /\ fresh.status = "pending"
      BY <2>2 DEF LogRows
    <2>. QED BY <1>1, <1>2, <2>1, <2>2, <2>3
  <1>4. CASE row.status # "none"
    BY <1>1, <1>2, <1>4 DEF createPending
  <1>. QED BY <1>3, <1>4

LEMMA ReadKeeps ==
    ASSUME NoteInv, NEW s \in Senders, readAttempts(s)
    PROVE  NoteInv'
  <1>1. PICK c, i, n : c = sender[s] /\ i = "write" /\ n = log[c.entry].attempts
    OBVIOUS
  <1>2. IsSender(c) /\ Informed(c) /\ c.step = "read" /\ UNCHANGED <<log, failures>>
    BY <1>1 DEF NoteInv, readAttempts
  <1>3. PICK T, L, S, E, H, N, R : c \in SenderIn(T, L, S, E, H, N, R)
    BY <1>2 DEF IsSender
  <1> DEFINE to == [c EXCEPT !.step = i, !.read = n]
  <1>4. Call(s, to)
    BY <1>1 DEF readAttempts
  <1>5. to \in SenderIn(T, L, S \cup {i}, E, H, N, R \cup {n})
    BY <1>3 DEF SenderIn
  <1>6. /\ to.task = c.task /\ to.list = c.list /\ to.step = i /\ to.entry = c.entry
        /\ to.tried = c.tried /\ to.read = n
    BY <1>3 DEF SenderIn
  <1>. HIDE DEF to
  <1>7. Informed(to)'
    BY <1>1, <1>2, <1>6 DEF Informed
  <1>8. \A e \in Entries : Writes(to, e) => Writes(c, e)
    BY <1>2, <1>6 DEF Writes
  <1>9. IsSender(to)
    BY <1>5 DEF IsSender
  <1>. QED BY <1>1, <1>2, <1>4, <1>6, <1>7, <1>8, <1>9, SameFailures, LogStays

\* markFailed writes one more than it read, over whatever the row says.
LEMMA MarkFailedKeeps ==
    ASSUME NoteInv, NEW s \in Senders, markFailed(s)
    PROVE  NoteInv'
  <1>1. PICK c, i : c = sender[s] /\ i = (IF c.hooks = 0 THEN "next" ELSE "try")
    OBVIOUS
  <1>2. IsSender(c) /\ Informed(c) /\ c.step = "write" /\ UNCHANGED failures
    BY <1>1 DEF NoteInv, markFailed
  <1>3. PICK T, L, S, E, H, N, R : c \in SenderIn(T, L, S, E, H, N, R)
    BY <1>2 DEF IsSender
  <1> DEFINE to == [c EXCEPT !.step = i]
  <1>4. Call(s, to)
    BY <1>1 DEF markFailed
  <1>5. to \in SenderIn(T, L, S \cup {i}, E, H, N, R)
    BY <1>3 DEF SenderIn
  <1>6. /\ to.task = c.task /\ to.list = c.list /\ to.step = i /\ to.entry = c.entry
        /\ to.tried = c.tried
    BY <1>3 DEF SenderIn
  <1>. HIDE DEF to
  <1>7. i \in {"next", "try"}
    BY <1>1
  <1>8. c.task # "idle" /\ c.entry \in Entries /\ c.read \in Nat
    BY <1>1, <1>2 DEF Informed, NoteInv
  <1>9. Informed(to)' /\ \A e \in Entries : ~Writes(to, e)
    BY <1>2, <1>6, <1>7, <1>8 DEF Informed, Writes
  <1>10. IsSender(to)
    BY <1>5 DEF IsSender
  <1>11. CASE UNCHANGED log
    BY <1>1, <1>2, <1>4, <1>6, <1>7, <1>9, <1>10, <1>11, SameFailures, LogStays
  <1>12. CASE log' = [log EXCEPT ![c.entry] = [status |-> "failed", attempts |-> c.read + 1]]
    <2>1. PICK e \in Entries : e = c.entry
      BY <1>8
    <2>2. PICK row : row = [status |-> "failed", attempts |-> c.read + 1]
      OBVIOUS
    <2>3. row \in LogRows /\ row.attempts = c.read + 1 /\ row.status = "failed"
      BY <1>8, <2>2 DEF LogRows
    <2>4. log \in [Entries -> LogRows] /\ \A d \in Entries : log[d].attempts \in Nat
      BY DEF NoteInv, LogRows
    <2>5. log' = [log EXCEPT ![e] = row]
      BY <1>12, <2>1, <2>2
    <2>6. /\ log' \in [Entries -> LogRows]
          /\ log'[e] = row /\ \A d \in Entries \ {e} : log'[d] = log[d]
      BY <2>3, <2>4, <2>5
    <2>7. \A d \in Entries :
            /\ \/ log'[d].attempts <= log[d].attempts
               \/ c.step = "write" /\ c.entry = d /\ ~Writes(to, d) /\ log'[d].attempts = c.read + 1
            /\ log'[d].status = "dlq" => log[d].status = "dlq"
      BY <1>2, <1>9, <2>1, <2>3, <2>4, <2>6
    <2>8. to.step # "write"
      BY <1>6, <1>7
    <2>9. \A d \in Entries : failures[d] <= failures'[d]
      BY <1>2, SameFailures
    <2>10. failures' \in [Entries -> Nat]
      BY <1>2, SameFailures
    <2>. QED BY <1>1, <1>4, <1>9, <1>10, <2>6, <2>7, <2>8, <2>9, <2>10, SenderGoesOn
  <1>. QED BY <1>1, <1>11, <1>12 DEF markFailed

\* A call that is served begins, or begins to wait for its next row.
LEMMA BeginKeeps ==
    ASSUME NoteInv, NEW s \in Senders, NEW c, c = sender[s], NEW to, Call(s, to), IsSender(to),
           Informed(to), to.step \in {"next", "try"}, UNCHANGED <<log, failures>>
    PROVE  NoteInv'
  <1>1. Informed(to)'
    BY DEF Informed
  <1>2. \A e \in Entries : ~Writes(to, e)
    BY DEF Writes
  <1>3. to.step # "write"
    OBVIOUS
  <1>. QED BY <1>1, <1>2, <1>3, SameFailures, LogStays

Started(c, t, e, i, n) == [c EXCEPT !.task = t, !.entry = e, !.step = i, !.hooks = n]

LEMMA DispatchKeeps ==
    ASSUME NoteInv, NEW s \in Senders, NEW e \in Entries, dispatch(s, e) \/ redeliver(s, e)
    PROVE  NoteInv'
  <1>1. PICK c, i : c = sender[s] /\ i = "try"
    OBVIOUS
  <1>2. IsSender(c) /\ Informed(c) /\ c.task = "idle" /\ UNCHANGED <<log, failures>>
    BY <1>1 DEF NoteInv, dispatch, redeliver
  <1>3. PICK T, L, S, E, H, N, R : c \in SenderIn(T, L, S, E, H, N, R)
    BY <1>2 DEF IsSender
  <1>4. PICK t, n : /\ t \in {"once", "webhooks"}
                    /\ Call(s, Started(c, t, e, i, n))
    <2>1. CASE dispatch(s, e)
      <3>1. PICK t, n : t = "once" /\ n = 1
        OBVIOUS
      <3>2. Call(s, Started(c, t, e, i, n))
        BY <1>1, <2>1, <3>1 DEF dispatch, Started
      <3>. QED BY <3>1, <3>2
    <2>2. CASE redeliver(s, e)
      <3>1. PICK t, n : t = "webhooks" /\ Call(s, Started(c, t, e, i, n))
        BY <1>1, <2>2 DEF redeliver, Started
      <3>. QED BY <3>1
    <2>. QED BY <2>1, <2>2
  <1> DEFINE to == [c EXCEPT !.task = t, !.entry = e, !.step = i, !.hooks = n]
  <1>5. to \in SenderIn(T \cup {t}, L, S \cup {i}, E \cup {e}, H \cup {n}, N, R)
    BY <1>3 DEF SenderIn
  <1>6. /\ to.task = t /\ to.list = c.list /\ to.step = i /\ to.entry = e
        /\ to.tried = c.tried
    BY <1>3 DEF SenderIn
  <1>7. Call(s, to)
    BY <1>4 DEF Started
  <1>. HIDE DEF to
  <1>8. c.tried = 0 /\ failures[e] \in Nat
    BY <1>2 DEF Informed, NoteInv
  <1>9. Informed(to)
    BY <1>2, <1>4, <1>6, <1>8 DEF Informed
  <1>10. IsSender(to)
    BY <1>5 DEF IsSender
  <1>. QED BY <1>1, <1>2, <1>6, <1>7, <1>9, <1>10, BeginKeeps

LEMMA ListKeeps ==
    ASSUME NoteInv, NEW s \in Senders, retryFailedWebhooks(s) \/ retryFailedNotifications(s)
    PROVE  NoteInv'
  <1>1. PICK c : c = sender[s]
    OBVIOUS
  <1>2. IsSender(c) /\ Informed(c) /\ c.task = "idle" /\ UNCHANGED <<log, failures>>
    BY <1>1 DEF NoteInv, retryFailedWebhooks, retryFailedNotifications
  <1>3. PICK T, L, S, E, H, N, R : c \in SenderIn(T, L, S, E, H, N, R)
    BY <1>2 DEF IsSender
  <1>4. PICK t, max, list :
          /\ t \in {"webhooks", "retries"} /\ list \subseteq getPendingRetries(max)
          /\ Call(s, [c EXCEPT !.task = t, !.list = list])
    <2>1. CASE retryFailedWebhooks(s)
      <3>1. PICK list : list = {r \in getPendingRetries(MaxAttempts) : r[1] \in Webhooks}
        OBVIOUS
      <3>2. Call(s, [c EXCEPT !.task = "webhooks", !.list = list])
        BY <1>1, <2>1, <3>1 DEF retryFailedWebhooks
      <3>. QED BY <3>1, <3>2
    <2>2. CASE retryFailedNotifications(s)
      <3>1. PICK list : list = getPendingRetries(RetryAttempts)
        OBVIOUS
      <3>2. Call(s, [c EXCEPT !.task = "retries", !.list = list])
        BY <1>1, <2>2, <3>1 DEF retryFailedNotifications
      <3>. QED BY <3>1, <3>2
    <2>. QED BY <2>1, <2>2
  <1> DEFINE to == [c EXCEPT !.task = t, !.list = list]
  <1>5. to \in SenderIn(T \cup {t}, L \cup {list}, S, E, H, N, R)
    BY <1>3 DEF SenderIn
  <1>6. /\ to.task = t /\ to.list = list /\ to.step = c.step /\ to.entry = c.entry
        /\ to.tried = c.tried
    BY <1>3 DEF SenderIn
  <1>7. Call(s, to)
    BY <1>4
  <1>. HIDE DEF to
  <1>8. ASSUME NEW p \in list PROVE p[1] \in Entries /\ p[2] \in Nat /\ p[2] <= failures[p[1]]
    <2>1. p[1] \in Entries /\ p[2] \in Nat /\ log[p[1]].attempts = p[2]
      BY <1>4, NotificationBounds DEF getPendingRetries
    <2>2. PICK e \in Entries : e = p[1]
      BY <2>1
    <2>3. log[e].attempts + Cardinality(Busy(e)) <= failures[e] /\ failures[e] \in Nat
      BY DEF NoteInv
    <2>4. Cardinality(Busy(e)) \in Nat
      BY BusyCounts
    <2>. QED BY <2>1, <2>2, <2>3, <2>4
  <1>9. Informed(to) /\ to.step = "next"
    BY <1>2, <1>4, <1>6, <1>8 DEF Informed
  <1>10. IsSender(to)
    BY <1>5 DEF IsSender
  <1>. QED BY <1>1, <1>2, <1>7, <1>9, <1>10, BeginKeeps

\* The next row of the list, which may count as a failure at once.
LEMMA NextRetryKeeps ==
    ASSUME NoteInv, NEW s \in Senders, nextRetry(s)
    PROVE  NoteInv'
  <1>1. PICK c : c = sender[s]
    OBVIOUS
  <1>2. /\ IsSender(c) /\ Informed(c) /\ c.task \in {"webhooks", "retries"} /\ c.step = "next"
        /\ UNCHANGED log
    BY <1>1 DEF NoteInv, nextRetry
  <1>3. PICK T, L, S, E, H, N, R : c \in SenderIn(T, L, S, E, H, N, R)
    BY <1>2 DEF IsSender
  <1>4. PICK r \in c.list :
          LET at == [c EXCEPT !.list = @ \ {r}, !.entry = r[1], !.tried = r[2]]
          IN  \/ Call(s, at) /\ UNCHANGED failures
              \/ /\ UNCHANGED failures
                 /\ \E n : Call(s, [at EXCEPT !.step = "try", !.hooks = n])
              \/ /\ Fails(r[1])
                 /\ Call(s, [at EXCEPT !.step = "read"])
    BY <1>1 DEF nextRetry
  <1>5. PICK e, n, rest : e = r[1] /\ n = r[2] /\ rest = c.list \ {r}
    OBVIOUS
  <1>6. e \in Entries /\ n \in Nat /\ n <= failures[e]
    BY <1>2, <1>5 DEF Informed
  <1>7. PICK at : at = [c EXCEPT !.list = rest, !.entry = e, !.tried = n]
    OBVIOUS
  <1>8. at \in SenderIn(T, L \cup {rest}, S, E \cup {e}, H, N \cup {n}, R)
    BY <1>3, <1>7 DEF SenderIn
  <1>9. /\ at.task = c.task /\ at.list = rest /\ at.step = c.step /\ at.entry = e
        /\ at.tried = n
    BY <1>3, <1>7 DEF SenderIn
  <1>10. \A p \in rest : p[1] \in Entries /\ p[2] \in Nat /\ p[2] <= failures[p[1]]
    BY <1>2, <1>5 DEF Informed
  <1>11. \/ Call(s, at) /\ UNCHANGED failures
         \/ UNCHANGED failures /\ \E h : Call(s, [at EXCEPT !.step = "try", !.hooks = h])
         \/ Fails(e) /\ Call(s, [at EXCEPT !.step = "read"])
    BY <1>4, <1>5, <1>7
  <1>12. CASE Call(s, at) /\ UNCHANGED failures
    <2>1. Informed(at) /\ at.step = "next"
      BY <1>2, <1>9, <1>10 DEF Informed
    <2>2. IsSender(at)
      BY <1>8 DEF IsSender
    <2>. QED BY <1>1, <1>2, <1>12, <2>1, <2>2, BeginKeeps
  <1>13. CASE UNCHANGED failures /\ \E h : Call(s, [at EXCEPT !.step = "try", !.hooks = h])
    <2>1. PICK h, i : i = "try" /\ Call(s, [at EXCEPT !.step = i, !.hooks = h])
      BY <1>13
    <2> DEFINE to == [at EXCEPT !.step = i, !.hooks = h]
    <2>2. to \in SenderIn(T, L \cup {rest}, S \cup {i}, E \cup {e}, H \cup {h}, N \cup {n}, R)
      BY <1>8 DEF SenderIn
    <2>3. /\ to.task = at.task /\ to.list = at.list /\ to.step = i /\ to.entry = at.entry
          /\ to.tried = at.tried
      BY <1>8 DEF SenderIn
    <2>4. Call(s, to)
      BY <2>1
    <2>. HIDE DEF to
    <2>5. Informed(to) /\ to.step = "try"
      BY <1>2, <1>6, <1>9, <1>10, <2>1, <2>3 DEF Informed
    <2>6. IsSender(to)
      BY <2>2 DEF IsSender
    <2>. QED BY <1>1, <1>2, <1>13, <2>4, <2>5, <2>6, BeginKeeps
  <1>14. CASE Fails(e) /\ Call(s, [at EXCEPT !.step = "read"])
    <2>1. PICK i : i = "read" /\ Call(s, [at EXCEPT !.step = i])
      BY <1>14
    <2> DEFINE to == [at EXCEPT !.step = i]
    <2>2. to \in SenderIn(T, L \cup {rest}, S \cup {i}, E \cup {e}, H, N \cup {n}, R)
      BY <1>8 DEF SenderIn
    <2>3. /\ to.task = at.task /\ to.list = at.list /\ to.step = i /\ to.entry = at.entry
          /\ to.tried = at.tried
      BY <1>8 DEF SenderIn
    <2>4. Call(s, to)
      BY <2>1
    <2>. HIDE DEF to
    <2>5. Informed(to)
      BY <1>2, <1>6, <1>9, <1>10, <2>1, <2>3 DEF Informed
    <2>6. IsSender(to)
      BY <2>2 DEF IsSender
    <2>7. /\ failures' \in [Entries -> Nat] /\ failures'[e] = failures[e] + 1
          /\ \A d \in Entries : failures[d] <= failures'[d]
      BY <1>6, <1>14, FailureCounts
    <2>8. Informed(to)'
      BY <2>5, <2>7, StillInformed DEF NoteInv
    <2>9. \A d \in Entries : Writes(to, d) => d = e
      BY <1>9, <2>3 DEF Writes
    <2>10. failures[e] + 1 <= failures'[e]
      <3>1. failures[e] \in Nat
        BY <1>6 DEF NoteInv
      <3>. QED BY <2>7, <3>1
    <2>11. to.step # "write"
      BY <2>1, <2>3
    <2>. QED BY <1>1, <1>2, <2>4, <2>6, <2>7, <2>8, <2>9, <2>10, <2>11, LogStays
  <1>. QED BY <1>11, <1>12, <1>13, <1>14

LEMMA EndKeeps ==
    ASSUME NoteInv, NEW s \in Senders, endCall(s)
    PROVE  NoteInv'
  <1>1. PICK c, to : c = sender[s] /\ to = NoCall
    OBVIOUS
  <1>2. Call(s, to) /\ UNCHANGED <<log, failures>>
    BY <1>1 DEF endCall
  <1>3. IsSender(to) /\ Informed(to) /\ to.step = "next"
    BY <1>1, NoCallSound DEF Informed
  <1>. QED BY <1>1, <1>2, <1>3, BeginKeeps

\* What sending to a channel makes of a call: it has no endpoint left.
Drained(c, i, n) == [c EXCEPT !.step = i, !.hooks = n]

LEMMA ServedEntry ==
    ASSUME NoteInv, NEW s \in Senders, NEW c, c = sender[s], c.step = "try", NEW i,
           i \in {"next", "read"}, NEW n, n = 0,
           NEW to, to = Drained(c, i, n)
    PROVE  /\ IsSender(to) /\ Informed(to) /\ to.step = i /\ to.entry = c.entry
           /\ c.entry \in Entries
  <1>1. IsSender(c) /\ Informed(c)
    BY DEF NoteInv
  <1>2. PICK T, L, S, E, H, N, R : c \in SenderIn(T, L, S, E, H, N, R)
    BY <1>1 DEF IsSender
  <1>3. to \in SenderIn(T, L, S \cup {i}, E, H \cup {n}, N, R)
    BY <1>2 DEF SenderIn, Drained
  <1>4. /\ to.task = c.task /\ to.list = c.list /\ to.step = i /\ to.entry = c.entry
        /\ to.tried = c.tried
    BY <1>2 DEF SenderIn, Drained
  <1>5. IsSender(to)
    BY <1>3 DEF IsSender
  <1>6. c.task # "idle" /\ c.entry \in Entries
    BY <1>1 DEF Informed
  <1>7. Informed(to)
    BY <1>1, <1>4, <1>6 DEF Informed
  <1>. QED BY <1>4, <1>5, <1>6, <1>7

LEMMA EnqueueKeeps ==
    ASSUME NoteInv, NEW s \in Senders, enqueueWebhookJob(s)
    PROVE  NoteInv'
  <1>1. PICK c, i, n : c = sender[s] /\ i = "next" /\ n = 0
    OBVIOUS
  <1>2. PICK to : to = Drained(c, i, n)
    OBVIOUS
  <1>3. c.step = "try" /\ UNCHANGED failures /\ Call(s, to)
    BY <1>1, <1>2 DEF enqueueWebhookJob, Drained
  <1>4. IsSender(to) /\ Informed(to) /\ to.step = i /\ c.entry \in Entries
    BY <1>1, <1>2, <1>3, ServedEntry
  <1>5. PICK e \in Entries : e = c.entry
    BY <1>4
  <1>6. PICK row : row = createPending(log[e])
    OBVIOUS
  <1>7. log' = [log EXCEPT ![e] = row]
    BY <1>1, <1>5, <1>6 DEF enqueueWebhookJob
  <1>8. row \in LogRows /\ row.attempts <= log[e].attempts /\ (row.status = "dlq" => log[e].status = "dlq")
    BY <1>6, PendingCreated
  <1>9. /\ log' \in [Entries -> LogRows]
        /\ \A d \in Entries : log'[d].attempts <= log[d].attempts
        /\ \A d \in Entries : log'[d].status = "dlq" => log[d].status = "dlq"
    BY <1>7, <1>8, RowChanges
  <1>10. Informed(to)'
    BY <1>3, <1>4 DEF Informed
  <1>11. to.step # "write" /\ \A d \in Entries : ~Writes(to, d)
    BY <1>1, <1>4 DEF Writes
  <1>12. failures' \in [Entries -> Nat] /\ \A d \in Entries : failures[d] <= failures'[d]
    BY <1>3, SameFailures
  <1>. QED BY <1>1, <1>3, <1>4, <1>9, <1>10, <1>11, <1>12, SenderGoesOn

LEMMA SendKeeps ==
    ASSUME NoteInv, NEW s \in Senders, sendToChannel(s)
    PROVE  NoteInv'
  <1>1. PICK c, n : c = sender[s] /\ n = 0
    OBVIOUS
  <1>2. c.step = "try"
    BY <1>1 DEF sendToChannel
  <1>3. PICK e \in Entries : e = c.entry
    BY <1>1, <1>2 DEF NoteInv, Informed
  <1>4. PICK row : row = createPending(log[e])
    OBVIOUS
  <1>5. row \in LogRows /\ row.attempts <= log[e].attempts /\ (row.status = "dlq" => log[e].status = "dlq")
    BY <1>4, PendingCreated
  <1> DEFINE logged == [log EXCEPT ![e] = row]
  <1>6. \/ /\ log' \in {logged, [logged EXCEPT ![e].status = "sent"]} /\ UNCHANGED failures
           /\ Call(s, Drained(c, "next", n))
        \/ /\ log' = logged /\ Fails(e)
           /\ Call(s, Drained(c, "read", n))
    BY <1>1, <1>3, <1>4 DEF sendToChannel, Drained
  <1>7. log \in [Entries -> LogRows]
    BY DEF NoteInv
  <1>8. logged \in [Entries -> LogRows] /\ logged[e] = row
    BY <1>5, <1>7
  <1>9. ASSUME log' \in {logged, [logged EXCEPT ![e].status = "sent"]}
        PROVE  /\ log' \in [Entries -> LogRows]
               /\ \A d \in Entries : log'[d].attempts <= log[d].attempts
               /\ \A d \in Entries : log'[d].status = "dlq" => log[d].status = "dlq"
    <2>1. CASE log' = logged
      BY <1>5, <2>1, RowChanges
    <2>2. CASE log' = [logged EXCEPT ![e].status = "sent"]
      <3>1. PICK sent : sent = [row EXCEPT !.status = "sent"]
        OBVIOUS
      <3>2. sent \in LogRows /\ sent.attempts = row.attempts /\ sent.status = "sent"
        BY <1>5, <3>1 DEF LogRows
      <3>3. log' = [log EXCEPT ![e] = sent]
        <4>1. log' = [logged EXCEPT ![e] = sent]
          BY <1>8, <2>2, <3>1
        <4>. QED BY <1>7, <4>1
      <3>4. sent.attempts <= log[e].attempts
        BY <1>5, <3>2
      <3>. QED BY <3>2, <3>3, <3>4, RowChanges
    <2>. QED BY <1>9, <2>1, <2>2
  <1>10. CASE /\ log' \in {logged, [logged EXCEPT ![e].status = "sent"]} /\ UNCHANGED failures
              /\ Call(s, Drained(c, "next", n))
    <2>1. PICK i, to : i = "next" /\ to = Drained(c, i, n)
      OBVIOUS
    <2>2. IsSender(to) /\ Informed(to) /\ to.step = i /\ Call(s, to)
      BY <1>1, <1>2, <1>10, <2>1, ServedEntry
    <2>3. Informed(to)'
      BY <1>10, <2>2 DEF Informed
    <2>4. to.step # "write" /\ \A d \in Entries : ~Writes(to, d)
      BY <2>1, <2>2 DEF Writes
    <2>5. failures' \in [Entries -> Nat] /\ \A d \in Entries : failures[d] <= failures'[d]
      BY <1>10, SameFailures
    <2>. HIDE DEF logged
    <2>. QED BY <1>1, <1>9, <1>10, <2>2, <2>3, <2>4, <2>5, SenderGoesOn
  <1>11. CASE /\ log' = logged /\ Fails(e)
              /\ Call(s, Drained(c, "read", n))
    <2>1. PICK i, to : i = "read" /\ to = Drained(c, i, n)
      OBVIOUS
    <2>2. IsSender(to) /\ Informed(to) /\ to.step = i /\ Call(s, to) /\ to.entry = e
      BY <1>1, <1>2, <1>3, <1>11, <2>1, ServedEntry
    <2>3. /\ failures' \in [Entries -> Nat] /\ failures'[e] = failures[e] + 1
          /\ \A d \in Entries : failures[d] <= failures'[d]
      BY <1>11, FailureCounts
    <2>4. Informed(to)'
      BY <2>2, <2>3, StillInformed DEF NoteInv
    <2>5. to.step # "write" /\ \A d \in Entries : Writes(to, d) => d = e
      BY <2>1, <2>2 DEF Writes
    <2>6. failures[e] + 1 <= failures'[e]
      <3>1. failures[e] \in Nat
        BY DEF NoteInv
      <3>. QED BY <2>3, <3>1
    <2>7. /\ log' \in [Entries -> LogRows]
          /\ \A d \in Entries : log'[d].attempts <= log[d].attempts
          /\ \A d \in Entries : log'[d].status = "dlq" => log[d].status = "dlq"
      BY <1>9, <1>11
    <2>. HIDE DEF logged
    <2>. QED BY <1>1, <2>2, <2>3, <2>4, <2>5, <2>6, <2>7, SenderGoesOn
  <1>. QED BY <1>6, <1>10, <1>11

LEMMA JobKeeps ==
    ASSUME NoteInv, NEW s \in Senders, NEW e \in Entries, runWebhookJob(s, e)
    PROVE  NoteInv'
  <1>1. PICK c, t, i : c = sender[s] /\ t = "job" /\ i = "read"
    OBVIOUS
  <1>2. IsSender(c) /\ Informed(c) /\ c.task = "idle"
    BY <1>1 DEF NoteInv, runWebhookJob
  <1>3. CASE markSent(e) /\ UNCHANGED <<failures, sender>>
    <2>1. PICK states : sender \in [Senders -> states]
      BY DEF NoteInv
    <2>2. Call(s, c)
      BY <1>1, <1>3, <2>1 DEF Call
    <2>3. /\ log' \in [Entries -> LogRows]
          /\ \A d \in Entries : log'[d].attempts <= log[d].attempts
          /\ \A d \in Entries : log'[d].status = "dlq" => log[d].status = "dlq"
      BY <1>3, MarkedSent
    <2>4. failures' \in [Entries -> Nat] /\ \A d \in Entries : failures[d] <= failures'[d]
      BY <1>3, SameFailures
    <2>5. Informed(c)' /\ c.step = "next"
      BY <1>2, <1>3 DEF Informed
    <2>. QED BY <1>1, <1>2, <2>2, <2>3, <2>4, <2>5, SenderGoesOn
  <1>4. CASE /\ Fails(e) /\ UNCHANGED log
             /\ Call(s, [c EXCEPT !.task = t, !.entry = e, !.step = i])
    <2>1. PICK T, L, S, E, H, N, R : c \in SenderIn(T, L, S, E, H, N, R)
      BY <1>2 DEF IsSender
    <2> DEFINE to == [c EXCEPT !.task = t, !.entry = e, !.step = i]
    <2>2. to \in SenderIn(T \cup {t}, L, S \cup {i}, E \cup {e}, H, N, R)
      BY <2>1 DEF SenderIn
    <2>3. /\ to.task = t /\ to.list = c.list /\ to.step = i /\ to.entry = e
          /\ to.tried = c.tried
      BY <2>1 DEF SenderIn
    <2>4. Call(s, to)
      BY <1>4
    <2>. HIDE DEF to
    <2>5. c.tried = 0 /\ failures[e] \in Nat
      BY <1>2 DEF Informed, NoteInv
    <2>6. Informed(to)
      BY <1>1, <1>2, <2>3, <2>5 DEF Informed
    <2>7. IsSender(to)
      BY <2>2 DEF IsSender
    <2>8. /\ failures' \in [Entries -> Nat] /\ failures'[e] = failures[e] + 1
          /\ \A d \in Entries : failures[d] <= failures'[d]
      BY <1>4, FailureCounts
    <2>9. Informed(to)'
      BY <2>6, <2>8, StillInformed DEF NoteInv
    <2>10. to.step # "write" /\ \A d \in Entries : Writes(to, d) => d = e
      BY <1>1, <2>3 DEF Writes
    <2>11. failures[e] + 1 <= failures'[e]
      BY <2>5, <2>8
    <2>. QED BY <1>1, <1>4, <2>4, <2>7, <2>8, <2>9, <2>10, <2>11, LogStays
  <1>. QED BY <1>1, <1>3, <1>4 DEF runWebhookJob

\* An entry is buried by the call whose own failure is the last one it needs.
LEMMA RedeliveryKeeps ==
    ASSUME NoteInv, NEW s \in Senders, attemptRedelivery(s)
    PROVE  NoteInv'
  <1>1. PICK c, i, n : /\ c = sender[s] /\ n = c.hooks - 1
                       /\ i = (IF c.hooks = 1 THEN "next" ELSE "try")
    OBVIOUS
  <1>2. IsSender(c) /\ Informed(c) /\ c.step = "try" /\ i \in {"next", "try"}
    BY <1>1 DEF NoteInv, attemptRedelivery
  <1>3. PICK e \in Entries : e = c.entry /\ c.tried \in Nat /\ c.tried <= failures[e] /\ c.task # "idle"
    BY <1>2 DEF Informed
  <1>4. PICK T, L, S, E, H, N, R : c \in SenderIn(T, L, S, E, H, N, R)
    BY <1>2 DEF IsSender
  <1>5. PICK rest : rest = [c EXCEPT !.hooks = n, !.step = i]
    OBVIOUS
  <1>6. rest \in SenderIn(T, L, S \cup {i}, E, H \cup {n}, N, R)
    BY <1>4, <1>5 DEF SenderIn
  <1>7. /\ rest.task = c.task /\ rest.list = c.list /\ rest.step = i /\ rest.entry = c.entry
        /\ rest.tried = c.tried
    BY <1>4, <1>5 DEF SenderIn
  <1>8. IsSender(rest)
    BY <1>6 DEF IsSender
  <1>9. Informed(rest) /\ rest.step # "write" /\ \A d \in Entries : ~Writes(rest, d)
    BY <1>2, <1>3, <1>7 DEF Informed, Writes
  <1>10. \/ markSent(e) /\ Call(s, rest) /\ UNCHANGED failures
         \/ /\ Fails(e) /\ c.tried + 1 >= MaxAttempts
            /\ markDlq(e) /\ Call(s, rest)
         \/ Fails(e) /\ UNCHANGED log /\ Call(s, [rest EXCEPT !.step = "read"])
    BY <1>1, <1>3, <1>5 DEF attemptRedelivery
  <1>11. CASE markSent(e) /\ Call(s, rest) /\ UNCHANGED failures
    <2>1. /\ log' \in [Entries -> LogRows]
          /\ \A d \in Entries : log'[d].attempts <= log[d].attempts
          /\ \A d \in Entries : log'[d].status = "dlq" => log[d].status = "dlq"
      BY <1>11, MarkedSent
    <2>2. failures' \in [Entries -> Nat] /\ \A d \in Entries : failures[d] <= failures'[d]
      BY <1>11, SameFailures
    <2>3. Informed(rest)'
      BY <1>9, <1>11 DEF Informed
    <2>. QED BY <1>1, <1>8, <1>9, <1>11, <2>1, <2>2, <2>3, SenderGoesOn
  <1>12. ASSUME Fails(e)
         PROVE  /\ failures' \in [Entries -> Nat] /\ failures'[e] = failures[e] + 1
                /\ \A d \in Entries : failures[d] <= failures'[d]
                /\ failures[e] \in Nat
    BY <1>12, FailureCounts DEF NoteInv
  <1>13. CASE /\ Fails(e) /\ c.tried + 1 >= MaxAttempts
              /\ markDlq(e) /\ Call(s, rest)
    <2>1. /\ log' \in [Entries -> LogRows]
          /\ \A d \in Entries : log'[d].attempts <= log[d].attempts
          /\ \A d \in Entries : log'[d].status = "dlq" => log[d].status = "dlq" \/ d = e
      BY <1>13, MarkedDlq
    <2>2. failures'[e] >= MaxAttempts
      BY <1>3, <1>12, <1>13, NotificationBounds
    <2>3. Informed(rest)'
      BY <1>9, <1>12, <1>13, StillInformed DEF NoteInv
    <2>4. \A d \in Entries :
            log'[d].status = "dlq" => log[d].status = "dlq" \/ failures'[d] >= MaxAttempts
      BY <2>1, <2>2
    <2>. QED BY <1>1, <1>8, <1>9, <1>12, <1>13, <2>1, <2>3, <2>4, SenderGoesOn
  <1>14. CASE Fails(e) /\ UNCHANGED log /\ Call(s, [rest EXCEPT !.step = "read"])
    <2>1. PICK j : j = "read"
      OBVIOUS
    <2> DEFINE to == [rest EXCEPT !.step = j]
    <2>2. to \in SenderIn(T, L, (S \cup {i}) \cup {j}, E, H \cup {n}, N, R)
      BY <1>6 DEF SenderIn
    <2>3. /\ to.task = rest.task /\ to.list = rest.list /\ to.step = j /\ to.entry = rest.entry
          /\ to.tried = rest.tried
      BY <1>6 DEF SenderIn
    <2>4. Call(s, to)
      BY <1>14, <2>1
    <2>. HIDE DEF to
    <2>5. Informed(to)
      BY <1>2, <1>3, <1>7, <2>1, <2>3 DEF Informed
    <2>6. IsSender(to)
      BY <2>2 DEF IsSender
    <2>7. Informed(to)'
      BY <1>12, <1>14, <2>5, StillInformed DEF NoteInv
    <2>8. to.step # "write" /\ \A d \in Entries : Writes(to, d) => d = e
      BY <1>3, <1>7, <2>1, <2>3 DEF Writes
    <2>9. failures[e] + 1 <= failures'[e]
      BY <1>12, <1>14
    <2>. QED BY <1>1, <1>12, <1>14, <2>4, <2>6, <2>7, <2>8, <2>9, LogStays
  <1>. QED BY <1>10, <1>11, <1>13, <1>14

LEMMA NoteInvAlways == NoteInv /\ [NoteNext]_noteVars => NoteInv'
  <1> SUFFICES ASSUME NoteInv, [NoteNext]_noteVars PROVE NoteInv'
    OBVIOUS
  <1>1. CASE UNCHANGED noteVars
    <2>1. UNCHANGED <<log, failures, sender>>
      BY <1>1 DEF noteVars
    <2>. QED BY <2>1 DEF NoteInv, Informed, Busy
  <1>2. CASE NoteNext
    <2>1. PICK s \in Senders :
            \/ \E e \in Entries : dispatch(s, e) \/ runWebhookJob(s, e)
            \/ \E e \in Webhooks : redeliver(s, e)
            \/ enqueueWebhookJob(s) \/ sendToChannel(s) \/ readAttempts(s) \/ markFailed(s)
            \/ retryFailedWebhooks(s) \/ retryFailedNotifications(s) \/ nextRetry(s)
            \/ attemptRedelivery(s) \/ endCall(s)
      BY <1>2 DEF NoteNext
    <2>2. CASE \E e \in Entries : dispatch(s, e) \/ runWebhookJob(s, e)
      BY <2>2, DispatchKeeps, JobKeeps
    <2>3. CASE \E e \in Webhooks : redeliver(s, e)
      BY <2>3, DispatchKeeps, NotificationBounds
    <2>4. CASE enqueueWebhookJob(s) \/ sendToChannel(s) \/ readAttempts(s) \/ markFailed(s)
      BY <2>4, EnqueueKeeps, SendKeeps, ReadKeeps, MarkFailedKeeps
    <2>5. CASE \/ retryFailedWebhooks(s) \/ retryFailedNotifications(s) \/ nextRetry(s)
               \/ attemptRedelivery(s) \/ endCall(s)
      BY <2>5, ListKeeps, NextRetryKeeps, RedeliveryKeeps, EndKeeps
    <2>. QED BY <2>1, <2>2, <2>3, <2>4, <2>5
  <1>. QED BY <1>1, <1>2

(* However the two crons, the jobs and the operators cross, an entry is given *)
(* up as dead only after MaxAttempts failures of its own                      *)
(* (notification.service.ts and notification-log.repository.ts, whose         *)
(* attempts are read and written without a lock).                             *)
THEOREM DeadEntriesAreExhausted == NoteSpec => []DlqIsExhausted
  <1>1. NoteInv => DlqIsExhausted
    BY DEF NoteInv, DlqIsExhausted
  <1>. QED BY <1>1, NoteInitially, NoteInvAlways, PTL DEF NoteSpec

-----------------------------------------------------------------------------
(* Cursor pages. A page is an initial segment of the rows after the cursor:  *)
(* the cursor that it leaves divides the list into what has been read and    *)
(* what has not, whatever is added or leaves in the meantime.                *)

\* The newest-first order is a strict total order of the rows.
LEMMA BeforeOrders ==
    /\ \A x \in Row : ~Before(x, x)
    /\ \A x, y \in Row : x # y => Before(x, y) \/ Before(y, x)
    /\ \A x, y, z \in Row : Before(x, y) /\ Before(y, z) => Before(x, z)
  <1>1. ASSUME NEW x \in Row PROVE x[1] \in Nat /\ x[2] \in Nat /\ x = <<x[1], x[2]>>
    <2>1. x[1] \in Dates /\ x[2] \in Ids /\ x = <<x[1], x[2]>>
      BY DEF Row
    <2>. QED BY <2>1, PagesAssumption
  <1>2. \A x \in Row : ~Before(x, x)
    BY <1>1 DEF Before
  <1>3. ASSUME NEW x \in Row, NEW y \in Row, x # y PROVE Before(x, y) \/ Before(y, x)
    <2>1. x[1] # y[1] \/ x[2] # y[2]
      BY <1>1, <1>3
    <2>. QED BY <1>1, <2>1 DEF Before
  <1>4. ASSUME NEW x \in Row, NEW y \in Row, NEW z \in Row, Before(x, y), Before(y, z)
        PROVE  Before(x, z)
    BY <1>1, <1>4 DEF Before
  <1>. QED BY <1>2, <1>3, <1>4

Newer(set, x) == {y \in set : Before(y, x)}
RowsBefore(set, x) == {y \in set : Before(x, y)}

\* Of some rows, the newest has no newer one, and the oldest no older one.
LEMMA HasNewest ==
    ASSUME NEW set, set \subseteq Row, IsFiniteSet(set), NEW of, of \subseteq set, of # {}
    PROVE  \E x \in of : \A y \in of : ~Before(y, x)
  <1> DEFINE T == {Newer(set, x) : x \in of}
  <1>1. T # {} /\ \A s \in T : s \subseteq set /\ IsFiniteSet(s)
    <2>1. T # {}
      OBVIOUS
    <2>2. \A s \in T : s \subseteq set
      BY DEF Newer
    <2>. QED BY <2>1, <2>2, FS_Subset
  <1>2. PICK s \in T : \A r : r \subseteq s /\ r # s => r \notin T
    <2>. HIDE DEF T
    <2>. QED BY <1>1, LeastCounterexample
  <1>3. PICK x \in of : s = Newer(set, x)
    OBVIOUS
  <1>4. ASSUME NEW y \in of, Before(y, x) PROVE FALSE
    <2>1. Newer(set, y) \subseteq Newer(set, x)
      BY <1>4, BeforeOrders DEF Newer
    <2>2. y \in Newer(set, x) /\ y \notin Newer(set, y)
      BY <1>4, BeforeOrders DEF Newer
    <2>3. Newer(set, y) \in T
      OBVIOUS
    <2>. HIDE DEF T
    <2>. QED BY <1>2, <1>3, <2>1, <2>2, <2>3
  <1>. QED BY <1>4

LEMMA HasOldest ==
    ASSUME NEW set, set \subseteq Row, IsFiniteSet(set), set # {}
    PROVE  \E x \in set : \A y \in set : ~Before(x, y)
  <1> DEFINE T == {RowsBefore(set, x) : x \in set}
  <1>1. T # {} /\ \A s \in T : s \subseteq set /\ IsFiniteSet(s)
    <2>1. T # {}
      OBVIOUS
    <2>2. \A s \in T : s \subseteq set
      BY DEF RowsBefore
    <2>. QED BY <2>1, <2>2, FS_Subset
  <1>2. PICK s \in T : \A r : r \subseteq s /\ r # s => r \notin T
    <2>. HIDE DEF T
    <2>. QED BY <1>1, LeastCounterexample
  <1>3. PICK x \in set : s = RowsBefore(set, x)
    OBVIOUS
  <1>4. ASSUME NEW y \in set, Before(x, y) PROVE FALSE
    <2>1. RowsBefore(set, y) \subseteq RowsBefore(set, x)
      BY <1>4, BeforeOrders DEF RowsBefore
    <2>2. y \in RowsBefore(set, x) /\ y \notin RowsBefore(set, y)
      BY <1>4, BeforeOrders DEF RowsBefore
    <2>3. RowsBefore(set, y) \in T
      OBVIOUS
    <2>. HIDE DEF T
    <2>. QED BY <1>2, <1>3, <2>1, <2>2, <2>3
  <1>. QED BY <1>4

LEMMA LastIsOldest ==
    ASSUME NEW page, page \subseteq Row, IsFiniteSet(page), page # {}
    PROVE  LastOf(page) \in page /\ \A y \in page : ~Before(LastOf(page), y)
  <1>1. PICK x \in page : \A y \in page : ~Before(x, y)
    BY HasOldest
  <1>2. \A y \in page \ {x} : Before(y, x)
    BY <1>1, BeforeOrders
  <1>3. LastOf(page) \in page /\ \A y \in page \ {LastOf(page)} : Before(y, LastOf(page))
    BY <1>1, <1>2 DEF LastOf
  <1>4. ASSUME NEW y \in page PROVE ~Before(LastOf(page), y)
    BY <1>3, BeforeOrders
  <1>. QED BY <1>3, <1>4

\* The first rows of a finite set.
LEMMA FirstOnes ==
    ASSUME NEW set, set \subseteq Row, IsFiniteSet(set), NEW n \in Nat
    PROVE  /\ FirstOf(set, n) \subseteq set /\ IsFiniteSet(FirstOf(set, n))
           /\ Cardinality(FirstOf(set, n)) \in Nat
           /\ \A x \in set : /\ IsFiniteSet(Newer(set, x)) /\ Cardinality(Newer(set, x)) \in Nat
                             /\ x \in FirstOf(set, n) <=> Cardinality(Newer(set, x)) < n
  <1>1. FirstOf(set, n) \subseteq set
    BY DEF FirstOf
  <1>2. \A x \in set : Newer(set, x) \subseteq set
    BY DEF Newer
  <1>3. \A x \in set : IsFiniteSet(Newer(set, x)) /\ Cardinality(Newer(set, x)) \in Nat
    BY <1>2, FS_Subset, FS_CardinalityType
  <1>4. \A x \in set : x \in FirstOf(set, n) <=> Cardinality(Newer(set, x)) < n
    BY DEF FirstOf, Newer
  <1>. QED BY <1>1, <1>3, <1>4, FS_Subset, FS_CardinalityType

\* If fewer than n rows come first, all of them do.
LEMMA FewRows ==
    ASSUME NEW set, set \subseteq Row, IsFiniteSet(set), NEW n \in Nat,
           Cardinality(FirstOf(set, n)) < n
    PROVE  FirstOf(set, n) = set
  <1> SUFFICES ASSUME set \ FirstOf(set, n) # {} PROVE FALSE
    BY FirstOnes
  <1>1. PICK x \in set \ FirstOf(set, n) : \A y \in set \ FirstOf(set, n) : ~Before(y, x)
    BY HasNewest
  <1>2. Newer(set, x) \subseteq FirstOf(set, n)
    BY <1>1 DEF Newer
  <1>3. Cardinality(Newer(set, x)) <= Cardinality(FirstOf(set, n))
    BY <1>2, FirstOnes, FS_Subset
  <1>4. ~(Cardinality(Newer(set, x)) < n) /\ Cardinality(Newer(set, x)) \in Nat
    BY FirstOnes
  <1>. QED BY <1>3, <1>4, FirstOnes

\* A row that comes before one of the first is one of the first.
LEMMA FirstAreClosed ==
    ASSUME NEW set, set \subseteq Row, IsFiniteSet(set), NEW n \in Nat,
           NEW x \in FirstOf(set, n), NEW y \in set, Before(y, x)
    PROVE  y \in FirstOf(set, n)
  <1>1. x \in set
    BY FirstOnes
  <1>2. Newer(set, y) \subseteq Newer(set, x)
    BY <1>1, BeforeOrders DEF Newer
  <1>3. Cardinality(Newer(set, y)) <= Cardinality(Newer(set, x))
    BY <1>1, <1>2, FirstOnes, FS_Subset
  <1>. QED BY <1>1, <1>3, FirstOnes

LEMMA PageDivides ==
    ASSUME NEW set, set \subseteq Row, IsFiniteSet(set), NEW n \in Nat, n > 0,
           NEW fetched, fetched = FirstOf(set, n + 1), NEW page, page = FirstOf(fetched, n)
    PROVE  /\ page \subseteq set
           /\ Cardinality(fetched) > n =>
                LastOf(page) \in page /\ \A x \in set : x \in page <=> ~Before(LastOf(page), x)
           /\ ~(Cardinality(fetched) > n) => page = set
  <1>1. n + 1 \in Nat
    OBVIOUS
  <1>2. fetched \subseteq set /\ IsFiniteSet(fetched) /\ Cardinality(fetched) \in Nat
    BY <1>1, FirstOnes
  <1>3. fetched \subseteq Row
    BY <1>2
  <1>4. page \subseteq fetched /\ IsFiniteSet(page)
    BY <1>2, <1>3, FirstOnes
  <1>5. CASE Cardinality(fetched) > n
    <2>1. page # {}
      <3>1. fetched # {}
        BY <1>5, FS_EmptySet
      <3>2. PICK x \in fetched : \A y \in fetched : ~Before(y, x)
        BY <1>2, <1>3, <3>1, HasNewest
      <3>3. Newer(fetched, x) = {}
        BY <3>2 DEF Newer
      <3>4. Cardinality(Newer(fetched, x)) < n
        BY <3>3, FS_EmptySet
      <3>. QED BY <1>2, <1>3, <3>4, FirstOnes
    <2>2. LastOf(page) \in page /\ \A y \in page : ~Before(LastOf(page), y)
      BY <1>3, <1>4, <2>1, LastIsOldest
    <2>3. PICK last : last = LastOf(page)
      OBVIOUS
    <2>4. ASSUME NEW x \in set, ~Before(last, x) PROVE x \in page
      <3>1. CASE x = last
        BY <2>2, <2>3, <3>1
      <3>2. CASE x # last
        <4>1. Before(x, last) /\ last \in page /\ last \in fetched
          BY <1>3, <1>4, <2>2, <2>3, <2>4, <3>2, BeforeOrders
        <4>2. x \in fetched
          BY <1>1, <4>1, FirstAreClosed
        <4>. QED BY <1>2, <1>3, <4>1, <4>2, FirstAreClosed
      <3>. QED BY <3>1, <3>2
    <2>. QED BY <1>2, <1>4, <1>5, <2>2, <2>3, <2>4
  <1>6. CASE ~(Cardinality(fetched) > n)
    <2>1. fetched = set
      BY <1>1, <1>2, <1>6, FewRows
    <2>2. Cardinality(page) <= n /\ Cardinality(page) \in Nat
      BY <1>2, <1>4, <1>6, FS_Subset, FS_CardinalityType
    <2>3. page = fetched
      <3> SUFFICES ASSUME NEW x \in fetched PROVE x \in page
        BY <1>4
      <3>1. Newer(fetched, x) \subseteq fetched \ {x} /\ IsFiniteSet(fetched \ {x})
        BY <1>2, <1>3, BeforeOrders, FS_RemoveElement DEF Newer
      <3>2. Cardinality(fetched \ {x}) = Cardinality(fetched) - 1
        BY <1>2, FS_RemoveElement
      <3>3. Cardinality(Newer(fetched, x)) <= Cardinality(fetched \ {x})
        BY <3>1, FS_Subset
      <3>4. Cardinality(Newer(fetched, x)) \in Nat
        BY <1>2, <1>3, FirstOnes
      <3>5. Cardinality(Newer(fetched, x)) < n
        BY <1>2, <1>6, <3>2, <3>3, <3>4
      <3>. QED BY <1>2, <1>3, <3>5, FirstOnes
    <2>. QED BY <1>4, <1>6, <2>1, <2>3
  <1>. QED BY <1>2, <1>4, <1>5, <1>6

-----------------------------------------------------------------------------
\* What has been read, by the cursor that divides the list.
Divided ==
    \A x \in walkOf :
      /\ nextCursor = NoCursor => seen[x] = 0
      /\ nextCursor \in Row => /\ seen[x] \in {0, 1}
                               /\ Before(nextCursor, x) => seen[x] = 0
                               /\ endpoint = "refunds" /\ ~Before(nextCursor, x) => seen[x] = 1
      /\ nextCursor = LastPage => /\ seen[x] \in {0, 1}
                                  /\ endpoint = "refunds" => seen[x] = 1

PagesInv ==
    /\ nextCursor \in Row \cup {NoCursor, LastPage}
    /\ seen \in [Row -> Nat]
    /\ shownRows \subseteq Row /\ walkOf \subseteq shownRows
    /\ Divided

LEMMA CursorsDiffer == NoCursor \notin Row /\ LastPage \notin Row /\ NoCursor # LastPage
  BY PagesAssumption DEF Row

LEMMA PagesInitially == PagesInit => PagesInv
  <1> SUFFICES ASSUME PagesInit PROVE PagesInv
    OBVIOUS
  <1>1. seen \in [Row -> Nat] /\ \A x \in Row : seen[x] = 0
    BY DEF PagesInit
  <1>2. shownRows \subseteq Row /\ walkOf = shownRows /\ nextCursor = NoCursor
    BY DEF PagesInit
  <1>. QED BY <1>1, <1>2, CursorsDiffer DEF PagesInv, Divided

\* The rows that the next page is taken from.
LEMMA RowsAfterCursor ==
    ASSUME PagesInv, nextCursor # LastPage
    PROVE  /\ RowsAfter(nextCursor) \subseteq shownRows
           /\ nextCursor = NoCursor => RowsAfter(nextCursor) = shownRows
           /\ nextCursor \in Row =>
                /\ \A x \in RowsAfter(nextCursor) : Before(nextCursor, x)
                /\ endpoint = "refunds" =>
                     \A x \in shownRows : Before(nextCursor, x) => x \in RowsAfter(nextCursor)
  <1>1. CASE nextCursor = NoCursor
    BY <1>1, CursorsDiffer DEF RowsAfter
  <1>2. CASE nextCursor \in Row
    <2>1. PICK c \in Row : c = nextCursor
      BY <1>2
    <2>2. c # NoCursor
      BY CursorsDiffer
    <2>3. ASSUME NEW x \in Row PROVE x[1] \in Nat /\ x[2] \in Nat
      <3>1. x[1] \in Dates /\ x[2] \in Ids
        BY DEF Row
      <3>. QED BY <3>1, PagesAssumption
    <2>4. CASE endpoint = "refunds"
      <3>1. RowsAfter(c) = ApplyCursorFilter(c)
        BY <2>2, <2>4 DEF RowsAfter
      <3>. QED BY <2>1, <2>2, <2>3, <3>1 DEF ApplyCursorFilter, Before, PagesInv
    <2>5. CASE endpoint # "refunds"
      <3>1. RowsAfter(c) = FilterOfListings(c)
        BY <2>2, <2>5 DEF RowsAfter
      <3>. QED BY <2>1, <2>2, <2>3, <2>5, <3>1 DEF FilterOfListings, Before, PagesInv
    <2>. QED BY <2>4, <2>5
  <1>. QED BY <1>1, <1>2 DEF PagesInv

LEMMA NextPageKeeps ==
    ASSUME PagesInv, NextPage
    PROVE  PagesInv'
  <1>1. nextCursor # LastPage /\ UNCHANGED <<endpoint, shownRows, walkOf>>
    BY DEF NextPage
  <1>2. PICK set, fetched, page :
          /\ set = RowsAfter(nextCursor)
          /\ fetched = FirstOf(set, PageSize + 1)
          /\ page = FirstOf(fetched, PageSize)
    OBVIOUS
  <1>3. /\ nextCursor' = IF Cardinality(fetched) > PageSize THEN LastOf(page) ELSE LastPage
        /\ seen' = [x \in Row |-> IF x \in page THEN seen[x] + 1 ELSE seen[x]]
    BY <1>2 DEF NextPage
  <1>4. set \subseteq shownRows /\ set \subseteq Row
    BY <1>1, <1>2, RowsAfterCursor DEF PagesInv
  <1>5. IsFiniteSet(set)
    <2>1. IsFiniteSet(Row)
      BY PagesAssumption, FS_Product DEF Row
    <2>. QED BY <1>4, <2>1, FS_Subset
  <1>6. PageSize \in Nat /\ PageSize > 0
    BY PagesAssumption
  <1>7. /\ page \subseteq set
        /\ Cardinality(fetched) > PageSize =>
             LastOf(page) \in page /\ \A x \in set : x \in page <=> ~Before(LastOf(page), x)
        /\ ~(Cardinality(fetched) > PageSize) => page = set
    BY <1>2, <1>4, <1>5, <1>6, PageDivides
  <1>8. /\ nextCursor' \in Row \cup {NoCursor, LastPage}
        /\ nextCursor' # NoCursor
        /\ nextCursor' \in Row =>
             nextCursor' \in set /\ \A x \in set : x \in page <=> ~Before(nextCursor', x)
        /\ nextCursor' = LastPage => page = set
    BY <1>3, <1>4, <1>7, CursorsDiffer
  <1>9. seen' \in [Row -> Nat]
    BY <1>3 DEF PagesInv
  <1>10. ASSUME NEW x \in walkOf
         PROVE  /\ x \in Row /\ x \in shownRows
                /\ x \in page => seen[x] = 0 /\ seen'[x] = 1
                /\ x \notin page => seen'[x] = seen[x] /\ seen[x] \in {0, 1}
    <2>1. x \in Row /\ x \in shownRows /\ seen[x] \in Nat
      BY DEF PagesInv
    <2>2. x \in page => Before(nextCursor, x) \/ nextCursor = NoCursor
      BY <1>1, <1>2, <1>7, RowsAfterCursor DEF PagesInv
    <2>3. seen[x] \in {0, 1} /\ (x \in page => seen[x] = 0)
      BY <1>1, <2>2 DEF PagesInv, Divided
    <2>. QED BY <1>3, <2>1, <2>3
  <1>11. ASSUME NEW x \in walkOf, nextCursor' \in Row, Before(nextCursor', x)
         PROVE  seen'[x] = 0
    <2>1. x \notin page /\ seen'[x] = seen[x]
      BY <1>7, <1>8, <1>10, <1>11
    <2>2. nextCursor \in Row => Before(nextCursor, nextCursor')
      BY <1>1, <1>2, <1>8, <1>11, RowsAfterCursor
    <2>3. nextCursor \in Row => Before(nextCursor, x)
      BY <1>10, <1>11, <2>2, BeforeOrders
    <2>. QED BY <1>1, <2>1, <2>3 DEF PagesInv, Divided
  <1>12. ASSUME NEW x \in walkOf, endpoint = "refunds",
                nextCursor' = LastPage \/ ~Before(nextCursor', x)
         PROVE  seen'[x] = 1
    <2>1. CASE x \in set
      BY <1>8, <1>10, <1>12, <2>1
    <2>2. CASE x \notin set
      <3>1. nextCursor \in Row /\ ~Before(nextCursor, x)
        BY <1>1, <1>2, <1>10, <1>12, <2>2, RowsAfterCursor DEF PagesInv
      <3>2. seen[x] = 1 /\ x \notin page
        BY <1>7, <1>12, <2>2, <3>1 DEF PagesInv, Divided
      <3>. QED BY <1>10, <3>2
    <2>. QED BY <2>1, <2>2
  <1>13. Divided'
    BY <1>1, <1>8, <1>10, <1>11, <1>12 DEF Divided
  <1>. QED BY <1>1, <1>8, <1>9, <1>13 DEF PagesInv

LEMMA PagesInvAlways == PagesInv /\ [PagesNext]_pageVars => PagesInv'
  <1> SUFFICES ASSUME PagesInv, [PagesNext]_pageVars PROVE PagesInv'
    OBVIOUS
  <1>1. CASE NextPage
    BY <1>1, NextPageKeeps
  <1>2. ASSUME NEW x \in Row, RowAppears(x) PROVE PagesInv'
    BY <1>2 DEF RowAppears, PagesInv, Divided
  <1>3. ASSUME NEW x \in shownRows, RowLeaves(x) PROVE PagesInv'
    BY <1>3 DEF RowLeaves, PagesInv, Divided
  <1>4. CASE UNCHANGED pageVars
    BY <1>4 DEF pageVars, PagesInv, Divided
  <1>. QED BY <1>1, <1>2, <1>3, <1>4 DEF PagesNext

(* Whatever rows come and leave during a walk, no list shows a row that       *)
(* stays twice, and a completed walk over the refunds has shown every row     *)
(* that stayed (common/pagination/cursor.util.ts, applyCursorFilter).         *)
THEOREM WalksAreWhole == PagesSpec => []WalkIsWhole
  <1>1. PagesInv => WalkIsWhole
    BY CursorsDiffer DEF PagesInv, Divided, WalkIsWhole, Complete
  <1>. QED BY <1>1, PagesInitially, PagesInvAlways, PTL DEF PagesSpec

-----------------------------------------------------------------------------
(* Ingestion. A reindex run has stored, of the ledgers from the origin of    *)
(* its chain, whatever lies before the ledger it began in or up to its       *)
(* token; what is left of its page comes before all else it has to read.     *)
(* Ledgers that had not closed when the chain asked for them are set aside:  *)
(* of the others, nothing appears in its range behind a run.                 *)

RunIn(S, P, B, L, E) ==
    [step : S, to : Nat, page : P, short : B, linked : L, early : E, start : Nat, token : Nat, origin : Nat]

IsRun(run) == \E S, P, B, L, E : run \in RunIn(S, P, B, L, E)

\* What a run with this start and token may take to be stored already.
Passed(origin, start, token, early) ==
    \A e \in OnLedger :
        /\ storedByReindex(e) /\ origin <= LedgerOf[e] /\ LedgerOf[e] \notin early
        /\ LedgerOf[e] < start \/ e <= token
        => e \in stored

\* What a run has to read before it may end.
Owed(run) == {e \in InRange(run) : LedgerOf[e] \notin run.early}

\* Open ledgers that a run will pass or has passed are known to be early.
EarlyNoted(run) ==
    \A l \in Nat : l > closed /\ (l <= run.to \/ (run.origin <= l /\ l < run.start)) => l \in run.early

RunSound(run) ==
    /\ IsRun(run)
    /\ run.step \in Steps
    /\ EarlyNoted(run)
    /\ run.token = 0 \/ run.token \in OnLedger
    /\ run.page \subseteq InRange(run)
    /\ \A e \in run.page : \A f \in InRange(run) : f < e => f \in run.page
    /\ Passed(run.origin, run.start, run.token, run.early)
    /\ run.step = "persist" => run.page # {}
    /\ (run.short \/ ~run.linked) /\ run.step \in {"persist", "save"} => Owed(run) \subseteq run.page
    /\ run.step = "save" => /\ run.page = {} /\ run.token \in Events
                            /\ run.start <= LedgerOf[run.token] /\ LedgerOf[run.token] <= run.to
    /\ run.step = "finish" => Owed(run) = {}

CheckpointSound ==
    /\ checkpoint.last \in Nat
    /\ \A l \in Nat : l > closed /\ l <= checkpoint.last => l \in checkpoint.early
    /\ checkpoint.token \in Nat /\ checkpoint.origin \in Nat
    /\ checkpoint.token # 0 =>
         checkpoint.token \in OnLedger /\ checkpoint.last = LedgerOf[checkpoint.token]
    /\ CheckpointCovers

IngestInv ==
    /\ closed \in Nat
    /\ \E states : reindexing \in [Runs -> states]
    /\ \A r \in Runs : \A run : reindexing[r] = run => run = NoRun \/ RunSound(run)
    /\ CheckpointSound

LEMMA EventsAreNumbered ==
    /\ Events \subseteq Nat \ {0} /\ IsFiniteSet(Events)
    /\ \A e \in Events : LedgerOf[e] \in Nat /\ LedgerOf[e] > 0
    /\ \A e, f \in Events : e <= f => LedgerOf[e] <= LedgerOf[f]
    /\ \A e \in OnLedger : e \in Events /\ LedgerOf[e] <= closed
    /\ \A e \in Events : LedgerOf[e] <= closed => e \in OnLedger
  <1>1. Events = 1..Cardinality(Events) /\ IsFiniteSet(Events) /\ Cardinality(Events) \in Nat
    BY IngestionBounds, FS_CardinalityType DEF Events
  <1>2. \A e \in Events : LedgerOf[e] \in 1..Ledgers
    BY <1>1, IngestionBounds
  <1>3. Events \subseteq Nat \ {0}
    BY <1>1
  <1>. QED BY <1>1, <1>2, <1>3, IngestionBounds DEF OnLedger

\* A set of events has a first one, and no event comes before it.
LEMMA HasLeast ==
    ASSUME NEW set, set \subseteq Events, set # {}
    PROVE  Least(set) \in set /\ \A f \in set : Least(set) <= f
  <1>1. set \subseteq Nat /\ IsFiniteSet(set)
    BY EventsAreNumbered, FS_Subset
  <1> DEFINE Lower(x) == {y \in set : y < x}
             T == {Lower(x) : x \in set}
  <1>2. T # {} /\ \A s \in T : s \subseteq set /\ IsFiniteSet(s)
    <2>1. T # {} /\ \A s \in T : s \subseteq set
      OBVIOUS
    <2>. QED BY <1>1, <2>1, FS_Subset
  <1>3. PICK s \in T : \A r : r \subseteq s /\ r # s => r \notin T
    <2>. HIDE DEF T
    <2>. QED BY <1>2, LeastCounterexample
  <1>4. PICK x \in set : s = Lower(x)
    OBVIOUS
  <1>5. ASSUME NEW y \in set, y < x PROVE FALSE
    <2>0. x \in Nat /\ y \in Nat
      BY <1>1, <1>5
    <2>1. Lower(y) \subseteq Lower(x) /\ y \in Lower(x) /\ y \notin Lower(y)
      <3>1. \A z \in Lower(y) : z \in Lower(x)
        BY <1>1, <1>5, <2>0
      <3>2. y \in Lower(x) /\ y \notin Lower(y)
        BY <1>5, <2>0
      <3>. QED BY <3>1, <3>2
    <2>2. Lower(y) \in T
      OBVIOUS
    <2>. HIDE DEF T, Lower
    <2>. QED BY <1>3, <1>4, <2>1, <2>2
  <1>6. \A f \in set : x <= f
    BY <1>1, <1>5
  <1>. HIDE DEF T, Lower
  <1>. QED BY <1>6 DEF Least

LEMMA InRangeEvents ==
    ASSUME NEW run
    PROVE  /\ InRange(run) \subseteq OnLedger /\ InRange(run) \subseteq Events
           /\ IsFiniteSet(InRange(run))
           /\ \A e \in InRange(run) : e \in Nat /\ e > run.token
                                      /\ run.start <= LedgerOf[e] /\ LedgerOf[e] <= run.to
  <1>1. InRange(run) \subseteq OnLedger
    BY DEF InRange
  <1>. QED BY <1>1, EventsAreNumbered, FS_Subset DEF InRange

\* A page is an initial segment of the range, all of it when it is short.
LEMMA PageFetched ==
    ASSUME NEW run, NEW page, page = fetchPage(run)
    PROVE  /\ page \subseteq InRange(run)
           /\ \A e \in page : \A f \in InRange(run) : f < e => f \in page
           /\ Cardinality(page) < PageLimit => InRange(run) \subseteq page
           /\ page = {} => InRange(run) = {}
  <1> DEFINE set == InRange(run)
             UpTo(e) == {f \in set : f <= e}
  <1>1. set \subseteq Nat /\ set \subseteq Events /\ IsFiniteSet(set)
    BY InRangeEvents, EventsAreNumbered
  <1>2. page = {e \in set : Cardinality(UpTo(e)) <= PageLimit}
    BY DEF fetchPage
  <1>3. \A e : UpTo(e) \subseteq set
    OBVIOUS
  <1>4. \A e : IsFiniteSet(UpTo(e)) /\ Cardinality(UpTo(e)) \in Nat
    BY <1>1, <1>3, FS_Subset, FS_CardinalityType
  <1>5. PageLimit \in Nat /\ PageLimit > 0
    BY IngestionBounds
  <1>6. \A e \in page : \A f \in set : f < e => f \in page
    <2> SUFFICES ASSUME NEW e \in page, NEW f \in set, f < e PROVE f \in page
      OBVIOUS
    <2>1. UpTo(f) \subseteq UpTo(e)
      BY <1>1, <1>2
    <2>. HIDE DEF set, UpTo
    <2>2. Cardinality(UpTo(f)) <= Cardinality(UpTo(e))
      BY <1>4, <2>1, FS_Subset
    <2>. QED BY <1>2, <1>4, <1>5, <2>2
  <1>7. ASSUME Cardinality(page) < PageLimit PROVE set \subseteq page
    <2>1. SUFFICES ASSUME set \ page # {} PROVE FALSE
      OBVIOUS
    <2>2. PICK x \in set \ page : \A f \in set \ page : x <= f
      <3>1. set \ page \subseteq Events
        BY <1>1
      <3>. HIDE DEF set
      <3>. QED BY <2>1, <3>1, HasLeast
    <2>3. UpTo(x) \ {x} \subseteq page
      BY <1>1, <2>2
    <2>4. x \in UpTo(x)
      BY <1>1
    <2>5. ~(Cardinality(UpTo(x)) <= PageLimit)
      BY <1>2, <2>2
    <2>6. page \subseteq set
      BY <1>2
    <2>. HIDE DEF set, UpTo
    <2>7. IsFiniteSet(page) /\ Cardinality(page) \in Nat
      BY <1>1, <2>6, FS_Subset, FS_CardinalityType
    <2>8. Cardinality(UpTo(x) \ {x}) = Cardinality(UpTo(x)) - 1
      BY <1>4, <2>4, FS_RemoveElement
    <2>9. Cardinality(UpTo(x) \ {x}) <= Cardinality(page)
      BY <2>3, <2>7, FS_Subset
    <2>. QED BY <1>4, <1>5, <1>7, <2>5, <2>7, <2>8, <2>9
  <1>8. page = {} => Cardinality(page) < PageLimit
    BY <1>5, FS_EmptySet
  <1>. QED BY <1>2, <1>6, <1>7, <1>8

-----------------------------------------------------------------------------
\* What was sound stays sound while no ledger closes and nothing is deleted.
LEMMA RunKept ==
    ASSUME NEW run, RunSound(run), closed' = closed, stored \subseteq stored'
    PROVE  RunSound(run)'
  <1>1. OnLedger' = OnLedger /\ InRange(run)' = InRange(run) /\ Owed(run)' = Owed(run)
    BY DEF OnLedger, InRange, Owed
  <1>2. Passed(run.origin, run.start, run.token, run.early)'
    BY <1>1 DEF RunSound, Passed
  <1>3. EarlyNoted(run)'
    BY DEF RunSound, EarlyNoted
  <1>. QED BY <1>1, <1>2, <1>3 DEF RunSound, IsRun

LEMMA CheckpointKept ==
    ASSUME CheckpointSound, closed' = closed, stored \subseteq stored', checkpoint' = checkpoint
    PROVE  CheckpointSound'
  <1>1. OnLedger' = OnLedger
    BY DEF OnLedger
  <1>2. CheckpointCovers'
    BY <1>1 DEF CheckpointSound, CheckpointCovers
  <1>. QED BY <1>1, <1>2 DEF CheckpointSound

\* The steps of the stream and of the backfills, and those that end a run.
LEMMA OthersKeep ==
    ASSUME IngestInv, closed' = closed, stored \subseteq stored', checkpoint' = checkpoint,
           \E lost \in SUBSET Runs : reindexing' = [r \in Runs |-> IF r \in lost THEN NoRun ELSE reindexing[r]]
    PROVE  IngestInv'
  <1>1. PICK lost \in SUBSET Runs : reindexing' = [r \in Runs |-> IF r \in lost THEN NoRun ELSE reindexing[r]]
    OBVIOUS
  <1>2. CheckpointSound'
    BY CheckpointKept DEF IngestInv
  <1>3. ASSUME NEW r \in Runs, NEW run, reindexing'[r] = run, run # NoRun PROVE RunSound(run)'
    <2>1. reindexing[r] = run
      BY <1>1, <1>3
    <2>2. RunSound(run)
      BY <1>3, <2>1 DEF IngestInv
    <2>. QED BY <2>2, RunKept
  <1>4. \E states : reindexing' \in [Runs -> states]
    <2>1. reindexing' \in [Runs -> {reindexing'[r] : r \in Runs}]
      BY <1>1
    <2>. QED BY <2>1
  <1>. QED BY <1>2, <1>3, <1>4 DEF IngestInv

\* A run takes a step: the rest is as it was.
LEMMA RunSteps ==
    ASSUME IngestInv, NEW r \in Runs, NEW next, closed' = closed, stored \subseteq stored',
           Set(r, next), next = NoRun \/ RunSound(next)', CheckpointSound'
    PROVE  IngestInv'
  <1>1. PICK states : reindexing \in [Runs -> states]
    BY DEF IngestInv
  <1>2. reindexing' = [reindexing EXCEPT ![r] = next]
    BY DEF Set
  <1>3. reindexing' \in [Runs -> states \cup {next}]
    BY <1>1, <1>2
  <1>4. \E some : reindexing' \in [Runs -> some]
    BY <1>3
  <1>5. ASSUME NEW q \in Runs, NEW run, reindexing'[q] = run, run # NoRun PROVE RunSound(run)'
    <2>1. CASE q = r
      <3>1. run = next
        BY <1>1, <1>2, <1>5, <2>1
      <3>. QED BY <1>5, <3>1
    <2>2. CASE q # r
      <3>1. reindexing[q] = run
        BY <1>1, <1>2, <1>5, <2>2
      <3>2. RunSound(run)
        BY <1>5, <3>1 DEF IngestInv
      <3>. QED BY <3>2, RunKept
    <2>. QED BY <2>1, <2>2
  <1>. QED BY <1>4, <1>5 DEF IngestInv

\* A ledger closes behind every run and every checkpoint.
LEMMA ClosingKeeps ==
    ASSUME IngestInv, CloseLedger
    PROVE  IngestInv'
  <1>1. closed \in Nat /\ closed' = closed + 1 /\ stored' = stored
        /\ checkpoint' = checkpoint /\ reindexing' = reindexing
    BY DEF CloseLedger, IngestInv, reindexVars
  <1>0. /\ \A e \in Events : LedgerOf[e] \in Nat /\ e \in Nat /\ e # 0
        /\ \A e, f \in Events : e <= f => LedgerOf[e] <= LedgerOf[f]
        /\ \A e \in OnLedger : e \in Events /\ LedgerOf[e] <= closed
    BY EventsAreNumbered
  <1>2. \A e \in OnLedger' : e \in Events /\ (e \in OnLedger \/ LedgerOf[e] = closed + 1)
    BY <1>0, <1>1 DEF OnLedger
  <1>3. OnLedger \subseteq OnLedger'
    BY <1>0, <1>1 DEF OnLedger
  <1>4. ASSUME NEW run, RunSound(run) PROVE RunSound(run)'
    <2>1. PICK S, P, B, L, E : run \in RunIn(S, P, B, L, E)
      BY <1>4 DEF RunSound, IsRun
    <2>2. run.to \in Nat /\ run.start \in Nat /\ run.token \in Nat /\ run.origin \in Nat
          /\ (run.token = 0 \/ run.token \in OnLedger)
      BY <1>4, <2>1 DEF RunIn, RunSound
    <2>3. \A e \in InRange(run)' : e \in InRange(run) \/ (LedgerOf[e] = closed + 1 /\ LedgerOf[e] <= run.to)
      BY <1>2 DEF InRange
    <2>4. InRange(run) \subseteq InRange(run)'
      BY <1>3 DEF InRange
    <2>5. \A l \in Nat : l > closed /\ (l <= run.to \/ (run.origin <= l /\ l < run.start)) => l \in run.early
      BY <1>4 DEF RunSound, EarlyNoted
    <2>6. Owed(run)' = Owed(run)
      <3>1. \A e \in Owed(run)' : e \in Owed(run)
        <4> SUFFICES ASSUME NEW e \in Owed(run)' PROVE e \in Owed(run)
          OBVIOUS
        <4>1. e \in InRange(run)' /\ LedgerOf[e] \notin run.early
          BY DEF Owed
        <4>2. e \in InRange(run)
          BY <1>1, <2>3, <2>5, <4>1
        <4>. QED BY <4>1, <4>2 DEF Owed
      <3>2. \A e \in Owed(run) : e \in Owed(run)'
        BY <2>4 DEF Owed
      <3>. QED BY <3>1, <3>2
    <2>7. EarlyNoted(run)'
      BY <1>1, <2>2, <2>5 DEF EarlyNoted
    <2>8. \A e \in OnLedger' : e <= run.token => e \in OnLedger
      <3> SUFFICES ASSUME NEW e \in OnLedger', e <= run.token, e \notin OnLedger
                   PROVE  FALSE
        OBVIOUS
      <3>1. e \in Events /\ LedgerOf[e] = closed + 1 /\ e \in Nat /\ e # 0
        BY <1>0, <1>2
      <3>2. CASE run.token = 0
        BY <1>1, <2>2, <3>1, <3>2
      <3>3. CASE run.token \in OnLedger
        <4>1. run.token \in Events /\ LedgerOf[run.token] <= closed /\ LedgerOf[run.token] \in Nat
          BY <1>0, <3>3
        <4>2. LedgerOf[e] <= LedgerOf[run.token]
          BY <1>0, <3>1, <4>1
        <4>. QED BY <1>1, <3>1, <4>1, <4>2
      <3>. QED BY <2>2, <3>2, <3>3
    <2>9. Passed(run.origin, run.start, run.token, run.early)'
      <3> SUFFICES ASSUME NEW e \in OnLedger', storedByReindex(e), run.origin <= LedgerOf[e],
                          LedgerOf[e] \notin run.early, LedgerOf[e] < run.start \/ e <= run.token
                   PROVE  e \in stored
        BY <1>1 DEF Passed
      <3>1. e \in OnLedger
        BY <1>1, <1>2, <2>5, <2>8
      <3>. QED BY <1>4, <3>1 DEF RunSound, Passed
    <2>10. run.page \subseteq InRange(run)'
      BY <1>4, <2>4 DEF RunSound
    <2>11. \A e \in run.page : \A f \in InRange(run)' : f < e => f \in run.page
      <3> SUFFICES ASSUME NEW e \in run.page, NEW f \in InRange(run)', f < e PROVE f \in run.page
        OBVIOUS
      <3>1. e \in InRange(run) /\ e \in OnLedger /\ e \in Events /\ LedgerOf[e] <= closed /\ LedgerOf[e] \in Nat
        BY <1>0, <1>4 DEF RunSound, InRange
      <3>2. f \in Events
        BY <1>2 DEF InRange
      <3>3. LedgerOf[f] <= LedgerOf[e] /\ LedgerOf[f] \in Nat
        BY <1>0, <3>1, <3>2
      <3>4. f \in InRange(run)
        BY <1>1, <2>3, <3>1, <3>3
      <3>. QED BY <1>4, <3>4 DEF RunSound
    <2>. QED BY <1>3, <1>4, <2>6, <2>7, <2>9, <2>10, <2>11 DEF RunSound, IsRun
  <1>5. CheckpointSound'
    <2>0. /\ checkpoint.last \in Nat /\ checkpoint.token \in Nat
          /\ \A l \in Nat : l > closed /\ l <= checkpoint.last => l \in checkpoint.early
          /\ checkpoint.token # 0 => checkpoint.token \in OnLedger
      BY DEF IngestInv, CheckpointSound
    <2>1. \A e \in OnLedger' :
            /\ LedgerOf[e] \notin checkpoint.early
            /\ IF checkpoint.token = 0 THEN LedgerOf[e] <= checkpoint.last ELSE e <= checkpoint.token
            => e \in OnLedger
      <3> SUFFICES ASSUME NEW e \in OnLedger', e \notin OnLedger, LedgerOf[e] \notin checkpoint.early,
                          IF checkpoint.token = 0 THEN LedgerOf[e] <= checkpoint.last ELSE e <= checkpoint.token
                   PROVE  FALSE
        OBVIOUS
      <3>1. e \in Events /\ LedgerOf[e] = closed + 1 /\ e \in Nat /\ e # 0
        BY <1>0, <1>2
      <3>2. checkpoint.token # 0
        BY <1>1, <2>0, <3>1
      <3>3. checkpoint.token \in Events /\ LedgerOf[checkpoint.token] <= closed
            /\ LedgerOf[checkpoint.token] \in Nat
        BY <1>0, <2>0, <3>2
      <3>4. LedgerOf[e] <= LedgerOf[checkpoint.token]
        BY <1>0, <3>1, <3>2, <3>3
      <3>. QED BY <1>1, <3>1, <3>3, <3>4
    <2>2. CheckpointCovers'
      BY <1>1, <2>1 DEF IngestInv, CheckpointSound, CheckpointCovers
    <2>3. \A l \in Nat : l > closed + 1 /\ l <= checkpoint.last => l \in checkpoint.early
      BY <1>1, <2>0
    <2>. QED BY <1>1, <1>3, <2>2, <2>3 DEF IngestInv, CheckpointSound
  <1>6. ASSUME NEW r \in Runs, NEW run, reindexing'[r] = run, run # NoRun PROVE RunSound(run)'
    <2>1. RunSound(run)
      BY <1>1, <1>6 DEF IngestInv
    <2>. QED BY <1>4, <2>1
  <1>. QED BY <1>1, <1>5, <1>6 DEF IngestInv

-----------------------------------------------------------------------------
\* The run a reindex starts, resumed or not.
LEMMA StartIsSound ==
    ASSUME IngestInv, NEW from \in Nat, NEW to \in Nat,
           NEW resumes \in BOOLEAN, NEW cp, cp = checkpoint,
           NEW run,
           run = [step |-> "fetch", to |-> to, page |-> {}, short |-> FALSE, linked |-> TRUE,
                  early |-> ((closed + 1)..to) \cup (IF resumes THEN cp.early ELSE {}),
                  start |-> IF resumes THEN cp.last ELSE from,
                  token |-> IF resumes THEN cp.token ELSE 0,
                  origin |-> IF resumes THEN cp.origin ELSE from]
    PROVE  RunSound(run)
  <1>0. /\ \A e \in Events : LedgerOf[e] \in Nat /\ e \in Nat /\ e # 0
        /\ \A e, f \in Events : e <= f => LedgerOf[e] <= LedgerOf[f]
        /\ \A e \in OnLedger : e \in Events /\ LedgerOf[e] <= closed
    BY EventsAreNumbered
  <1>1. cp.last \in Nat /\ cp.token \in Nat /\ cp.origin \in Nat
        /\ (\A l \in Nat : l > closed /\ l <= cp.last => l \in cp.early)
        /\ (cp.token # 0 => cp.token \in OnLedger /\ cp.last = LedgerOf[cp.token])
    BY DEF IngestInv, CheckpointSound
  <1>2. run \in RunIn({"fetch"}, {{}}, {FALSE}, {TRUE}, {run.early})
    BY <1>1 DEF RunIn
  <1>3. /\ run.step = "fetch" /\ run.to = to /\ run.page = {} /\ run.short = FALSE /\ run.linked = TRUE
        /\ run.early = ((closed + 1)..to) \cup (IF resumes THEN cp.early ELSE {})
        /\ run.start = IF resumes THEN cp.last ELSE from
        /\ run.token = IF resumes THEN cp.token ELSE 0
        /\ run.origin = IF resumes THEN cp.origin ELSE from
    OBVIOUS
  <1>4. Passed(run.origin, run.start, run.token, run.early)
    <2>1. CASE ~resumes
      <3>1. \A e \in OnLedger : ~(from <= LedgerOf[e] /\ (LedgerOf[e] < from \/ e <= 0))
        BY <1>0
      <3>. QED BY <1>3, <2>1, <3>1 DEF Passed
    <2>2. CASE resumes
      <3>1. SUFFICES ASSUME NEW e \in OnLedger, storedByReindex(e), cp.origin <= LedgerOf[e],
                            LedgerOf[e] \notin cp.early, LedgerOf[e] < cp.last \/ e <= cp.token
                     PROVE  e \in stored
        BY <1>3, <2>2 DEF Passed
      <3>2. e \in Events /\ LedgerOf[e] \in Nat /\ e \in Nat /\ e # 0
        BY <1>0
      <3>3. CASE cp.token = 0
        <4>1. LedgerOf[e] <= cp.last
          BY <1>1, <3>1, <3>2, <3>3
        <4>. QED BY <3>1, <3>3, <4>1 DEF IngestInv, CheckpointSound, CheckpointCovers
      <3>4. CASE cp.token # 0
        <4>1. cp.token \in Events /\ cp.last = LedgerOf[cp.token] /\ LedgerOf[cp.token] \in Nat
          BY <1>0, <1>1, <3>4
        <4>2. e <= cp.token
          <5>1. cp.token <= e => LedgerOf[cp.token] <= LedgerOf[e]
            BY <1>0, <3>2, <4>1
          <5>. QED BY <1>1, <3>1, <3>2, <4>1, <5>1
        <4>. QED BY <3>1, <3>4, <4>2 DEF IngestInv, CheckpointSound, CheckpointCovers
      <3>. QED BY <3>3, <3>4
    <2>. QED BY <2>1, <2>2
  <1>. HIDE DEF RunIn
  <1>5. IsRun(run)
    BY <1>2 DEF IsRun
  <1>6. run.token = 0 \/ run.token \in OnLedger
    BY <1>1, <1>3
  <1>7. EarlyNoted(run)
    <2> SUFFICES ASSUME NEW l \in Nat, l > closed, l <= run.to \/ (run.origin <= l /\ l < run.start)
                 PROVE  l \in run.early
      BY DEF EarlyNoted
    <2>0. closed \in Nat
      BY DEF IngestInv
    <2>1. CASE l <= run.to
      BY <1>3, <2>0, <2>1
    <2>2. CASE run.origin <= l /\ l < run.start
      BY <1>1, <1>3, <2>0, <2>2
    <2>. QED BY <2>1, <2>2
  <1>. QED BY <1>3, <1>4, <1>5, <1>6, <1>7 DEF RunSound, Steps

LEMMA ReindexKeeps ==
    ASSUME IngestInv, NEW r \in Runs, NEW from \in Nat, NEW to \in Nat, NEW force \in BOOLEAN, reindex(r, from, to, force)
    PROVE  IngestInv'
  <1>2. PICK cp : cp = checkpoint
    OBVIOUS
  <1> DEFINE resumes == ~force /\ cp # NoCheckpoint
             run == [step |-> "fetch", to |-> to, page |-> {}, short |-> FALSE, linked |-> TRUE,
                     early |-> ((closed + 1)..to) \cup (IF resumes THEN cp.early ELSE {}),
                     start |-> IF resumes THEN cp.last ELSE from,
                     token |-> IF resumes THEN cp.token ELSE 0,
                     origin |-> IF resumes THEN cp.origin ELSE from]
  <1>3. closed' = closed /\ stored' = stored /\ checkpoint' = checkpoint /\ Set(r, run)
    BY <1>2 DEF reindex
  <1>4. PICK go \in BOOLEAN : go = resumes
    OBVIOUS
  <1>5. PICK next : next = run
    OBVIOUS
  <1>6. RunSound(next)
    BY <1>2, <1>4, <1>5, StartIsSound
  <1>7. Set(r, next)
    BY <1>3, <1>5
  <1>. HIDE DEF resumes, run
  <1>8. RunSound(next)'
    BY <1>3, <1>6, RunKept
  <1>9. CheckpointSound'
    BY <1>3, CheckpointKept DEF IngestInv
  <1>. QED BY <1>3, <1>7, <1>8, <1>9, RunSteps

LEMMA FetchKeeps ==
    ASSUME IngestInv, NEW r \in Runs, reindexing[r] # NoRun, fetchPageWithRetry(r)
    PROVE  IngestInv'
  <1>1. PICK run : run = reindexing[r]
    OBVIOUS
  <1>2. RunSound(run)
    BY <1>1 DEF IngestInv
  <1>3. PICK page : page = fetchPage(run)
    OBVIOUS
  <1>4. PICK S, P, B, L, E : run \in RunIn(S, P, B, L, E)
    BY <1>2 DEF RunSound, IsRun
  <1> DEFINE step == IF page = {} THEN "finish" ELSE "persist"
             short == Cardinality(page) < PageLimit
  <1>5. PICK linked \in BOOLEAN :
          /\ linked \/ page = InRange(run)
          /\ Set(r, [run EXCEPT !.step = step, !.page = page, !.linked = linked, !.short = short])
    BY <1>1, <1>3 DEF fetchPageWithRetry
  <1>15. closed' = closed /\ stored' = stored /\ checkpoint' = checkpoint
    BY DEF fetchPageWithRetry
  <1>6. PICK next : next = [run EXCEPT !.step = step, !.page = page, !.linked = linked, !.short = short]
    OBVIOUS
  <1>7. /\ next \in RunIn(S \cup {step}, P \cup {page}, B \cup {short}, L \cup {linked}, E)
        /\ next.step = step /\ next.page = page /\ next.short = short /\ next.linked = linked
        /\ next.early = run.early
        /\ next.to = run.to /\ next.start = run.start /\ next.token = run.token
        /\ next.origin = run.origin
    BY <1>4, <1>6 DEF RunIn
  <1>8. Set(r, next)
    BY <1>5, <1>6
  <1>9. /\ page \subseteq InRange(run)
        /\ \A e \in page : \A f \in InRange(run) : f < e => f \in page
        /\ short => InRange(run) \subseteq page
        /\ page = {} => InRange(run) = {}
    BY <1>3, PageFetched
  <1>. HIDE DEF short, RunIn
  <1>10. InRange(next) = InRange(run) /\ Owed(next) = Owed(run) /\ Owed(run) \subseteq InRange(run)
    BY <1>7 DEF InRange, Owed
  <1>11. IsRun(next)
    BY <1>7 DEF IsRun
  <1>16. (short \/ ~linked => Owed(run) \subseteq page) /\ (page = {} => Owed(run) = {})
    BY <1>5, <1>9, <1>10
  <1>12. RunSound(next)
    BY <1>2, <1>7, <1>9, <1>10, <1>11, <1>16 DEF RunSound, Steps, EarlyNoted
  <1>13. RunSound(next)'
    BY <1>12, <1>15, RunKept
  <1>14. CheckpointSound'
    BY <1>15, CheckpointKept DEF IngestInv
  <1>. QED BY <1>8, <1>13, <1>14, <1>15, RunSteps

LEMMA PersistKeeps ==
    ASSUME IngestInv, NEW r \in Runs, reindexing[r] # NoRun, persistEvent(r)
    PROVE  IngestInv'
  <1>0. /\ \A e \in Events : LedgerOf[e] \in Nat /\ e \in Nat
        /\ \A e, f \in Events : e <= f => LedgerOf[e] <= LedgerOf[f]
        /\ \A e \in OnLedger : e \in Events
    BY EventsAreNumbered
  <1>1. PICK run : run = reindexing[r]
    OBVIOUS
  <1>2. RunSound(run) /\ run.step = "persist"
    BY <1>1 DEF IngestInv, persistEvent
  <1>3. PICK S, P, B, L, E : run \in RunIn(S, P, B, L, E)
    BY <1>2 DEF RunSound, IsRun
  <1>4. InRange(run) \subseteq Events
    BY InRangeEvents
  <1>5. run.page \subseteq Events /\ run.page # {}
    BY <1>2, <1>4 DEF RunSound
  <1>6. PICK e : e = Least(run.page)
    OBVIOUS
  <1>7. e \in run.page /\ \A f \in run.page : e <= f
    BY <1>5, <1>6, HasLeast
  <1>8. /\ e \in InRange(run) /\ e \in Events /\ e \in Nat /\ e > run.token
        /\ run.start <= LedgerOf[e] /\ LedgerOf[e] <= run.to /\ e \in OnLedger
    BY <1>2, <1>7, InRangeEvents DEF RunSound
  <1> DEFINE step == IF run.page = {e} THEN "save" ELSE "persist"
             left == run.page \ {e}
             to == [run EXCEPT !.page = @ \ {e}, !.token = e, !.step = step]
  <1>9. closed' = closed /\ stored' = (IF storedByReindex(e) THEN stored \cup {e} ELSE stored)
        /\ checkpoint' = checkpoint /\ Set(r, to)
    BY <1>1, <1>6 DEF persistEvent
  <1>10. PICK next : next = to
    OBVIOUS
  <1>11. /\ next \in RunIn(S \cup {step}, P \cup {left}, B, L, E)
         /\ next.step = step /\ next.page = left /\ next.short = run.short /\ next.linked = run.linked
         /\ next.early = run.early
         /\ next.to = run.to /\ next.start = run.start /\ next.token = e
         /\ next.origin = run.origin
    BY <1>3, <1>8, <1>10 DEF RunIn
  <1>12. Set(r, next)
    BY <1>9, <1>10
  <1>13. run.to \in Nat /\ run.start \in Nat /\ run.token \in Nat
    BY <1>3 DEF RunIn
  <1>. HIDE DEF to, RunIn
  <1>14. \A f : f \in InRange(next) <=> f \in InRange(run) /\ f > e
    <2> TAKE f
    <2>1. CASE f \in OnLedger
      <3>1. f \in Nat
        BY <1>0, <2>1
      <3>2. f > e => f > run.token
        BY <1>8, <1>13, <3>1
      <3>. QED BY <1>11, <2>1, <3>2 DEF InRange
    <2>2. CASE f \notin OnLedger
      BY <2>2 DEF InRange
    <2>. QED BY <2>1, <2>2
  <1>15. left \subseteq InRange(next)
    <2> SUFFICES ASSUME NEW f \in left PROVE f \in InRange(next)
      OBVIOUS
    <2>1. f \in run.page /\ f # e /\ f \in InRange(run) /\ f \in Nat
      BY <1>0, <1>2, <1>5 DEF RunSound
    <2>2. f > e
      BY <1>7, <1>8, <2>1
    <2>. QED BY <1>14, <2>1, <2>2
  <1>16. \A f \in left : \A g \in InRange(next) : g < f => g \in left
    <2> SUFFICES ASSUME NEW f \in left, NEW g \in InRange(next), g < f PROVE g \in left
      OBVIOUS
    <2>1. g \in InRange(run) /\ g > e
      BY <1>14
    <2>2. g \in run.page
      BY <1>2, <2>1 DEF RunSound
    <2>. QED BY <1>8, <2>1, <2>2
  <1>17. run.short \/ ~run.linked => Owed(next) \subseteq left
    <2> SUFFICES ASSUME run.short \/ ~run.linked, NEW f \in Owed(next) PROVE f \in left
      OBVIOUS
    <2>1. f \in InRange(run) /\ f > e /\ f \in Owed(run)
      BY <1>11, <1>14 DEF Owed
    <2>2. f \in run.page
      BY <1>2, <2>1 DEF RunSound
    <2>. QED BY <1>8, <2>1, <2>2
  <1>18. Passed(next.origin, next.start, next.token, next.early)'
    <2>1. \A f : f \in OnLedger' <=> f \in OnLedger
      BY <1>9 DEF OnLedger
    <2>2. SUFFICES ASSUME NEW f \in OnLedger, storedByReindex(f), run.origin <= LedgerOf[f],
                          LedgerOf[f] \notin run.early, LedgerOf[f] < run.start \/ f <= e
                   PROVE  f \in stored'
      BY <1>11, <2>1 DEF Passed
    <2>3. CASE f = e
      BY <1>9, <2>2, <2>3
    <2>4. CASE LedgerOf[f] < run.start \/ f <= run.token
      <3>1. f \in stored
        BY <1>2, <2>2, <2>4 DEF RunSound, Passed
      <3>. QED BY <1>9, <3>1
    <2>5. CASE f # e /\ ~(LedgerOf[f] < run.start) /\ ~(f <= run.token)
      <3>1. f \in Events /\ f \in Nat /\ LedgerOf[f] \in Nat /\ LedgerOf[e] \in Nat
        BY <1>0, <1>8, <2>2
      <3>2. f < e /\ f > run.token /\ run.start <= LedgerOf[f]
        BY <1>8, <1>13, <2>2, <2>5, <3>1
      <3>3. LedgerOf[f] <= LedgerOf[e]
        BY <1>0, <1>8, <3>1, <3>2
      <3>4. f \in InRange(run)
        BY <1>8, <1>13, <2>2, <3>1, <3>2, <3>3 DEF InRange
      <3>5. f \in run.page
        BY <1>2, <1>7, <3>2, <3>4 DEF RunSound
      <3>. QED BY <1>7, <1>8, <3>1, <3>2, <3>5
    <2>. QED BY <2>3, <2>4, <2>5
  <1>19. IsRun(next)
    BY <1>11 DEF IsRun
  <1>20. OnLedger' = OnLedger /\ InRange(next)' = InRange(next) /\ Owed(next)' = Owed(next)
    BY <1>9 DEF OnLedger, InRange, Owed
  <1>25. EarlyNoted(next)'
    BY <1>2, <1>9, <1>11 DEF RunSound, EarlyNoted
  <1>21. (next.step = "save" => left = {}) /\ (next.step = "persist" => left # {}) /\ next.step # "finish"
         /\ next.step \in Steps
    BY <1>7, <1>11 DEF Steps
  <1>. HIDE DEF step, left
  <1>22. RunSound(next)'
    BY <1>2, <1>8, <1>9, <1>11, <1>15, <1>16, <1>17, <1>18, <1>19, <1>20, <1>21, <1>25 DEF RunSound, IsRun
  <1>23. stored \subseteq stored'
    BY <1>9
  <1>24. CheckpointSound'
    BY <1>9, <1>23, CheckpointKept DEF IngestInv
  <1>. QED BY <1>9, <1>12, <1>22, <1>23, <1>24, RunSteps

\* Whatever a run has nothing left to read of is stored up to the ledger named.
LEMMA RangeIsStored ==
    ASSUME NEW run, RunSound(run), Owed(run) = {}, NEW last \in Nat, last <= run.to,
           NEW cp, cp = [last |-> last, token |-> 0, origin |-> run.origin, early |-> run.early],
           closed \in Nat, closed' = closed, stored' = stored, checkpoint' = cp
    PROVE  CheckpointSound'
  <1>0. \A e \in OnLedger : e \in Events /\ LedgerOf[e] \in Nat /\ e \in Nat /\ e # 0
    BY EventsAreNumbered
  <1>1. PICK S, P, B, L, E : run \in RunIn(S, P, B, L, E)
    BY DEF RunSound, IsRun
  <1>2. run.to \in Nat /\ run.start \in Nat /\ run.token \in Nat /\ run.origin \in Nat
    BY <1>1 DEF RunIn, RunSound
  <1>3. cp.last = last /\ cp.token = 0 /\ cp.origin = run.origin /\ cp.early = run.early
    OBVIOUS
  <1>4. CheckpointCovers'
    <2>1. \A e : e \in OnLedger' <=> e \in OnLedger
      BY DEF OnLedger
    <2>2. SUFFICES ASSUME NEW e \in OnLedger, storedByReindex(e), run.origin <= LedgerOf[e],
                          LedgerOf[e] \notin run.early, LedgerOf[e] <= last
                   PROVE  e \in stored
      BY <1>3, <2>1 DEF CheckpointCovers
    <2>3. LedgerOf[e] < run.start \/ e <= run.token
      BY <1>0, <1>2, <2>2 DEF InRange, Owed
    <2>. QED BY <2>2, <2>3 DEF RunSound, Passed
  <1>5. \A l \in Nat : l > closed /\ l <= last => l \in run.early
    BY <1>2 DEF RunSound, EarlyNoted
  <1>. QED BY <1>2, <1>3, <1>4, <1>5 DEF CheckpointSound

LEMMA SaveKeeps ==
    ASSUME IngestInv, NEW r \in Runs, reindexing[r] # NoRun, saveCheckpoint(r)
    PROVE  IngestInv'
  <1>0. /\ \A e \in Events : LedgerOf[e] \in Nat /\ e \in Nat
        /\ \A e \in OnLedger : e \in Events /\ e # 0 /\ LedgerOf[e] <= closed
        /\ \A e, f \in Events : e <= f => LedgerOf[e] <= LedgerOf[f]
    BY EventsAreNumbered
  <1>1. PICK run : run = reindexing[r]
    OBVIOUS
  <1>2. RunSound(run) /\ run.step = "save"
    BY <1>1 DEF IngestInv, saveCheckpoint
  <1>3. PICK S, P, B, L, E : run \in RunIn(S, P, B, L, E)
    BY <1>2 DEF RunSound, IsRun
  <1>4. PICK last : last = LedgerOf[run.token]
    OBVIOUS
  <1>5. /\ run.token \in Events /\ run.page = {} /\ last \in Nat /\ run.token \in Nat
        /\ run.start <= last /\ last <= run.to /\ run.origin \in Nat /\ run.to \in Nat
        /\ (run.short \/ ~run.linked => Owed(run) = {})
    BY <1>0, <1>2, <1>3, <1>4 DEF RunIn, RunSound
  <1>6. /\ checkpoint' = [last |-> last, token |-> IF run.linked THEN run.token ELSE 0,
                          origin |-> run.origin, early |-> run.early]
        /\ Set(r, [run EXCEPT !.step = IF run.short \/ ~run.linked THEN "finish" ELSE "fetch"])
    BY <1>1, <1>4 DEF saveCheckpoint
  <1> DEFINE step == IF run.short \/ ~run.linked THEN "finish" ELSE "fetch"
  <1>7. PICK next : next = [run EXCEPT !.step = step]
    OBVIOUS
  <1>8. /\ next \in RunIn(S \cup {step}, P, B, L, E)
        /\ next.step = step /\ next.page = run.page /\ next.short = run.short /\ next.linked = run.linked
        /\ next.early = run.early
        /\ next.to = run.to /\ next.start = run.start /\ next.token = run.token
        /\ next.origin = run.origin
    BY <1>3, <1>7 DEF RunIn
  <1>9. closed' = closed /\ stored' = stored /\ Set(r, next)
    BY <1>6, <1>7 DEF saveCheckpoint
  <1>. HIDE DEF RunIn
  <1>10. IsRun(next) /\ InRange(next) = InRange(run) /\ Owed(next) = Owed(run)
    BY <1>8 DEF IsRun, InRange, Owed
  <1>11. RunSound(next)
    <2>1. step = "finish" => Owed(run) = {}
      BY <1>5
    <2>2. step \in {"finish", "fetch"}
      OBVIOUS
    <2>. HIDE DEF step
    <2>. QED BY <1>2, <1>8, <1>10, <2>1, <2>2 DEF RunSound, Steps, EarlyNoted
  <1>12. RunSound(next)'
    BY <1>9, <1>11, RunKept
  <1>13. CheckpointSound'
    <2>1. CASE ~run.linked
      <3>1. PICK cp : cp = [last |-> last, token |-> 0, origin |-> run.origin, early |-> run.early]
        OBVIOUS
      <3>2. checkpoint' = cp /\ Owed(run) = {}
        BY <1>5, <1>6, <2>1, <3>1
      <3>3. closed \in Nat
        BY DEF IngestInv
      <3>. QED BY <1>2, <1>5, <1>9, <3>1, <3>2, <3>3, RangeIsStored
    <2>2. CASE run.linked
      <3>1. /\ checkpoint'.last = last /\ checkpoint'.token = run.token
            /\ checkpoint'.origin = run.origin /\ checkpoint'.early = run.early
        BY <1>6, <2>2
      <3>2. run.token \in OnLedger /\ run.token # 0
        <4>1. run.token \in OnLedger
          BY <1>0, <1>2, <1>5, EventsAreNumbered DEF RunSound
        <4>. QED BY <1>0, <4>1
      <3>3. \A e : e \in OnLedger' <=> e \in OnLedger
        BY <1>9 DEF OnLedger
      <3>4. CheckpointCovers'
        BY <1>2, <1>9, <3>1, <3>2, <3>3 DEF RunSound, Passed, CheckpointCovers
      <3>5. last <= closed' /\ closed' \in Nat
        BY <1>0, <1>4, <1>9, <3>2 DEF IngestInv
      <3>. QED BY <1>4, <1>5, <1>9, <3>1, <3>2, <3>3, <3>4, <3>5 DEF CheckpointSound
    <2>. QED BY <2>1, <2>2
  <1>. QED BY <1>9, <1>12, <1>13, RunSteps

LEMMA FinishKeeps ==
    ASSUME IngestInv, NEW r \in Runs, reindexing[r] # NoRun, finishRange(r)
    PROVE  IngestInv'
  <1>1. PICK run : run = reindexing[r]
    OBVIOUS
  <1>2. RunSound(run) /\ run.step = "finish"
    BY <1>1 DEF IngestInv, finishRange
  <1>3. PICK S, P, B, L, E : run \in RunIn(S, P, B, L, E)
    BY <1>2 DEF RunSound, IsRun
  <1>4. run.to \in Nat /\ Owed(run) = {} /\ run.to <= run.to
    BY <1>2, <1>3 DEF RunIn, RunSound
  <1>5. PICK cp : cp = [last |-> run.to, token |-> 0, origin |-> run.origin, early |-> run.early]
    OBVIOUS
  <1>6. closed' = closed /\ stored' = stored /\ checkpoint' = cp /\ Set(r, NoRun)
    BY <1>1, <1>5 DEF finishRange
  <1>7. CheckpointSound'
    BY <1>2, <1>4, <1>5, <1>6, RangeIsStored DEF IngestInv
  <1>. QED BY <1>6, <1>7, RunSteps

LEMMA IngestInitially == IngestInit => IngestInv
  <1> SUFFICES ASSUME IngestInit PROVE IngestInv
    OBVIOUS
  <1>1. closed = 0 /\ checkpoint = NoCheckpoint /\ reindexing = [r \in Runs |-> NoRun]
    BY DEF IngestInit
  <1>2. checkpoint.last = 0 /\ checkpoint.token = 0 /\ checkpoint.origin = 0
    BY <1>1 DEF NoCheckpoint
  <1>3. CheckpointCovers
    <2>0. \A e \in Events : LedgerOf[e] \in Nat /\ LedgerOf[e] > 0
      BY EventsAreNumbered
    <2>1. OnLedger = {}
      BY <1>1, <2>0 DEF OnLedger
    <2>. QED BY <2>1 DEF CheckpointCovers
  <1>4. reindexing \in [Runs -> {NoRun}]
    BY <1>1
  <1>5. \E states : reindexing \in [Runs -> states]
    BY <1>4
  <1>. QED BY <1>1, <1>2, <1>3, <1>5 DEF IngestInv, CheckpointSound

\* Steps that leave the runs and the checkpoint alone, and delete nothing.
LEMMA AsideKeeps ==
    ASSUME IngestInv, closed' = closed, stored \subseteq stored', checkpoint' = checkpoint,
           reindexing' = reindexing
    PROVE  IngestInv'
  <1>1. PICK states : reindexing \in [Runs -> states]
    BY DEF IngestInv
  <1>2. reindexing' = [r \in Runs |-> IF r \in {} THEN NoRun ELSE reindexing[r]]
    BY <1>1
  <1>3. \E lost \in SUBSET Runs : reindexing' = [r \in Runs |-> IF r \in lost THEN NoRun ELSE reindexing[r]]
    <2>1. {} \in SUBSET Runs
      OBVIOUS
    <2>. QED BY <1>2, <2>1
  <1>. QED BY <1>3, OthersKeep

LEMMA IngestStep ==
    ASSUME IngestInv, [IngestNext]_ingestVars
    PROVE  IngestInv'
  <1>1. CASE CloseLedger
    BY <1>1, ClosingKeeps
  <1>2. CASE openStream \/ handleRecord \/ streamError
    BY <1>2, AsideKeeps DEF openStream, handleRecord, streamError, reindexVars
  <1>3. CASE IngestCrash
    BY <1>3, OthersKeep DEF IngestCrash
  <1>4. ASSUME NEW t \in Events \X Sessions, persistStreamed(t) \/ safeUpdateCursor(t)
        PROVE  IngestInv'
    <2>1. stored \subseteq stored' /\ closed' = closed /\ checkpoint' = checkpoint /\ reindexing' = reindexing
      BY <1>4 DEF persistStreamed, safeUpdateCursor, reindexVars
    <2>. QED BY <2>1, AsideKeeps
  <1>5. ASSUME NEW r \in Runs, NEW from \in Nat, NEW to \in Nat, NEW force \in BOOLEAN, reindex(r, from, to, force)
        PROVE  IngestInv'
    BY <1>5, ReindexKeeps
  <1>6. ASSUME NEW r \in Runs, fetchPageWithRetry(r) \/ persistEvent(r) \/ saveCheckpoint(r) \/ finishRange(r)
        PROVE  IngestInv'
    <2>1. reindexing[r].step # "idle"
      BY <1>6 DEF fetchPageWithRetry, persistEvent, saveCheckpoint, finishRange
    <2>2. reindexing[r] # NoRun
      BY <2>1 DEF NoRun
    <2>. QED BY <1>6, <2>2, FetchKeeps, PersistKeeps, SaveKeeps, FinishKeeps
  <1>7. ASSUME NEW r \in Runs, reindexFails(r) PROVE IngestInv'
    <2>1. PICK states : reindexing \in [Runs -> states]
      BY DEF IngestInv
    <2>2. reindexing' = [q \in Runs |-> IF q \in {r} THEN NoRun ELSE reindexing[q]]
      BY <1>7, <2>1 DEF reindexFails, Set
    <2>3. \E lost \in SUBSET Runs : reindexing' = [q \in Runs |-> IF q \in lost THEN NoRun ELSE reindexing[q]]
      BY <2>2
    <2>. QED BY <1>7, <2>3, OthersKeep DEF reindexFails
  <1>8. CASE \E end \in 1..closed : \E from \in 1..end : startBackfill(from, end)
    BY <1>8, AsideKeeps DEF startBackfill
  <1>9. CASE fetchContractEvents \/ saveBackfilled
    BY <1>9, AsideKeeps DEF fetchContractEvents, saveBackfilled, reindexVars
  <1>10. CASE persistBackfilled
    <2>1. stored \subseteq stored'
      BY <1>10 DEF persistBackfilled
    <2>. QED BY <1>10, <2>1, AsideKeeps DEF persistBackfilled, reindexVars
  <1>11. CASE UNCHANGED ingestVars
    BY <1>11, AsideKeeps DEF ingestVars
  <1>. QED BY <1>1, <1>2, <1>3, <1>4, <1>5, <1>6, <1>7, <1>8, <1>9, <1>10, <1>11 DEF IngestNext

(* A checkpoint never names a ledger or token before which an event of its     *)
(* chain of runs is missing, whichever runs failed, crashed, were resumed      *)
(* elsewhere or crossed, but for ledgers that were asked for before they       *)
(* closed (soroban-event-indexer.service.ts).                                  *)
THEOREM CheckpointsCover == IngestSpec => []CheckpointCovers
  <1>1. IngestInv /\ [IngestNext]_ingestVars => IngestInv'
    BY IngestStep
  <1>2. IngestInv => CheckpointCovers
    BY DEF IngestInv, CheckpointSound
  <1>. QED BY <1>1, <1>2, IngestInitially, PTL DEF IngestSpec
=============================================================================
