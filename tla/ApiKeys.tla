------------------------------- MODULE ApiKeys -------------------------------
(***************************************************************************)
(* API keys: rotation, emergency rotation, revocation and the validation of  *)
(* a key that a request carries (api-keys.service.ts, api-keys.repository.ts).*)
(* A call reads the row, hashes the new key and updates the row by its id,   *)
(* and other calls run in between. A bcrypt hash is taken to be the raw key  *)
(* it matches. Names, scopes and usage counters are left out.                *)
(***************************************************************************)
EXTENDS Integers, FiniteSets

CONSTANTS KeyRows,      \* rows of api_keys
          Organizations,
          RawKeys,      \* the raw keys the generator yields, no two the same
          NoKey,        \* no raw key
          KeyPrefixes,  \* the sets of raw keys that share their first 11 characters
          KeyCalls,     \* calls being served at once
          Overlap,      \* how long an old key outlives a rotation: 24 hours
          MaxHours      \* bound on the clock

ASSUME KeysAssumption ==
    /\ NoKey \notin RawKeys
    /\ UNION KeyPrefixes = RawKeys
    /\ \A p, q \in KeyPrefixes : p = q \/ p \cap q = {}
    /\ Overlap \in Nat /\ MaxHours \in Nat

VARIABLES apiKeys,  \* rows of api_keys that were inserted, by id
          keyCalls, \* what each call has read and will write
          hours,    \* the clock
          issued,   \* raw keys generated so far
          burned    \* history: keys an emergency rotation has replaced

keyVars == <<apiKeys, keyCalls, hours, issued, burned>>

Served == [step |-> "served"]

(* key_prefix is written together with key_hash, from the same raw key.       *)
KeyRow == [organization : Organizations, active : BOOLEAN, hash : RawKeys,
           old : RawKeys \cup {NoKey}, rotated : 0..MaxHours]

KeysTypeOK ==
    /\ DOMAIN apiKeys \subseteq KeyRows
    /\ \A id \in DOMAIN apiKeys : apiKeys[id] \in KeyRow
    /\ DOMAIN keyCalls = KeyCalls
    /\ hours \in 0..MaxHours
    /\ issued \subseteq RawKeys /\ burned \subseteq issued

KeysInit ==
    /\ apiKeys = << >>
    /\ keyCalls = [c \in KeyCalls |-> Served]
    /\ hours = 0
    /\ issued = {}
    /\ burned = {}

-----------------------------------------------------------------------------
FreeCall(c) == keyCalls[c] = Served

Continue(c, to) == keyCalls' = [keyCalls EXCEPT ![c] = to]

(* findById answers active rows only; the caller must be of the organization. *)
Found(id) == id \in DOMAIN apiKeys /\ apiKeys[id].active

OfCaller(id, organization) == Found(id) /\ apiKeys[id].organization = organization

createKey(id, organization, raw) ==
    /\ id \in KeyRows \ DOMAIN apiKeys
    /\ raw \notin issued
    /\ apiKeys' = [i \in DOMAIN apiKeys \cup {id} |->
                      IF i = id THEN [organization |-> organization, active |-> TRUE,
                                      hash |-> raw, old |-> NoKey, rotated |-> 0]
                      ELSE apiKeys[i]]
    /\ issued' = issued \cup {raw}
    /\ UNCHANGED <<keyCalls, hours, burned>>

(* The three calls of an owner read the row first and refuse when it is       *)
(* missing, revoked or another organization's.                                *)
readFor(c, kind, id, organization) ==
    /\ FreeCall(c)
    /\ OfCaller(id, organization)
    /\ Continue(c, [step |-> kind, id |-> id])
    /\ UNCHANGED <<apiKeys, hours, issued, burned>>

revoke(c) ==
    /\ keyCalls[c].step = "revoke"
    /\ apiKeys' = [apiKeys EXCEPT ![keyCalls[c].id].active = FALSE]
    /\ Continue(c, Served)
    /\ UNCHANGED <<hours, issued, burned>>

(* rotate reads the row again, for the hash that becomes the old one ...       *)
rotateReads(c) ==
    /\ keyCalls[c].step = "rotate"
    /\ Continue(c, IF Found(keyCalls[c].id)
                   THEN [step |-> "update", id |-> keyCalls[c].id,
                         current |-> apiKeys[keyCalls[c].id].hash]
                   ELSE Served)
    /\ UNCHANGED <<apiKeys, hours, issued, burned>>

Rekeyed(row, raw, old) ==
    [organization |-> row.organization, active |-> row.active,
     hash |-> raw, old |-> old, rotated |-> hours]

(* ... and updates it by its id, whatever it is by then.                       *)
updateKey(c, raw) ==
    /\ keyCalls[c].step = "update"
    /\ raw \notin issued
    /\ LET id == keyCalls[c].id
       IN  apiKeys' = [apiKeys EXCEPT ![id] = Rekeyed(apiKeys[id], raw, keyCalls[c].current)]
    /\ issued' = issued \cup {raw}
    /\ Continue(c, Served)
    /\ UNCHANGED <<hours, burned>>

(* Mutant: the emergency keeps the replaced key as the old one. *)
OverlappingRow(row, raw) == Rekeyed(row, raw, row.hash)

EmergencyRow(row, raw) == Rekeyed(row, raw, NoKey)

(* A rotation that has already read a key will write it back as the old one.  *)
HeldByRotation(raw) == \E c \in KeyCalls : keyCalls[c].step = "update" /\ keyCalls[c].current = raw

emergencyUpdateKey(c, raw) ==
    /\ keyCalls[c].step = "emergency"
    /\ raw \notin issued
    /\ LET id == keyCalls[c].id
           replaced == {apiKeys[id].hash, apiKeys[id].old} \ {NoKey}
       IN  /\ apiKeys' = [apiKeys EXCEPT ![id] = EmergencyRow(apiKeys[id], raw)]
           /\ burned' = burned \cup {k \in replaced : ~HeldByRotation(k)}
    /\ issued' = issued \cup {raw}
    /\ Continue(c, Served)
    /\ UNCHANGED hours

KeyTick ==
    /\ hours < MaxHours
    /\ hours' = hours + 1
    /\ UNCHANGED <<apiKeys, keyCalls, issued, burned>>

-----------------------------------------------------------------------------
(* validateKey: the rows with the prefix of the key, then the current and,    *)
(* within the overlap, the old hash.                                          *)

SamePrefix(raw, other) == \E prefix \in KeyPrefixes : raw \in prefix /\ other \in prefix

Candidates(raw) ==
    {id \in DOMAIN apiKeys : apiKeys[id].active /\ SamePrefix(apiKeys[id].hash, raw)}

Matches(row, raw) ==
    \/ row.hash = raw
    \/ row.old = raw /\ hours - row.rotated < Overlap

Accepts(raw) == \E id \in Candidates(raw) : Matches(apiKeys[id], raw)

-----------------------------------------------------------------------------
KeysNext ==
    \/ \E id \in KeyRows, o \in Organizations, raw \in RawKeys : createKey(id, o, raw)
    \/ \E c \in KeyCalls :
          \/ \E kind \in {"revoke", "rotate", "emergency"}, id \in KeyRows, o \in Organizations :
                readFor(c, kind, id, o)
          \/ revoke(c)
          \/ rotateReads(c)
          \/ \E raw \in RawKeys : updateKey(c, raw) \/ emergencyUpdateKey(c, raw)
    \/ KeyTick

KeysSpec == KeysInit /\ [][KeysNext]_keyVars

-----------------------------------------------------------------------------
(* An emergency rotation "immediately invalidates the old key (no 24-hour     *)
(* grace period)" (developer.controller.ts:90), whatever rotations come       *)
(* later: a key it replaced is never accepted again. The exception is a       *)
(* rotation that had read the key before and writes it back as the old one.   *)
BurnedStaysDead == \A raw \in burned : ~Accepts(raw)

(* "returns record when key matches key_hash_old within 24h" (api-keys.       *)
(* service.unit.spec.ts:305): the key that a rotation replaced is accepted    *)
(* until the overlap ends.                                                    *)
OldKeyOverlaps ==
    \A id \in DOMAIN apiKeys :
        /\ apiKeys[id].active
        /\ apiKeys[id].old # NoKey
        /\ hours - apiKeys[id].rotated < Overlap
        => Accepts(apiKeys[id].old)
=============================================================================
