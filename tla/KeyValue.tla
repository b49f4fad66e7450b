------------------------------ MODULE KeyValue ------------------------------
(***************************************************************************)
(* The persistent key-value storage of a Soroban contract, one partial      *)
(* function per kind of DataKey: `has` is membership in its domain, `set`    *)
(* and `remove` are the operators below (shared/src/storage.rs). Extending   *)
(* the time to live of a record changes no value and is left out.            *)
(***************************************************************************)
EXTENDS Functions

Put(store, key, value) ==
    [k \in DOMAIN store \cup {key} |-> IF k = key THEN value ELSE store[k]]

Without(store, keys) == Restrict(store, DOMAIN store \ keys)
=============================================================================
