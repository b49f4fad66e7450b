---------------------------- MODULE UpgradeGate ----------------------------
(***************************************************************************)
(* The upgrade gate of the governance contract: the window, the three steps  *)
(* of an upgrade and the migration of a legacy deployment                    *)
(* (governance/src/admin.rs, shared/src/storage.rs). The code that replaces  *)
(* the running one is taken to be another build of this contract.            *)
(***************************************************************************)
EXTENDS AdminRoles

CONSTANTS Code,          \* hashes of the builds an upgrade may name
          DeployedCode,  \* hash of the build first deployed, which nothing records
          NoCode,        \* no hash is recorded
          NoVersion,     \* no pending version is recorded
          Versions,      \* the version numbers a caller passes
          Windows,       \* the pairs <<start, end>> a caller passes
          MaxTime        \* bound on the clock

ASSUME GateAssumption ==
    /\ NoCode \notin Code \cup {DeployedCode}
    /\ Versions \subseteq Nat /\ NoVersion \notin Nat
    /\ Windows \subseteq Nat \X Nat
    /\ MaxTime \in Nat

VARIABLES now,       \* ledger timestamp, seconds
          window,    \* DataKey::UpgradeWindowStart, UpgradeWindowEnd
          gate,      \* DataKey::UpgradeInProgress and the three Pending* records
          wasmHash,  \* DataKey::WasmHash
          running    \* the executable of the contract

codeVars == <<wasmHash, running>>
gateVars == <<window, gate, codeVars>>
upgradeVars == <<adminVars, gateVars, now>>

NoUpgrade == [inProgress |-> FALSE, rollback |-> NoCode, hash |-> NoCode, version |-> NoVersion]

GateTypeOK ==
    /\ AdminTypeOK
    /\ now \in 0..MaxTime
    /\ window \in Nat \X Nat
    /\ gate \in [inProgress : BOOLEAN, rollback : Code \cup {DeployedCode, NoCode},
                 hash : Code \cup {NoCode}, version : Versions \cup {NoVersion}]
    /\ wasmHash \in Code \cup {DeployedCode, NoCode}
    /\ running \in Code \cup {DeployedCode}

GateInit ==
    /\ AdminInit
    /\ now = 0
    /\ window = <<0, 0>>
    /\ gate = NoUpgrade
    /\ wasmHash = NoCode
    /\ running = DeployedCode

-----------------------------------------------------------------------------
(* is_upgrade_window_active: a start of 0 is no window, an end of 0 no bound. *)
WindowActive ==
    /\ window[1] # 0
    /\ now >= window[1]
    /\ window[2] = 0 \/ now <= window[2]

SetUpgradeWindow(caller, start, end) ==
    /\ IsAdmin(caller)
    /\ end = 0 \/ end > start
    /\ window' = <<start, end>>
    /\ UNCHANGED <<adminVars, gate, codeVars, now>>

Begun(v, h) == [inProgress |-> TRUE, rollback |-> wasmHash, hash |-> h, version |-> v]

StartUpgrade(caller, v, h) ==
    /\ IsAdmin(caller)
    /\ WindowActive
    /\ ~gate.inProgress
    /\ gate' = Begun(v, h)
    /\ UNCHANGED <<adminVars, window, codeVars, now>>

Install(h) == wasmHash' = h /\ running' = h

(* Mutant: the window is only looked at when the upgrade starts. *)
UpgradeAnyTime(caller, h) ==
    /\ IsAdmin(caller)
    /\ gate.inProgress
    /\ gate.hash # NoCode
    /\ h = gate.hash
    /\ Install(h)
    /\ UNCHANGED <<adminVars, window, gate, now>>

Upgrade(caller, h) ==
    /\ IsAdmin(caller)
    /\ gate.inProgress
    /\ WindowActive
    /\ gate.hash # NoCode
    /\ h = gate.hash
    /\ Install(h)
    /\ UNCHANGED <<adminVars, window, gate, now>>

(* Mutant: only the flag is cleared. *)
CancelUpgradeFlagOnly(caller) ==
    /\ IsAdmin(caller)
    /\ IF gate.rollback # NoCode THEN Install(gate.rollback) ELSE UNCHANGED codeVars
    /\ gate' = [gate EXCEPT !.inProgress = FALSE]
    /\ UNCHANGED <<adminVars, window, now>>

(* Neither the window nor the flag is looked at. *)
CancelUpgrade(caller) ==
    /\ IsAdmin(caller)
    /\ IF gate.rollback # NoCode THEN Install(gate.rollback) ELSE UNCHANGED codeVars
    /\ gate' = NoUpgrade
    /\ UNCHANGED <<adminVars, window, now>>

(* migrate(): a legacy deployment is migrated by its admin, whose role is     *)
(* seeded; any other deployment needs an admin and keeps its version. The     *)
(* checks after the migration read the fee bound, the version and the admin.  *)
MigrationAllowed(caller) ==
    IF version = LegacyVersion THEN caller \in Callers /\ caller = admin ELSE IsAdmin(caller)

PostUpgradeInvariants == settings'.feeBps <= MaxBps /\ version' = CurrentVersion /\ admin' # NoAccount

MigrateBy(caller) ==
    /\ MigrationAllowed(caller)
    /\ version <= CurrentVersion
    /\ version' = CurrentVersion
    /\ IF version = LegacyVersion
       THEN SetRoles(caller, roles[caller] \cup {"Admin"}) /\ initialized' = TRUE
       ELSE UNCHANGED <<roles, initialized>>
    /\ UNCHANGED <<admin, pendingAdmin, settings>>
    /\ PostUpgradeInvariants

Migrate(caller) ==
    /\ MigrateBy(caller)
    /\ UNCHANGED <<gateVars, now>>

(* Mutant: the recorded hash is not compared. *)
CompleteUpgradeUninstalled(caller, v) ==
    /\ gate.inProgress
    /\ gate.version # NoVersion
    /\ gate.hash # NoCode
    /\ v \in {0, gate.version}
    /\ MigrateBy(caller)
    /\ gate.version \in {0, version'}
    /\ gate' = NoUpgrade
    /\ UNCHANGED <<window, codeVars, now>>

(* The version 0 stands for any version. *)
CompleteUpgrade(caller, v) ==
    /\ gate.inProgress
    /\ gate.version # NoVersion
    /\ gate.hash # NoCode
    /\ v \in {0, gate.version}
    /\ wasmHash = gate.hash
    /\ MigrateBy(caller)
    /\ gate.version \in {0, version'}
    /\ gate' = NoUpgrade
    /\ UNCHANGED <<window, codeVars, now>>

Tick ==
    /\ now < MaxTime
    /\ now' = now + 1
    /\ UNCHANGED <<adminVars, gateVars>>

UpgradeNext ==
    \E c \in Callers :
        \/ \E w \in Windows : SetUpgradeWindow(c, w[1], w[2])
        \/ \E v \in Versions, h \in Code : StartUpgrade(c, v, h)
        \/ \E h \in Code : Upgrade(c, h)
        \/ CancelUpgrade(c)
        \/ \E v \in Versions : CompleteUpgrade(c, v)
        \/ Migrate(c)

GateNext ==
    \/ AdminNext /\ UNCHANGED <<gateVars, now>>
    \/ UpgradeNext
    \/ Tick

GateSpec == GateInit /\ [][GateNext]_upgradeVars

-----------------------------------------------------------------------------
(* The gate is open or shut as a whole: the flag and the pending hash and     *)
(* version stand or fall together, and a shut gate has nothing to roll back   *)
(* to, so that cancel_upgrade outside an upgrade cannot change the code.      *)
GateWhole ==
    /\ gate.inProgress <=> gate.hash # NoCode
    /\ gate.inProgress <=> gate.version # NoVersion
    /\ gate.rollback # NoCode => gate.inProgress

(* The recorded hash is that of the code that runs: complete_upgrade compares *)
(* with the record because a contract cannot ask for its own code (admin.rs). *)
RecordedIsRunning == wasmHash # NoCode => running = wasmHash

(* "Added contract-level safeguards [...] This implementation ensures          *)
(* upgrades only occur during admin-configured time windows"                  *)
(* (UPGRADE_SAFETY_GATE_IMPLEMENTATION.md): the code changes only to the build *)
(* that an open gate names, inside the window, or back to the one it replaced. *)
CodeChangesAreGated ==
    [][running' # running =>
          /\ gate.inProgress
          /\ (running' = gate.hash /\ WindowActive) \/ running' = gate.rollback]_upgradeVars

(* "Verify currently running WASM matches pending hash" (complete_upgrade,     *)
(* admin.rs): an upgrade is completed only when the announced build runs,      *)
(* whatever earlier upgrades, cancellations and windows left in the records    *)
(* that are compared instead.                                                  *)
CompletedUpgradeRuns ==
    [][\A c \in Callers, v \in Versions :
          CompleteUpgrade(c, v) => running = gate.hash]_upgradeVars
=============================================================================
