--------------------------- MODULE UpgradeProofs ---------------------------
(***************************************************************************)
(* Proofs about AdminRoles and UpgradeGate, for every set of accounts,       *)
(* builds, versions and windows, and every clock.                            *)
(***************************************************************************)
EXTENDS UpgradeGate, TLAPS

(* What the argument is about: whether the admin records are typed, and       *)
(* whether the admin keeps its role. The first does not need the second.      *)
AdminKept == AdminTypeOK' /\ (AdminHoldsRole => AdminHoldsRole')

-----------------------------------------------------------------------------
(* Administrators. *)

(* Whoever passes a role check is an account of an initialized contract whose *)
(* admin holds its role.                                                      *)
LEMMA CheckedCaller ==
    ASSUME NEW caller \in Callers, NEW allowed, HasAnyRole(caller, allowed)
    PROVE  caller \in Account /\ initialized /\ AdminValid
  BY AdminAssumption DEF HasAnyRole

(* A change of one account's roles that leaves the admin's own Admin role. *)
LEMMA RolesChangeKeeps ==
    ASSUME AdminTypeOK, NEW target \in Account, NEW granted \in SUBSET Role,
           SetRoles(target, granted), target = admin => "Admin" \in granted,
           UNCHANGED <<admin, pendingAdmin, deployVars, settings>>
    PROVE  AdminKept
  <1>1. roles' \in [Account -> SUBSET Role]
    BY DEF AdminTypeOK, SetRoles
  <1>2. AdminValid => AdminValid'
    BY DEF AdminTypeOK, AdminValid, SetRoles
  <1>. QED BY <1>1, <1>2 DEF AdminKept, AdminTypeOK, AdminHoldsRole, deployVars

(* A transfer gives the new admin the role that it takes from the old one. *)
LEMMA TransferKeeps ==
    ASSUME AdminTypeOK, AdminValid, NEW new \in Account, TransferTo(new)
    PROVE  AdminKept
  <1>1. roles' \in [Account -> SUBSET Role]
    BY DEF AdminTypeOK, TransferTo, Role
  <1>2. AdminValid'
    <2>1. new # NoAccount /\ admin' = new
      BY AdminAssumption DEF TransferTo
    <2>2. CASE new = admin
      BY <2>1, <2>2 DEF TransferTo, AdminValid
    <2>3. CASE new # admin
      BY <2>1, <2>3 DEF TransferTo, AdminValid, AdminTypeOK
    <2>. QED BY <2>2, <2>3
  <1>. QED BY <1>1, <1>2 DEF AdminKept, AdminTypeOK, AdminHoldsRole, TransferTo, deployVars

(* A change of settings touches no administrator. *)
LEMMA SettingsChangeKeeps ==
    ASSUME AdminTypeOK, NEW caller, NEW new \in SettingsType, ChangeSettings(caller, new)
    PROVE  AdminKept
  BY DEF AdminKept, AdminTypeOK, AdminHoldsRole, AdminValid, ChangeSettings,
         transferVars, deployVars

(* Neither does a step that leaves all administrative records alone. *)
LEMMA AdminUnchanged ==
    ASSUME AdminTypeOK, UNCHANGED adminVars
    PROVE  AdminKept
  BY DEF AdminKept, AdminTypeOK, AdminHoldsRole, AdminValid, adminVars, transferVars, deployVars

(* Every administrative call keeps the admin valid. *)
LEMMA AdminNextKeeps ==
    ASSUME AdminTypeOK, AdminNext
    PROVE  AdminKept
  <1>1. ASSUME NEW a \in Deployers, Initialize(a) PROVE AdminKept
    <2>1. a \in Account /\ a # NoAccount
      BY AdminAssumption
    <2>2. roles' \in [Account -> SUBSET Role] /\ roles'[a] = {"Admin"}
      BY <1>1, <2>1 DEF Initialize, SetRoles, AdminTypeOK, Role
    <2>3. settings' \in SettingsType
      BY <1>1 DEF Initialize, AdminTypeOK, SettingsType
    <2>. QED BY <1>1, <2>1, <2>2, <2>3
             DEF Initialize, AdminKept, AdminTypeOK, AdminHoldsRole, AdminValid
  <1>2. ASSUME NEW c \in Callers, NEW a \in Account, NEW r \in Role,
               GrantRole(c, a, r) \/ RevokeRole(c, a, r)
        PROVE  AdminKept
    <2>1. AdminValid /\ roles[a] \in SUBSET Role
      BY <1>2, CheckedCaller DEF GrantRole, RevokeRole, IsAdmin, AdminTypeOK
    <2>2. a = admin => r # "Admin"
      BY <1>2 DEF GrantRole, RevokeRole, TouchesAdmin
    <2>. QED BY <1>2, <2>1, <2>2, RolesChangeKeeps DEF GrantRole, RevokeRole, AdminValid
  <1>3. ASSUME NEW c \in Callers, NEW a \in Account, ClearRoles(c, a) PROVE AdminKept
    <2> DEFINE left == IF a = admin THEN {"Admin"} ELSE {}
    <2>1. left \in SUBSET Role /\ (a = admin => "Admin" \in left)
      BY DEF Role
    <2>2. SetRoles(a, left) /\ UNCHANGED <<admin, pendingAdmin, deployVars, settings>>
      BY <1>3 DEF ClearRoles
    <2>. HIDE DEF left
    <2>. QED BY <2>1, <2>2, RolesChangeKeeps
  <1>4. ASSUME NEW c \in Callers, NEW a \in Account, SetAdmin(c, a) PROVE AdminKept
    BY <1>4, CheckedCaller, TransferKeeps DEF SetAdmin, IsAdmin
  <1>5. ASSUME NEW c \in Callers, AcceptAdminTransfer(c) PROVE AdminKept
    BY <1>5, AdminAssumption, TransferKeeps DEF AcceptAdminTransfer
  <1>6. ASSUME NEW c \in Callers, NEW a \in Account, ProposeAdminTransfer(c, a) PROVE AdminKept
    BY <1>6 DEF ProposeAdminTransfer, AdminKept, AdminTypeOK, AdminHoldsRole, AdminValid, deployVars
  <1>7. ASSUME NEW c \in Callers, CancelAdminTransfer(c) PROVE AdminKept
    BY <1>7 DEF CancelAdminTransfer, AdminKept, AdminTypeOK, AdminHoldsRole, AdminValid, deployVars
  <1>8. ASSUME NEW c \in Callers, NEW b \in BOOLEAN, SetPaused(c, b) PROVE AdminKept
    <2>1. [settings EXCEPT !.paused = b] \in SettingsType
      BY DEF AdminTypeOK, SettingsType
    <2>. QED BY <1>8, <2>1, SettingsChangeKeeps DEF SetPaused
  <1>9. ASSUME NEW c \in Callers, NEW mask \in SUBSET PauseFlag,
               PauseFeatures(c, mask) \/ UnpauseFeatures(c, mask)
        PROVE  AdminKept
    <2>1. /\ [settings EXCEPT !.flags = @ \cup mask] \in SettingsType
          /\ [settings EXCEPT !.flags = @ \ mask] \in SettingsType
      BY DEF AdminTypeOK, SettingsType
    <2>. QED BY <1>9, <2>1, SettingsChangeKeeps DEF PauseFeatures, UnpauseFeatures
  <1>. QED BY <1>1, <1>2, <1>3, <1>4, <1>5, <1>6, <1>7, <1>8, <1>9 DEF AdminNext

(* A migration installs the admin role that it needs afterwards. *)
LEMMA MigrationKeeps ==
    ASSUME AdminTypeOK, NEW c \in Callers, MigrateBy(c)
    PROVE  AdminKept
  <1>1. c \in Account /\ c # NoAccount
    BY AdminAssumption
  <1>2. CASE version = LegacyVersion
    <2>1. c = admin /\ SetRoles(c, roles[c] \cup {"Admin"}) /\ initialized' = TRUE
      BY <1>2 DEF MigrateBy, MigrationAllowed
    <2>2. roles' \in [Account -> SUBSET Role] /\ "Admin" \in roles'[c]
      BY <1>1, <2>1 DEF SetRoles, AdminTypeOK, Role
    <2>. QED BY <1>1, <2>1, <2>2 DEF MigrateBy, AdminKept, AdminTypeOK, AdminHoldsRole, AdminValid
  <1>3. CASE version # LegacyVersion
    BY <1>3 DEF MigrateBy, AdminKept, AdminTypeOK, AdminHoldsRole, AdminValid
  <1>. QED BY <1>2, <1>3

(* So every step of the gate keeps them. *)
LEMMA GateNextKeepsAdmin ==
    ASSUME AdminTypeOK, [GateNext]_upgradeVars
    PROVE  AdminKept
  <1>1. CASE AdminNext
    BY <1>1, AdminNextKeeps
  <1>2. CASE UpgradeNext
    <2>1. PICK c \in Callers : UNCHANGED adminVars \/ MigrateBy(c)
      BY <1>2 DEF UpgradeNext, SetUpgradeWindow, StartUpgrade, Upgrade, CancelUpgrade, Migrate,
                  CompleteUpgrade
    <2>. QED BY <2>1, AdminUnchanged, MigrationKeeps
  <1>3. CASE Tick \/ UNCHANGED upgradeVars
    BY <1>3, AdminUnchanged DEF Tick, upgradeVars
  <1>. QED BY <1>1, <1>2, <1>3 DEF GateNext

-----------------------------------------------------------------------------
(* The gate. *)

(* What a call does to the code and the pending records. *)
LEMMA GateKinds ==
    ASSUME UpgradeNext
    PROVE  \/ UNCHANGED <<gate, codeVars>>
           \/ \E v \in Versions, h \in Code : ~gate.inProgress /\ gate' = Begun(v, h) /\ UNCHANGED codeVars
           \/ /\ gate.inProgress /\ gate.hash # NoCode /\ WindowActive
              /\ Install(gate.hash) /\ UNCHANGED gate
           \/ gate' = NoUpgrade /\ gate.rollback # NoCode /\ Install(gate.rollback)
           \/ gate' = NoUpgrade /\ gate.rollback = NoCode /\ UNCHANGED codeVars
           \/ /\ gate' = NoUpgrade /\ UNCHANGED codeVars
              /\ gate.hash # NoCode /\ wasmHash = gate.hash /\ version' = CurrentVersion
  <1>1. PICK c \in Callers :
           \/ \E w \in Windows : SetUpgradeWindow(c, w[1], w[2])
           \/ \E v \in Versions, h \in Code : StartUpgrade(c, v, h)
           \/ \E h \in Code : Upgrade(c, h)
           \/ CancelUpgrade(c)
           \/ \E v \in Versions : CompleteUpgrade(c, v)
           \/ Migrate(c)
    BY DEF UpgradeNext
  <1>2. CASE \E w \in Windows : SetUpgradeWindow(c, w[1], w[2])
    BY <1>2 DEF SetUpgradeWindow
  <1>3. CASE \E v \in Versions, h \in Code : StartUpgrade(c, v, h)
    BY <1>3 DEF StartUpgrade
  <1>4. CASE \E h \in Code : Upgrade(c, h)
    BY <1>4 DEF Upgrade
  <1>5. CASE CancelUpgrade(c)
    BY <1>5 DEF CancelUpgrade
  <1>6. CASE \E v \in Versions : CompleteUpgrade(c, v)
    BY <1>6 DEF CompleteUpgrade, MigrateBy
  <1>7. CASE Migrate(c)
    BY <1>7 DEF Migrate, gateVars
  <1>. QED BY <1>1, <1>2, <1>3, <1>4, <1>5, <1>6, <1>7

(* The window and the clock stay typed. *)
LEMMA ClockAndWindowType ==
    ASSUME GateTypeOK, [GateNext]_upgradeVars
    PROVE  now' \in 0..MaxTime /\ window' \in Nat \X Nat
  <1>1. CASE Tick
    BY <1>1, GateAssumption DEF Tick, GateTypeOK, gateVars
  <1>2. ASSUME NEW c \in Callers, NEW w \in Windows, SetUpgradeWindow(c, w[1], w[2])
        PROVE  now' = now /\ window' \in Nat \X Nat
    BY <1>2, GateAssumption DEF SetUpgradeWindow
  <1>3. ASSUME UpgradeNext, UNCHANGED window PROVE now' = now
    BY <1>3 DEF UpgradeNext, SetUpgradeWindow, StartUpgrade, Upgrade, CancelUpgrade, Migrate,
                CompleteUpgrade
  <1>4. ASSUME UpgradeNext, window' # window
        PROVE  \E c \in Callers, w \in Windows : SetUpgradeWindow(c, w[1], w[2])
    BY <1>4 DEF UpgradeNext, StartUpgrade, Upgrade, CancelUpgrade, Migrate, CompleteUpgrade, gateVars
  <1>5. CASE UpgradeNext
    BY <1>2, <1>3, <1>4, <1>5 DEF GateTypeOK
  <1>6. CASE UNCHANGED <<window, now>>
    BY <1>6 DEF GateTypeOK
  <1>. QED BY <1>1, <1>5, <1>6 DEF GateNext, upgradeVars, gateVars

(* The gate is typed whatever the administrators do. *)
LEMMA GateNextType ==
    ASSUME GateTypeOK, [GateNext]_upgradeVars
    PROVE  GateTypeOK'
  <1>1. AdminTypeOK' /\ now' \in 0..MaxTime /\ window' \in Nat \X Nat
    BY GateNextKeepsAdmin, ClockAndWindowType DEF GateTypeOK, AdminKept
  <1> DEFINE GateRecord == [inProgress : BOOLEAN, rollback : Code \cup {DeployedCode, NoCode},
                            hash : Code \cup {NoCode}, version : Versions \cup {NoVersion}]
             Typed == /\ gate' \in GateRecord
                      /\ wasmHash' \in Code \cup {DeployedCode, NoCode}
                      /\ running' \in Code \cup {DeployedCode}
  <1>2. NoUpgrade \in GateRecord /\ \A v \in Versions, h \in Code : Begun(v, h) \in GateRecord
    BY DEF NoUpgrade, Begun, GateTypeOK
  <1>3. ASSUME UpgradeNext PROVE Typed
    <2>1. \A h \in Code \cup {DeployedCode} : Install(h) =>
              wasmHash' \in Code \cup {DeployedCode, NoCode} /\ running' \in Code \cup {DeployedCode}
      BY DEF Install
    <2>2. /\ gate.hash # NoCode => gate.hash \in Code \cup {DeployedCode}
          /\ gate.rollback # NoCode => gate.rollback \in Code \cup {DeployedCode}
      BY DEF GateTypeOK
    <2>3. UNCHANGED codeVars =>
              wasmHash' \in Code \cup {DeployedCode, NoCode} /\ running' \in Code \cup {DeployedCode}
      BY DEF codeVars, GateTypeOK
    <2>4. UNCHANGED gate => gate' \in GateRecord
      BY DEF GateTypeOK
    <2>. HIDE DEF GateRecord
    <2>. QED BY <1>2, <1>3, <2>1, <2>2, <2>3, <2>4, GateKinds
  <1>4. ASSUME UNCHANGED <<gate, codeVars>> PROVE Typed
    BY <1>4 DEF GateTypeOK, codeVars
  <1>5. Typed
    <2>1. UpgradeNext \/ UNCHANGED <<gate, codeVars>>
      BY DEF GateNext, Tick, gateVars, upgradeVars
    <2>. HIDE DEF Typed
    <2>. QED BY <1>3, <1>4, <2>1
  <1>. QED BY <1>1, <1>5 DEF GateTypeOK

(* Its records open and close together. *)
LEMMA GateNextWhole ==
    ASSUME GateTypeOK, GateWhole, [GateNext]_upgradeVars
    PROVE  GateWhole'
  <1>1. \A v \in Versions, h \in Code : v # NoVersion /\ h # NoCode
    BY GateAssumption
  <1>2. CASE UpgradeNext
    <2>1. gate' = NoUpgrade => GateWhole'
      BY DEF NoUpgrade, GateWhole
    <2>2. ASSUME NEW v \in Versions, NEW h \in Code, gate' = Begun(v, h) PROVE GateWhole'
      BY <1>1, <2>2 DEF Begun, GateWhole
    <2>3. UNCHANGED gate => GateWhole'
      BY DEF GateWhole
    <2>. QED BY <1>2, <2>1, <2>2, <2>3, GateKinds
  <1>3. CASE UNCHANGED gate
    BY <1>3 DEF GateWhole
  <1>. QED BY <1>2, <1>3 DEF GateNext, Tick, gateVars, upgradeVars

(* And the recorded hash follows the code. *)
LEMMA GateNextRecords ==
    ASSUME RecordedIsRunning, [GateNext]_upgradeVars
    PROVE  RecordedIsRunning'
  <1>1. CASE UpgradeNext
    BY <1>1, GateKinds DEF Install, RecordedIsRunning, codeVars
  <1>2. CASE UNCHANGED codeVars
    BY <1>2 DEF RecordedIsRunning, codeVars
  <1>. QED BY <1>1, <1>2 DEF GateNext, Tick, gateVars, upgradeVars

-----------------------------------------------------------------------------
(* The inductive invariant. *)
GateInv == GateTypeOK /\ AdminHoldsRole /\ GateWhole /\ RecordedIsRunning

(* The three facts of the inductive argument. *)
LEMMA GateInvInitially == GateInit => GateInv
  <1> SUFFICES ASSUME GateInit PROVE GateInv
    OBVIOUS
  <1>1. AdminTypeOK /\ AdminHoldsRole
    <2>1. DefaultSettings \in SettingsType
      BY DEF DefaultSettings, SettingsType, MaxBps
    <2>2. /\ admin \in Account \cup {NoAccount}
          /\ pendingAdmin \in Account \cup {NoAccount}
      BY AdminAssumption DEF GateInit, AdminInit
    <2>3. version \in {LegacyVersion, CurrentVersion} /\ ~initialized /\ initialized \in BOOLEAN
      BY DEF GateInit, AdminInit
    <2>4. roles \in [Account -> SUBSET Role] /\ settings \in SettingsType
      BY <2>1 DEF GateInit, AdminInit
    <2>. QED BY <2>2, <2>3, <2>4 DEF AdminTypeOK, AdminHoldsRole
  <1>2. GateTypeOK
    BY <1>1, GateAssumption DEF GateInit, GateTypeOK, NoUpgrade
  <1>. QED BY <1>1, <1>2 DEF GateInit, GateInv, GateWhole, RecordedIsRunning, NoUpgrade

LEMMA GateInvKept == GateInv /\ [GateNext]_upgradeVars => GateInv'
  <1> SUFFICES ASSUME GateInv, [GateNext]_upgradeVars PROVE GateInv'
    OBVIOUS
  <1>1. AdminHoldsRole'
    BY GateNextKeepsAdmin DEF GateInv, GateTypeOK, AdminKept
  <1>. QED BY <1>1, GateNextType, GateNextWhole, GateNextRecords DEF GateInv

LEMMA GateInvAlways == GateSpec => []GateInv
  BY GateInvInitially, GateInvKept, PTL DEF GateSpec

-----------------------------------------------------------------------------
(* Every reachable state is well typed: in particular cancel_upgrade never     *)
(* installs the absence of a hash as the code of the contract.                *)
THEOREM GateTypeCorrect == GateSpec => []GateTypeOK
  BY GateInvAlways, PTL DEF GateInv

(* No order of grants, revocations, transfers, migrations and upgrades loses  *)
(* the admin of an initialized contract.                                      *)
THEOREM AdminAlwaysHoldsRole == GateSpec => []AdminHoldsRole
  BY GateInvAlways, PTL DEF GateInv

(* The upgrade records open and close together. *)
THEOREM GateAlwaysWhole == GateSpec => []GateWhole
  BY GateInvAlways, PTL DEF GateInv

(* What complete_upgrade compares is the hash of the running code. *)
THEOREM RecordTellsTheTruth == GateSpec => []RecordedIsRunning
  BY GateInvAlways, PTL DEF GateInv

(* The code changes only through an open gate: forward inside the window, or  *)
(* back to the build it replaced.                                             *)
CodeChangeGated ==
    running' # running =>
        /\ gate.inProgress
        /\ (running' = gate.hash /\ WindowActive) \/ running' = gate.rollback

(* Whichever accounts deploy, open, cancel, complete and roll back, and when.  *)
THEOREM CodeOnlyChangesGated == GateSpec => CodeChangesAreGated
  <1>1. GateInv /\ [GateNext]_upgradeVars => [CodeChangeGated]_upgradeVars
    <2> SUFFICES ASSUME GateInv, GateNext, running' # running PROVE CodeChangeGated
      BY DEF CodeChangeGated
    <2>1. UpgradeNext
      BY DEF GateNext, Tick, gateVars, codeVars
    <2>2. gate.rollback # NoCode => gate.inProgress
      BY DEF GateInv, GateWhole
    <2>. QED BY <2>1, <2>2, GateKinds DEF Install, codeVars, CodeChangeGated
  <1>2. CodeChangesAreGated <=> [][CodeChangeGated]_upgradeVars
    BY DEF CodeChangesAreGated, CodeChangeGated
  <1>. QED BY <1>1, <1>2, GateInvAlways, PTL DEF GateSpec

(* An upgrade is completed only when the announced build runs. *)
CompletionRuns == \A c \in Callers, v \in Versions : CompleteUpgrade(c, v) => running = gate.hash

(* complete_upgrade and the version it records tell of the code that runs.     *)
THEOREM CompletedUpgradesRun == GateSpec => CompletedUpgradeRuns
  <1>1. GateInv => CompletionRuns
    BY DEF GateInv, RecordedIsRunning, CompletionRuns, CompleteUpgrade
  <1>2. CompletedUpgradeRuns <=> [][CompletionRuns]_upgradeVars
    BY DEF CompletedUpgradeRuns, CompletionRuns
  <1>. QED BY <1>1, <1>2, GateInvAlways, PTL DEF GateSpec
=============================================================================
