----------------------------- MODULE AdminRoles -----------------------------
(***************************************************************************)
(* The administrators of the governance contract: the admin singleton, the   *)
(* roles of each account and the two-step transfer                           *)
(* (governance/src/admin.rs, exported by governance/src/lib.rs).             *)
(* A call is one atomic transaction; a call that returns an error is no step.*)
(***************************************************************************)
EXTENDS Integers, FiniteSets

CONSTANTS Account,      \* addresses
          NoAccount,    \* a record that is not in storage
          Deployers,    \* the accounts that a deployment names as its first admin
          Callers,      \* the accounts that call the admin entry points
          PauseFlag     \* bits of the pause mask

ASSUME AdminAssumption ==
    /\ NoAccount \notin Account
    /\ Deployers \subseteq Account /\ Callers \subseteq Account

Role == {"Admin", "Operator", "Arbiter"}

LegacyVersion  == 0    \* LEGACY_CONTRACT_VERSION, also when the record is absent
CurrentVersion == 1    \* CURRENT_CONTRACT_VERSION

VARIABLES admin,          \* DataKey::Admin
          pendingAdmin,   \* DataKey::PendingAdminTransfer
          roles,          \* DataKey::UserRole
          initialized,    \* DataKey::Initialized
          version,        \* DataKey::ContractVersion
          settings        \* what the contract is configured to do

transferVars == <<admin, pendingAdmin, roles>>
deployVars   == <<initialized, version>>
adminVars    == <<transferVars, deployVars, settings>>

(* Only the values that the exported calls read or validate are kept apart;   *)
(* fees and wallet are those of the fee configuration of this contract.       *)
DefaultSettings == [paused |-> FALSE, flags |-> {}, feeBps |-> 0, assetBps |-> 0,
                    wallet |-> NoAccount]
MaxBps == 10000

SettingsType == [paused : BOOLEAN, flags : SUBSET PauseFlag, feeBps : 0..MaxBps,
                 assetBps : 0..MaxBps, wallet : Account \cup {NoAccount}]

AdminTypeOK ==
    /\ admin \in Account \cup {NoAccount}
    /\ pendingAdmin \in Account \cup {NoAccount}
    /\ roles \in [Account -> SUBSET Role]
    /\ initialized \in BOOLEAN
    /\ version \in {LegacyVersion, CurrentVersion}
    /\ settings \in SettingsType

(* A contract just deployed, or one that a legacy deployment left with an     *)
(* admin and neither roles nor a version ("Legacy deployments may not have    *)
(* role assignments", migrate).                                               *)
AdminInit ==
    /\ admin \in Deployers \cup {NoAccount}
    /\ pendingAdmin = NoAccount
    /\ roles = [a \in Account |-> {}]
    /\ initialized = FALSE
    /\ version = LegacyVersion
    /\ settings = DefaultSettings

-----------------------------------------------------------------------------
(* current_admin() succeeds. *)
AdminValid == admin # NoAccount /\ "Admin" \in roles[admin]

(* require_any_role, require_admin. *)
HasAnyRole(caller, allowed) ==
    /\ initialized
    /\ AdminValid
    /\ roles[caller] \cap allowed # {}

IsAdmin(caller) == caller \in Callers /\ HasAnyRole(caller, {"Admin"})

SetRoles(target, granted) == roles' = [roles EXCEPT ![target] = granted]

(* Neither grant_role nor revoke_role touches the admin's own Admin role. *)
TouchesAdmin(target, role) == target = admin /\ role = "Admin"

-----------------------------------------------------------------------------
(* No authentication is asked for: the first caller decides. *)
Initialize(a) ==
    /\ ~initialized
    /\ admin = NoAccount
    /\ admin' = a
    /\ settings' = [settings EXCEPT !.paused = FALSE]
    /\ version' = CurrentVersion
    /\ SetRoles(a, {"Admin"})
    /\ initialized' = TRUE
    /\ UNCHANGED pendingAdmin

GrantRole(caller, target, role) ==
    /\ IsAdmin(caller)
    /\ ~TouchesAdmin(target, role)
    /\ SetRoles(target, roles[target] \cup {role})
    /\ UNCHANGED <<admin, pendingAdmin, deployVars, settings>>

(* Mutant: the admin's own Admin role can be revoked. *)
RevokeAnyRole(caller, target, role) ==
    /\ IsAdmin(caller)
    /\ SetRoles(target, roles[target] \ {role})
    /\ UNCHANGED <<admin, pendingAdmin, deployVars, settings>>

RevokeRole(caller, target, role) ==
    /\ IsAdmin(caller)
    /\ ~TouchesAdmin(target, role)
    /\ SetRoles(target, roles[target] \ {role})
    /\ UNCHANGED <<admin, pendingAdmin, deployVars, settings>>

ClearRoles(caller, target) ==
    /\ IsAdmin(caller)
    /\ SetRoles(target, IF target = admin THEN {"Admin"} ELSE {})
    /\ UNCHANGED <<admin, pendingAdmin, deployVars, settings>>

(* apply_admin_transfer, and the early return when the admin stays. *)
TransferTo(new) ==
    /\ pendingAdmin' = NoAccount
    /\ admin' = new
    /\ roles' = IF new = admin THEN roles
                ELSE [a \in Account |-> IF a = admin THEN roles[a] \ {"Admin"}
                                        ELSE IF a = new THEN roles[a] \cup {"Admin"}
                                        ELSE roles[a]]
    /\ UNCHANGED <<deployVars, settings>>

SetAdmin(caller, new) ==
    /\ IsAdmin(caller)
    /\ TransferTo(new)

ProposeAdminTransfer(caller, new) ==
    /\ IsAdmin(caller)
    /\ pendingAdmin' = IF new = admin THEN NoAccount ELSE new
    /\ UNCHANGED <<admin, roles, deployVars, settings>>

AcceptAdminTransfer(caller) ==
    /\ caller \in Callers
    /\ caller = pendingAdmin
    /\ AdminValid
    /\ TransferTo(caller)

CancelAdminTransfer(caller) ==
    /\ IsAdmin(caller)
    /\ pendingAdmin # NoAccount
    /\ pendingAdmin' = NoAccount
    /\ UNCHANGED <<admin, roles, deployVars, settings>>

ChangeSettings(caller, new) ==
    /\ caller \in Callers
    /\ HasAnyRole(caller, {"Admin", "Operator"})
    /\ settings' = new
    /\ UNCHANGED <<transferVars, deployVars>>

SetPaused(caller, b) == ChangeSettings(caller, [settings EXCEPT !.paused = b])

PauseFeatures(caller, mask) ==
    ChangeSettings(caller, [settings EXCEPT !.flags = @ \cup mask])

UnpauseFeatures(caller, mask) ==
    ChangeSettings(caller, [settings EXCEPT !.flags = @ \ mask])

AdminNext ==
    \/ \E a \in Deployers : Initialize(a)
    \/ \E c \in Callers :
          \/ \E a \in Account, r \in Role : GrantRole(c, a, r) \/ RevokeRole(c, a, r)
          \/ \E a \in Account :
                ClearRoles(c, a) \/ SetAdmin(c, a) \/ ProposeAdminTransfer(c, a)
          \/ AcceptAdminTransfer(c)
          \/ CancelAdminTransfer(c)
          \/ \E b \in BOOLEAN : SetPaused(c, b)
          \/ \E m \in SUBSET PauseFlag : PauseFeatures(c, m) \/ UnpauseFeatures(c, m)

-----------------------------------------------------------------------------
(* Direct calls never lose the admin: once the contract is initialized, the   *)
(* account in the admin record holds the Admin role, without which every call *)
(* that checks a role fails (current_admin, admin.rs). Grants, revocations     *)
(* and transfers called in any order keep it. The exception is the ballots of  *)
(* Governance, which write the same records and are no part of this module:    *)
(* SetAdmin moves no role and RevokeRole may name the admin.                   *)
AdminHoldsRole == initialized => AdminValid
=============================================================================
