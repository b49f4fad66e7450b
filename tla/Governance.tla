----------------------------- MODULE Governance -----------------------------
(***************************************************************************)
(* The multisig of the governance contract (governance/src/governance.rs)    *)
(* on top of its administrators and its upgrade gate: proposals, approvals,  *)
(* execution and the changes an executed proposal makes to the same storage  *)
(* that the direct calls of AdminRoles and UpgradeGate read and write.       *)
(***************************************************************************)
EXTENDS UpgradeGate, KeyValue, Sequences

CONSTANTS Charters,          \* pairs <<signers, threshold>> given to initialize_governance
          Actions,           \* the actions that signers propose
          Nonces,            \* the nonces a signer uses
          Deadlines,         \* the values of valid_until a signer passes
          MaxExpiry,         \* MAX_PROPOSAL_EXPIRY_SECS
          MaxSigners,        \* MAX_SIGNERS
          PlaceholderDecodes \* the placeholder address of SetPauseFlags decodes

SignerList == Seq(Account)

ProposalAction ==
    [tag : {"SetPaused"}, paused : BOOLEAN]
    \cup [tag : {"SetPauseFlags"}, enable : SUBSET PauseFlag, disable : SUBSET PauseFlag]
    \cup [tag : {"UpgradeContract"}, hash : Code]
    \cup [tag : {"SetFeeConfig"}, bps : Nat]
    \cup [tag : {"SetPerAssetFee"}, bps : Nat, arbiterBps : Nat]
    \cup [tag : {"SetPlatformWallet"}, wallet : Account]
    \cup [tag : {"SetAdmin"}, target : Account]
    \cup [tag : {"GrantRole", "RevokeRole"}, target : Account, role : Nat]
    \cup [tag : {"UpdateSignerSet"}, signers : SignerList, threshold : Nat]

ASSUME GovernanceAssumption ==
    /\ Charters \subseteq SignerList \X Nat
    /\ Actions \subseteq ProposalAction
    /\ Nonces \subseteq Nat /\ Deadlines \subseteq Nat
    /\ MaxExpiry \in Nat /\ MaxSigners \in Nat
    /\ PlaceholderDecodes \in BOOLEAN

VARIABLES signers,    \* DataKey::GovernanceSigners
          threshold,  \* DataKey::GovernanceThreshold
          proposals,  \* DataKey::GovernanceProposal
          approvals,  \* DataKey::GovernanceApproval: the pairs <<proposal_id, signer>>
          nonces      \* NonceKey::Used: the pairs <<signer, nonce>>

ballotVars  == <<proposals, approvals, nonces>>
councilVars == <<signers, threshold>>
govVars     == <<upgradeVars, ballotVars, councilVars>>

Tags == {"SetPaused", "SetPauseFlags", "UpgradeContract", "SetFeeConfig", "SetPerAssetFee",
         "SetPlatformWallet", "SetAdmin", "GrantRole", "RevokeRole", "UpdateSignerSet"}

(* derive_proposal_id hashes the action's tag, the nonce and valid_until: the *)
(* parameters of the action and the proposer are left out. Hashes are         *)
(* injective.                                                                 *)
ProposalIds == [tag : Tags, nonce : Nonces, validUntil : Deadlines]
ProposalId(action, nonce, validUntil) ==
    [tag |-> action.tag, nonce |-> nonce, validUntil |-> validUntil]

Undecided == {"Pending", "Executable"}
Decided   == {"Executed", "Cancelled"}

Proposal == [action : Actions, proposer : Account, status : Undecided \cup Decided,
             expiresAt : Deadlines, approvalCount : Nat]

GovTypeOK ==
    /\ GateTypeOK
    /\ signers \in SignerList
    /\ threshold \in Nat
    /\ DOMAIN proposals \subseteq ProposalIds
    /\ \A id \in DOMAIN proposals : proposals[id] \in Proposal
    /\ approvals \subseteq (DOMAIN proposals) \X Account
    /\ nonces \subseteq Account \X Nonces

GovInit ==
    /\ GateInit
    /\ signers = << >>
    /\ threshold = 1
    /\ proposals = << >>
    /\ approvals = {}
    /\ nonces = {}

-----------------------------------------------------------------------------
IsSigner(a) == a \in Range(signers)

HasStatus(id, allowed) == id \in DOMAIN proposals /\ proposals[id].status \in allowed
Live(id) == now < proposals[id].expiresAt

(* Mutant: nobody is taken to have approved. *)
NeverApproved(id, a) == FALSE

HasApproved(id, a) == <<id, a>> \in approvals

(* Mutant: a threshold that the list cannot reach is accepted. *)
ValidSignerSetAnyThreshold(list, t) ==
    /\ Len(list) \in 1..MaxSigners
    /\ t >= 1
    /\ \A i, j \in 1..Len(list) : i # j => list[i] # list[j]

ValidSignerSet(list, t) ==
    /\ Len(list) \in 1..MaxSigners
    /\ t \in 1..Len(list)
    /\ \A i, j \in 1..Len(list) : i # j => list[i] # list[j]

SetCouncil(list, t) == signers' = list /\ threshold' = t

(* initialize_governance checks nothing but the list: "called once during     *)
(* initialize()" is its caller's duty, and no caller is wired yet.            *)
InitializeGovernance(list, t) ==
    /\ initialized /\ signers = << >>
    /\ ValidSignerSet(list, t)
    /\ SetCouncil(list, t)
    /\ UNCHANGED <<upgradeVars, ballotVars>>

SaveProposal(id, p) == proposals' = Put(proposals, id, p)

(* Mutant: nonces are not looked up. *)
AnyNonceFresh(a, nonce) == TRUE

NonceFresh(a, nonce) == <<a, nonce>> \notin nonces

(* The proposer approves at once; the status is Pending whatever the          *)
(* threshold. A duplicate id is an error, which also gives the nonce back.    *)
CreateProposal(proposer, action, nonce, validUntil) ==
    LET id == ProposalId(action, nonce, validUntil) IN
    /\ IsSigner(proposer)
    /\ now < validUntil
    /\ validUntil - now <= MaxExpiry
    /\ NonceFresh(proposer, nonce)
    /\ id \notin DOMAIN proposals
    /\ nonces' = nonces \cup {<<proposer, nonce>>}
    /\ SaveProposal(id, [action |-> action, proposer |-> proposer, status |-> "Pending",
                         expiresAt |-> validUntil, approvalCount |-> 1])
    /\ approvals' = approvals \cup {<<id, proposer>>}
    /\ UNCHANGED <<upgradeVars, councilVars>>

ApproveProposal(caller, id) ==
    LET count == proposals[id].approvalCount + 1 IN
    /\ IsSigner(caller)
    /\ HasStatus(id, {"Pending"})
    /\ Live(id)
    /\ ~HasApproved(id, caller)
    /\ approvals' = approvals \cup {<<id, caller>>}
    /\ SaveProposal(id, [proposals[id] EXCEPT
           !.approvalCount = count,
           !.status = IF count >= threshold THEN "Executable" ELSE "Pending"])
    /\ UNCHANGED <<upgradeVars, councilVars, nonces>>

(* Expiry is not looked at. *)
CancelProposal(caller, id) ==
    /\ IsSigner(caller)
    /\ HasStatus(id, {"Pending"})
    /\ SaveProposal(id, [proposals[id] EXCEPT !.status = "Cancelled"])
    /\ UNCHANGED <<upgradeVars, councilVars, approvals, nonces>>

-----------------------------------------------------------------------------
(* apply_action, one operator per kind of change. u32_to_role refuses other   *)
(* numbers than those of RoleOf.                                              *)
RoleOf == <<"Admin", "Operator", "Arbiter">>

FeeAccepted(bps) == bps <= MaxBps

Configure(new) ==
    /\ settings' = new
    /\ UNCHANGED <<admin, roles, councilVars, running>>

AssignRoles(target, granted) ==
    /\ SetRoles(target, granted)
    /\ UNCHANGED <<admin, settings, councilVars, running>>

(* Only the admin record is written: no role moves and a pending transfer     *)
(* stays (apply_admin_transfer is not called).                                *)
InstallAdmin(new) ==
    /\ admin' = new
    /\ UNCHANGED <<roles, settings, councilVars, running>>

(* Only the executable changes: neither the gate nor the recorded hash.       *)
ReplaceCode(hash) ==
    /\ running' = hash
    /\ UNCHANGED <<admin, roles, settings, councilVars>>

ReplaceCouncil(list, t) ==
    /\ ValidSignerSet(list, t)
    /\ SetCouncil(list, t)
    /\ UNCHANGED <<admin, roles, settings, running>>

ApplyAction(act) ==
    \/ act.tag = "SetPaused" /\ Configure([settings EXCEPT !.paused = act.paused])
    \/ /\ act.tag = "SetPauseFlags" /\ PlaceholderDecodes
       /\ Configure([settings EXCEPT !.flags = (@ \cup act.enable) \ act.disable])
    \/ /\ act.tag = "SetFeeConfig" /\ FeeAccepted(act.bps)
       /\ Configure([settings EXCEPT !.feeBps = act.bps])
    \/ /\ act.tag = "SetPerAssetFee" /\ FeeAccepted(act.bps) /\ FeeAccepted(act.arbiterBps)
       /\ Configure([settings EXCEPT !.assetBps = act.bps])
    \/ act.tag = "SetPlatformWallet" /\ Configure([settings EXCEPT !.wallet = act.wallet])
    \/ act.tag = "SetAdmin" /\ InstallAdmin(act.target)
    \/ /\ act.tag = "GrantRole" /\ act.role \in DOMAIN RoleOf
       /\ AssignRoles(act.target, roles[act.target] \cup {RoleOf[act.role]})
    \/ /\ act.tag = "RevokeRole" /\ act.role \in DOMAIN RoleOf
       /\ AssignRoles(act.target, roles[act.target] \ {RoleOf[act.role]})
    \/ act.tag = "UpdateSignerSet" /\ ReplaceCouncil(act.signers, act.threshold)
    \/ act.tag = "UpgradeContract" /\ ReplaceCode(act.hash)

(* Mutant: an undecided proposal is taken to have its approvals. *)
ExecuteProposalUncounted(id) ==
    /\ HasStatus(id, Undecided)
    /\ Live(id)
    /\ ApplyAction(proposals[id].action)
    /\ SaveProposal(id, [proposals[id] EXCEPT !.status = "Executed"])
    /\ UNCHANGED <<pendingAdmin, deployVars, now, window, gate, wasmHash, approvals, nonces>>

(* Anybody may call it. *)
ExecuteProposal(id) ==
    /\ HasStatus(id, Undecided)
    /\ Live(id)
    /\ proposals[id].approvalCount >= threshold
    /\ ApplyAction(proposals[id].action)
    /\ SaveProposal(id, [proposals[id] EXCEPT !.status = "Executed"])
    /\ UNCHANGED <<pendingAdmin, deployVars, now, window, gate, wasmHash, approvals, nonces>>

BallotNext ==
    \/ \E a \in Account, act \in Actions, n \in Nonces, t \in Deadlines :
          CreateProposal(a, act, n, t)
    \/ \E a \in Account, id \in DOMAIN proposals :
          ApproveProposal(a, id) \/ CancelProposal(a, id)
    \/ \E id \in DOMAIN proposals : ExecuteProposal(id)

GovNext ==
    \/ GateNext /\ UNCHANGED <<ballotVars, councilVars>>
    \/ \E c \in Charters : InitializeGovernance(c[1], c[2])
    \/ BallotNext

GovSpec == GovInit /\ [][GovNext]_govVars

-----------------------------------------------------------------------------
Approvers(id) == {a \in Account : <<id, a>> \in approvals}

(* Double counting: the counter kept in a proposal, which execution trusts,   *)
(* is the number of different accounts that approved it, however often each   *)
(* calls and whatever happened to the signer set in between.                  *)
ApprovalsExact ==
    \A id \in DOMAIN proposals : proposals[id].approvalCount = Cardinality(Approvers(id))

(* Replay protection (nonce.rs): what a signer signed with one nonce opens at *)
(* most one proposal, under any deadline, after cancellation and expiry too.  *)
NonceOpensOne ==
    \A id1, id2 \in DOMAIN proposals :
        (proposals[id1].proposer = proposals[id2].proposer /\ id1.nonce = id2.nonce) => id1 = id2

(* Whether the admin record names an account with the Admin role, without      *)
(* which no administrative call succeeds (current_admin, admin.rs), may change *)
(* in both directions only when a ballot on the admin or on its role, approved *)
(* by as many accounts as the threshold asks for, is executed: apply_action     *)
(* writes the records past the checks that the direct calls make.              *)
MovesAdmin(act) ==
    \/ act.tag = "SetAdmin"
    \/ act.tag \in {"GrantRole", "RevokeRole"} /\ act.target = admin

Executed(id) == HasStatus(id, Undecided) /\ proposals'[id].status = "Executed"

AdminMovesByBallot ==
    [][(initialized /\ AdminValid # AdminValid') =>
          \E id \in DOMAIN proposals :
              /\ Executed(id) /\ MovesAdmin(proposals[id].action)
              /\ Cardinality(Approvers(id)) >= threshold]_govVars

(* The council never locks itself out: whatever updates it votes, it has      *)
(* signers, none twice, and enough of them to reach the threshold.            *)
QuorumReachable ==
    signers # << >> =>
        /\ threshold >= 1
        /\ threshold <= Cardinality(Range(signers))
        /\ Cardinality(Range(signers)) <= MaxSigners
=============================================================================
