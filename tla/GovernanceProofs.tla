-------------------------- MODULE GovernanceProofs --------------------------
(***************************************************************************)
(* Proofs about Governance and its refinement of Council, for every set of   *)
(* accounts, actions, nonces and deadlines, and every clock.                 *)
(***************************************************************************)
EXTENDS GovernanceRefinement, UpgradeProofs, FiniteSetTheorems, SequenceTheorems

-----------------------------------------------------------------------------
(* Types. *)

(* The parameters of an action, by its tag. *)
LEMMA ActionFields ==
    ASSUME NEW act \in ProposalAction
    PROVE  /\ act.tag \in Tags
           /\ act.tag = "SetPaused" => act.paused \in BOOLEAN
           /\ act.tag = "SetPauseFlags" => act.enable \in SUBSET PauseFlag
           /\ act.tag = "SetFeeConfig" => act.bps \in Nat
           /\ act.tag = "SetPerAssetFee" => act.bps \in Nat
           /\ act.tag = "SetPlatformWallet" => act.wallet \in Account
           /\ act.tag = "SetAdmin" => act.target \in Account
           /\ act.tag \in {"GrantRole", "RevokeRole"} => act.target \in Account
           /\ act.tag = "UpgradeContract" => act.hash \in Code
           /\ act.tag = "UpdateSignerSet" => act.signers \in SignerList /\ act.threshold \in Nat
  BY DEF ProposalAction, Tags

(* What an executed action writes is typed. *)
LEMMA ApplyType ==
    ASSUME GateTypeOK, signers \in SignerList, threshold \in Nat,
           NEW act \in ProposalAction, ApplyAction(act),
           UNCHANGED <<pendingAdmin, deployVars, now, window, gate, wasmHash>>
    PROVE  GateTypeOK' /\ signers' \in SignerList /\ threshold' \in Nat
  <1> DEFINE Kept == /\ admin' \in Account \cup {NoAccount}
                     /\ roles' \in [Account -> SUBSET Role]
                     /\ settings' \in SettingsType
                     /\ running' \in Code \cup {DeployedCode}
                     /\ signers' \in SignerList /\ threshold' \in Nat
  <1>0. /\ admin \in Account \cup {NoAccount} /\ roles \in [Account -> SUBSET Role]
        /\ settings \in SettingsType /\ running \in Code \cup {DeployedCode}
    BY DEF GateTypeOK, AdminTypeOK
  <1>1. ASSUME NEW new \in SettingsType, Configure(new) PROVE Kept
    BY <1>0, <1>1 DEF Configure, councilVars
  <1>2. ASSUME NEW target \in Account, NEW granted \in SUBSET Role, AssignRoles(target, granted)
        PROVE  Kept
    BY <1>0, <1>2 DEF AssignRoles, SetRoles, councilVars
  <1>3. ASSUME act.tag \in {"SetPaused", "SetPauseFlags", "SetFeeConfig",
                            "SetPerAssetFee", "SetPlatformWallet"}
        PROVE  Kept
    <2>1. act.tag = "SetPaused" => [settings EXCEPT !.paused = act.paused] \in SettingsType
      BY <1>0, ActionFields DEF SettingsType
    <2>2. act.tag = "SetPauseFlags" =>
              [settings EXCEPT !.flags = (@ \cup act.enable) \ act.disable] \in SettingsType
      BY <1>0, ActionFields DEF SettingsType
    <2>3. act.tag \in {"SetFeeConfig", "SetPerAssetFee"} /\ FeeAccepted(act.bps) =>
              act.bps \in 0..MaxBps
      <3>1. \A bps \in Nat : FeeAccepted(bps) => bps \in 0..MaxBps
        BY DEF FeeAccepted, MaxBps
      <3>. QED BY <3>1, ActionFields
    <2>4. \A bps \in 0..MaxBps : /\ [settings EXCEPT !.feeBps = bps] \in SettingsType
                                 /\ [settings EXCEPT !.assetBps = bps] \in SettingsType
      BY <1>0 DEF SettingsType
    <2>5. act.tag = "SetPlatformWallet" => [settings EXCEPT !.wallet = act.wallet] \in SettingsType
      BY <1>0, ActionFields DEF SettingsType
    <2>6. \E new \in SettingsType : Configure(new)
      BY <1>3, <2>1, <2>2, <2>3, <2>4, <2>5 DEF ApplyAction
    <2>. QED BY <1>1, <2>6
  <1>4. ASSUME act.tag \in {"GrantRole", "RevokeRole"} PROVE Kept
    <2>1. act.target \in Account /\ roles[act.target] \in SUBSET Role
      BY <1>0, <1>4, ActionFields
    <2>2. act.role \in DOMAIN RoleOf /\ RoleOf[act.role] \in Role
      BY <1>4 DEF ApplyAction, RoleOf, Role
    <2>3. \/ AssignRoles(act.target, roles[act.target] \cup {RoleOf[act.role]})
          \/ AssignRoles(act.target, roles[act.target] \ {RoleOf[act.role]})
      BY <1>4 DEF ApplyAction
    <2>. QED BY <1>2, <2>1, <2>2, <2>3
  <1>5. ASSUME act.tag = "SetAdmin" PROVE Kept
    <2>1. InstallAdmin(act.target) /\ act.target \in Account
      BY <1>5, ActionFields DEF ApplyAction
    <2>. QED BY <1>0, <2>1 DEF InstallAdmin, councilVars
  <1>6. ASSUME act.tag = "UpdateSignerSet" PROVE Kept
    <2>1. ReplaceCouncil(act.signers, act.threshold)
      BY <1>6 DEF ApplyAction
    <2>2. act.signers \in SignerList /\ act.threshold \in Nat
      BY <1>6, ActionFields
    <2>. QED BY <1>0, <2>1, <2>2 DEF ReplaceCouncil, SetCouncil
  <1>7. ASSUME act.tag = "UpgradeContract" PROVE Kept
    <2>1. ReplaceCode(act.hash) /\ act.hash \in Code
      BY <1>7, ActionFields DEF ApplyAction
    <2>. QED BY <1>0, <2>1 DEF ReplaceCode, councilVars
  <1>8. Kept
    <2>1. act.tag \in Tags
      BY ActionFields
    <2>. HIDE DEF Kept
    <2>. QED BY <1>3, <1>4, <1>5, <1>6, <1>7, <2>1 DEF Tags
  <1>. QED BY <1>8 DEF GateTypeOK, AdminTypeOK, deployVars

-----------------------------------------------------------------------------
(* What a step does to the ballots. *)

LEMMA SaveFacts ==
    ASSUME NEW id, NEW p, SaveProposal(id, p)
    PROVE  /\ DOMAIN proposals' = DOMAIN proposals \cup {id}
           /\ proposals'[id] = p
           /\ \A k \in DOMAIN proposals \ {id} : proposals'[k] = proposals[k]
  BY DEF SaveProposal, Put

Decides(id, outcome) ==
    /\ HasStatus(id, Undecided)
    /\ SaveProposal(id, [proposals[id] EXCEPT !.status = outcome])
    /\ UNCHANGED <<approvals, nonces>>

LEMMA BallotKinds ==
    ASSUME [GovNext]_govVars
    PROVE  \/ UNCHANGED ballotVars
           \/ \E a \in Account, act \in Actions, n \in Nonces, t \in Deadlines :
                 CreateProposal(a, act, n, t)
           \/ \E a \in Account, id \in DOMAIN proposals : ApproveProposal(a, id)
           \/ \E id \in DOMAIN proposals, outcome \in Decided : Decides(id, outcome)
  <1>1. ASSUME NEW a \in Account, NEW id \in DOMAIN proposals, CancelProposal(a, id)
        PROVE  Decides(id, "Cancelled")
    BY <1>1 DEF CancelProposal, Decides, HasStatus, Undecided
  <1>2. ASSUME NEW id \in DOMAIN proposals, ExecuteProposal(id)
        PROVE  Decides(id, "Executed")
    BY <1>2 DEF ExecuteProposal, Decides
  <1>3. "Cancelled" \in Decided /\ "Executed" \in Decided
    BY DEF Decided
  <1>4. CASE BallotNext
    BY <1>1, <1>2, <1>3, <1>4 DEF BallotNext
  <1>5. CASE UNCHANGED ballotVars
    BY <1>5
  <1>. QED BY <1>4, <1>5 DEF GovNext, InitializeGovernance, govVars

(* The ballots of GovTypeOK. *)
BallotsTyped ==
    /\ DOMAIN proposals \subseteq ProposalIds
    /\ \A id \in DOMAIN proposals : proposals[id] \in Proposal
    /\ approvals \subseteq (DOMAIN proposals) \X Account
    /\ nonces \subseteq Account \X Nonces

LEMMA IdType ==
    ASSUME NEW act \in Actions, NEW n \in Nonces, NEW t \in Deadlines
    PROVE  ProposalId(act, n, t) \in ProposalIds /\ ProposalId(act, n, t).nonce = n
  BY GovernanceAssumption, ActionFields DEF ProposalId, ProposalIds

LEMMA SaveTyped ==
    ASSUME BallotsTyped, NEW id \in ProposalIds, NEW p \in Proposal, SaveProposal(id, p),
           approvals' \subseteq approvals \cup ({id} \X Account), nonces' \subseteq Account \X Nonces
    PROVE  BallotsTyped'
  <1>1. DOMAIN proposals' = DOMAIN proposals \cup {id}
    BY SaveFacts
  <1>2. \A k \in DOMAIN proposals' : proposals'[k] \in Proposal
    BY <1>1, SaveFacts DEF BallotsTyped
  <1>3. approvals' \subseteq (DOMAIN proposals') \X Account
    BY <1>1 DEF BallotsTyped
  <1>. QED BY <1>1, <1>2, <1>3 DEF BallotsTyped

(* The record that an approval and a decision save. *)
LEMMA SavedByApproval ==
    ASSUME BallotsTyped, NEW a \in Account, NEW id \in DOMAIN proposals, ApproveProposal(a, id)
    PROVE  \E p \in Proposal :
              /\ SaveProposal(id, p)
              /\ p.status \in Undecided /\ p.action = proposals[id].action
              /\ p.proposer = proposals[id].proposer
              /\ p.approvalCount = proposals[id].approvalCount + 1
              /\ approvals' = approvals \cup {<<id, a>>} /\ <<id, a>> \notin approvals
              /\ UNCHANGED nonces
  <1> DEFINE count == proposals[id].approvalCount + 1
             status == IF count >= threshold THEN "Executable" ELSE "Pending"
             p == [proposals[id] EXCEPT !.approvalCount = count, !.status = status]
  <1>1. count \in Nat /\ status \in Undecided /\ proposals[id] \in Proposal
    BY DEF BallotsTyped, Proposal, Undecided
  <1>2. /\ SaveProposal(id, p)
        /\ approvals' = approvals \cup {<<id, a>>} /\ <<id, a>> \notin approvals
        /\ UNCHANGED nonces
    BY DEF ApproveProposal, HasApproved
  <1>. HIDE DEF status, count
  <1>3. /\ p \in Proposal /\ p.status \in Undecided /\ p.action = proposals[id].action
        /\ p.proposer = proposals[id].proposer /\ p.approvalCount = count
    BY <1>1 DEF Proposal
  <1>. HIDE DEF p
  <1>. QED BY <1>2, <1>3 DEF count

LEMMA SavedByDecision ==
    ASSUME BallotsTyped, NEW id \in DOMAIN proposals, NEW outcome \in Decided, Decides(id, outcome)
    PROVE  \E p \in Proposal :
              /\ SaveProposal(id, p)
              /\ p.status = outcome /\ p.action = proposals[id].action
              /\ p.proposer = proposals[id].proposer
              /\ p.approvalCount = proposals[id].approvalCount
              /\ UNCHANGED <<approvals, nonces>>
  <1> DEFINE p == [proposals[id] EXCEPT !.status = outcome]
  <1>1. /\ p \in Proposal /\ p.status = outcome /\ p.action = proposals[id].action
        /\ p.proposer = proposals[id].proposer
        /\ p.approvalCount = proposals[id].approvalCount
    BY DEF BallotsTyped, Proposal
  <1>. QED BY <1>1 DEF Decides

LEMMA BallotType ==
    ASSUME BallotsTyped, [GovNext]_govVars
    PROVE  BallotsTyped'
  <1>1. ASSUME NEW a \in Account, NEW act \in Actions, NEW n \in Nonces, NEW t \in Deadlines,
               CreateProposal(a, act, n, t)
        PROVE  BallotsTyped'
    <2> DEFINE id == ProposalId(act, n, t)
               p == [action |-> act, proposer |-> a, status |-> "Pending",
                     expiresAt |-> t, approvalCount |-> 1]
    <2>1. id \in ProposalIds
      BY IdType
    <2>2. p \in Proposal
      BY DEF Proposal, Undecided
    <2>3. /\ SaveProposal(id, p)
          /\ approvals' = approvals \cup {<<id, a>>}
          /\ nonces' = nonces \cup {<<a, n>>}
      BY <1>1 DEF CreateProposal
    <2>. HIDE DEF id, p
    <2>. QED BY <2>1, <2>2, <2>3, SaveTyped DEF BallotsTyped
  <1>2. ASSUME NEW a \in Account, NEW id \in DOMAIN proposals, ApproveProposal(a, id)
        PROVE  BallotsTyped'
    <2>1. PICK p \in Proposal : /\ SaveProposal(id, p)
                                /\ approvals' = approvals \cup {<<id, a>>} /\ UNCHANGED nonces
      BY <1>2, SavedByApproval
    <2>. QED BY <2>1, SaveTyped DEF BallotsTyped
  <1>3. ASSUME NEW id \in DOMAIN proposals, NEW outcome \in Decided, Decides(id, outcome)
        PROVE  BallotsTyped'
    <2>1. PICK p \in Proposal : SaveProposal(id, p) /\ UNCHANGED <<approvals, nonces>>
      BY <1>3, SavedByDecision
    <2>. QED BY <2>1, SaveTyped DEF BallotsTyped
  <1>4. CASE UNCHANGED ballotVars
    BY <1>4 DEF ballotVars, BallotsTyped
  <1>. QED BY <1>1, <1>2, <1>3, <1>4, BallotKinds

(* Everything else of GovTypeOK. *)
LEMMA GovNextType ==
    ASSUME GovTypeOK, [GovNext]_govVars
    PROVE  GovTypeOK'
  <1>1. BallotsTyped'
    BY BallotType DEF GovTypeOK, BallotsTyped
  <1>2. CASE UNCHANGED councilVars /\ [GateNext]_upgradeVars
    BY <1>1, <1>2, GateNextType DEF GovTypeOK, BallotsTyped, councilVars
  <1>3. ASSUME NEW c \in Charters, InitializeGovernance(c[1], c[2]) PROVE GovTypeOK'
    <2>1. c[1] \in SignerList /\ c[2] \in Nat
      BY GovernanceAssumption
    <2>2. GateTypeOK'
      BY <1>3, GateNextType DEF GovTypeOK, InitializeGovernance
    <2>. QED BY <1>1, <1>3, <2>1, <2>2 DEF InitializeGovernance, SetCouncil, GovTypeOK, BallotsTyped
  <1>4. ASSUME NEW id \in DOMAIN proposals, ExecuteProposal(id) PROVE GovTypeOK'
    <2>1. proposals[id].action \in ProposalAction
      BY GovernanceAssumption DEF GovTypeOK, Proposal
    <2>2. GateTypeOK' /\ signers' \in SignerList /\ threshold' \in Nat
      BY <1>4, <2>1, ApplyType DEF ExecuteProposal, GovTypeOK
    <2>. QED BY <1>1, <2>2 DEF GovTypeOK, BallotsTyped
  <1>. QED BY <1>2, <1>3, <1>4 DEF GovNext, BallotNext, CreateProposal, ApproveProposal,
                                   CancelProposal, govVars

-----------------------------------------------------------------------------
(* Safety. *)

(* The counter of a proposal, with what makes it countable. *)
Counted ==
    \A id \in DOMAIN proposals :
        /\ IsFiniteSet(Approvers(id))
        /\ proposals[id].approvalCount = Cardinality(Approvers(id))

LEMMA ApproverAdded ==
    ASSUME NEW id, NEW a \in Account, approvals' = approvals \cup {<<id, a>>}
    PROVE  /\ Approvers(id)' = Approvers(id) \cup {a}
           /\ \A other : other # id => Approvers(other)' = Approvers(other)
  BY DEF Approvers

LEMMA SaveCounted ==
    ASSUME Counted, NEW id, NEW p, SaveProposal(id, p),
           IsFiniteSet(Approvers(id)'), p.approvalCount = Cardinality(Approvers(id)'),
           \A other \in DOMAIN proposals : other # id => Approvers(other)' = Approvers(other)
    PROVE  Counted'
  <1> SUFFICES ASSUME NEW k \in DOMAIN proposals'
               PROVE  /\ IsFiniteSet(Approvers(k)')
                      /\ proposals'[k].approvalCount = Cardinality(Approvers(k)')
    BY DEF Counted
  <1>0. /\ DOMAIN proposals' = DOMAIN proposals \cup {id}
        /\ proposals'[id] = p
        /\ \A other \in DOMAIN proposals \ {id} : proposals'[other] = proposals[other]
    BY SaveFacts
  <1>1. CASE k = id
    BY <1>0, <1>1
  <1>2. CASE k # id
    <2>1. k \in DOMAIN proposals /\ proposals'[k] = proposals[k]
      BY <1>0, <1>2
    <2>2. Approvers(k)' = Approvers(k)
      BY <1>2, <2>1
    <2>3. IsFiniteSet(Approvers(k)) /\ proposals[k].approvalCount = Cardinality(Approvers(k))
      BY <2>1 DEF Counted
    <2>. QED BY <2>1, <2>2, <2>3
  <1>. QED BY <1>1, <1>2

LEMMA CountedKept ==
    ASSUME BallotsTyped, Counted, [GovNext]_govVars
    PROVE  Counted'
  <1>1. ASSUME NEW a \in Account, NEW act \in Actions, NEW n \in Nonces, NEW t \in Deadlines,
               CreateProposal(a, act, n, t)
        PROVE  Counted'
    <2> DEFINE id == ProposalId(act, n, t)
               p == [action |-> act, proposer |-> a, status |-> "Pending",
                     expiresAt |-> t, approvalCount |-> 1]
    <2>1. /\ SaveProposal(id, p) /\ id \notin DOMAIN proposals
          /\ approvals' = approvals \cup {<<id, a>>}
      BY <1>1 DEF CreateProposal
    <2>2. p.approvalCount = 1
      OBVIOUS
    <2>. HIDE DEF id, p
    <2>3. Approvers(id) = {}
      BY <2>1 DEF Approvers, BallotsTyped
    <2>4. Approvers(id)' = {a}
      BY <2>1, <2>3, ApproverAdded
    <2>5. IsFiniteSet({a}) /\ Cardinality({a}) = 1
      BY FS_Singleton
    <2>. QED BY <2>1, <2>2, <2>4, <2>5, SaveCounted, ApproverAdded
  <1>2. ASSUME NEW a \in Account, NEW id \in DOMAIN proposals, ApproveProposal(a, id)
        PROVE  Counted'
    <2>1. PICK p \in Proposal :
             /\ SaveProposal(id, p) /\ p.approvalCount = proposals[id].approvalCount + 1
             /\ approvals' = approvals \cup {<<id, a>>} /\ <<id, a>> \notin approvals
      BY <1>2, SavedByApproval
    <2>2. IsFiniteSet(Approvers(id)) /\ a \notin Approvers(id)
      BY <2>1 DEF Counted, Approvers
    <2>3. /\ IsFiniteSet(Approvers(id) \cup {a})
          /\ Cardinality(Approvers(id) \cup {a}) = Cardinality(Approvers(id)) + 1
      BY <2>2, FS_AddElement
    <2>4. p.approvalCount = Cardinality(Approvers(id)')
      BY <2>1, <2>3, ApproverAdded DEF Counted
    <2>. QED BY <2>1, <2>3, <2>4, SaveCounted, ApproverAdded
  <1>3. ASSUME NEW id \in DOMAIN proposals, NEW outcome \in Decided, Decides(id, outcome)
        PROVE  Counted'
    <2>1. PICK p \in Proposal :
             /\ SaveProposal(id, p) /\ p.approvalCount = proposals[id].approvalCount
             /\ UNCHANGED approvals
      BY <1>3, SavedByDecision
    <2>2. \A k : Approvers(k)' = Approvers(k)
      BY <2>1 DEF Approvers
    <2>. QED BY <2>1, <2>2, SaveCounted DEF Counted
  <1>4. CASE UNCHANGED ballotVars
    BY <1>4 DEF ballotVars, Counted, Approvers
  <1>. QED BY <1>1, <1>2, <1>3, <1>4, BallotKinds

(* Every proposal has used up its proposer's nonce. *)
NonceSpent == \A id \in DOMAIN proposals : <<proposals[id].proposer, id.nonce>> \in nonces

LEMMA NoncesKept ==
    ASSUME BallotsTyped, NonceSpent, NonceOpensOne, [GovNext]_govVars
    PROVE  NonceSpent' /\ NonceOpensOne'
  <1>1. ASSUME NEW a \in Account, NEW act \in Actions, NEW n \in Nonces, NEW t \in Deadlines,
               CreateProposal(a, act, n, t)
        PROVE  NonceSpent' /\ NonceOpensOne'
    <2> DEFINE id == ProposalId(act, n, t)
               p == [action |-> act, proposer |-> a, status |-> "Pending",
                     expiresAt |-> t, approvalCount |-> 1]
    <2>1. /\ SaveProposal(id, p) /\ id \notin DOMAIN proposals
          /\ nonces' = nonces \cup {<<a, n>>} /\ <<a, n>> \notin nonces
      BY <1>1 DEF CreateProposal, NonceFresh
    <2>2. p.proposer = a /\ id.nonce = n
      BY IdType
    <2>. HIDE DEF id, p
    <2>3. \A k \in DOMAIN proposals : proposals'[k] = proposals[k] /\ k # id
      BY <2>1, SaveFacts
    <2>4. DOMAIN proposals' = DOMAIN proposals \cup {id} /\ proposals'[id].proposer = a
      BY <2>1, <2>2, SaveFacts
    <2>5. NonceSpent'
      BY <2>1, <2>2, <2>3, <2>4 DEF NonceSpent
    <2>6. \A k \in DOMAIN proposals : <<proposals[k].proposer, k.nonce>> # <<a, n>>
      BY <2>1 DEF NonceSpent
    <2>7. NonceOpensOne'
      BY <2>2, <2>3, <2>4, <2>6 DEF NonceOpensOne
    <2>. QED BY <2>5, <2>7
  <1>2. ASSUME NEW id \in DOMAIN proposals, NEW p \in Proposal, SaveProposal(id, p),
               p.proposer = proposals[id].proposer, UNCHANGED nonces
        PROVE  NonceSpent' /\ NonceOpensOne'
    <2>1. /\ DOMAIN proposals' = DOMAIN proposals
          /\ \A k \in DOMAIN proposals : proposals'[k].proposer = proposals[k].proposer
      BY <1>2, SaveFacts
    <2>. QED BY <1>2, <2>1 DEF NonceSpent, NonceOpensOne
  <1>3. ASSUME NEW a \in Account, NEW id \in DOMAIN proposals, ApproveProposal(a, id)
        PROVE  NonceSpent' /\ NonceOpensOne'
    BY <1>2, <1>3, SavedByApproval
  <1>4. ASSUME NEW id \in DOMAIN proposals, NEW outcome \in Decided, Decides(id, outcome)
        PROVE  NonceSpent' /\ NonceOpensOne'
    BY <1>2, <1>4, SavedByDecision
  <1>5. CASE UNCHANGED ballotVars
    BY <1>5 DEF ballotVars, NonceSpent, NonceOpensOne
  <1>. QED BY <1>1, <1>3, <1>4, <1>5, BallotKinds

(* An accepted list has as many accounts as entries, and enough for its threshold. *)
LEMMA ValidCouncil ==
    ASSUME NEW list \in SignerList, NEW t \in Nat, ValidSignerSet(list, t)
    PROVE  /\ Cardinality(Range(list)) \in Nat
           /\ Cardinality(Range(list)) <= MaxSigners
           /\ t \in 1..Cardinality(Range(list))
  <1>1. Len(list) \in Nat /\ DOMAIN list = 1..Len(list)
    BY DEF SignerList
  <1>2. list \in [1..Len(list) -> Range(list)]
    BY <1>1 DEF SignerList, Range
  <1>3. IsInjective(list)
    BY <1>1 DEF ValidSignerSet, IsInjective
  <1>4. \A a \in Range(list) : \E i \in 1..Len(list) : list[i] = a
    BY <1>1 DEF Range
  <1>5. ExistsBijection(1..Len(list), Range(list))
    BY <1>2, <1>3, <1>4 DEF ExistsBijection, Bijection, Injection, Surjection
  <1>6. Cardinality(Range(list)) = Len(list)
    BY <1>1, <1>5, FS_CountingElements
  <1>. QED BY <1>1, <1>6, GovernanceAssumption DEF ValidSignerSet

(* The council only changes to a list and a threshold that were validated. *)
LEMMA CouncilKinds ==
    ASSUME GovTypeOK, [GovNext]_govVars
    PROVE  \/ UNCHANGED councilVars
           \/ \E list \in SignerList, t \in Nat : ValidSignerSet(list, t) /\ SetCouncil(list, t)
  <1>1. ASSUME NEW c \in Charters, InitializeGovernance(c[1], c[2])
        PROVE  \E list \in SignerList, t \in Nat : ValidSignerSet(list, t) /\ SetCouncil(list, t)
    <2>1. c[1] \in SignerList /\ c[2] \in Nat
      BY GovernanceAssumption
    <2>. QED BY <1>1, <2>1 DEF InitializeGovernance
  <1>2. ASSUME NEW id \in DOMAIN proposals, ExecuteProposal(id)
        PROVE  \/ UNCHANGED councilVars
               \/ \E list \in SignerList, t \in Nat : ValidSignerSet(list, t) /\ SetCouncil(list, t)
    <2>1. PICK act \in ProposalAction : ApplyAction(act)
      BY <1>2, GovernanceAssumption DEF ExecuteProposal, GovTypeOK, Proposal
    <2>2. CASE act.tag = "UpdateSignerSet" /\ ReplaceCouncil(act.signers, act.threshold)
      BY <2>2, ActionFields DEF ReplaceCouncil
    <2>3. CASE ~(act.tag = "UpdateSignerSet" /\ ReplaceCouncil(act.signers, act.threshold))
      BY <2>1, <2>3 DEF ApplyAction, Configure, AssignRoles, InstallAdmin, ReplaceCode
    <2>. QED BY <2>2, <2>3
  <1>. QED BY <1>1, <1>2 DEF GovNext, BallotNext, CreateProposal, ApproveProposal,
                            CancelProposal, govVars

LEMMA QuorumKept ==
    ASSUME GovTypeOK, QuorumReachable, [GovNext]_govVars
    PROVE  QuorumReachable'
  <1>1. CASE UNCHANGED councilVars
    BY <1>1 DEF councilVars, QuorumReachable
  <1>2. ASSUME NEW list \in SignerList, NEW t \in Nat, ValidSignerSet(list, t), SetCouncil(list, t)
        PROVE  QuorumReachable'
    BY <1>2, ValidCouncil DEF SetCouncil, QuorumReachable
  <1>. QED BY <1>1, <1>2, CouncilKinds

-----------------------------------------------------------------------------
(* The admin. *)

(* Only a deployment that was never initialized may lack a version. *)
Deployed == initialized => version = CurrentVersion

LEMMA DeployedKept ==
    ASSUME Deployed, [GovNext]_govVars
    PROVE  Deployed'
  <1>1. CASE UNCHANGED deployVars
    BY <1>1 DEF Deployed, deployVars
  <1>2. ASSUME NEW c \in Callers, MigrateBy(c) PROVE Deployed'
    BY <1>2 DEF MigrateBy, Deployed
  <1>3. ASSUME NEW a \in Deployers, Initialize(a) PROVE Deployed'
    BY <1>3 DEF Initialize, Deployed
  <1>4. CASE GateNext
    <2>1. CASE AdminNext
      BY <1>1, <1>3, <2>1 DEF AdminNext, GrantRole, RevokeRole, ClearRoles, SetAdmin, TransferTo,
              ProposeAdminTransfer, AcceptAdminTransfer, CancelAdminTransfer, SetPaused,
              PauseFeatures, UnpauseFeatures, ChangeSettings
    <2>2. CASE UpgradeNext
      BY <1>1, <1>2, <2>2 DEF UpgradeNext, SetUpgradeWindow, StartUpgrade, Upgrade, CancelUpgrade,
              Migrate, CompleteUpgrade, adminVars
    <2>3. CASE Tick
      BY <1>1, <2>3 DEF Tick, adminVars
    <2>. QED BY <1>4, <2>1, <2>2, <2>3 DEF GateNext
  <1>. QED BY <1>1, <1>4 DEF GovNext, InitializeGovernance, BallotNext, CreateProposal, ApproveProposal,
                        CancelProposal, ExecuteProposal, govVars, upgradeVars, adminVars

(* No direct call helps a contract whose admin has lost the role. *)
LEMMA LostIsLost ==
    ASSUME Deployed, initialized, ~AdminValid, [GateNext]_upgradeVars
    PROVE  ~AdminValid'
  <1>1. \A caller, allowed : ~HasAnyRole(caller, allowed)
    BY DEF HasAnyRole
  <1>2. CASE UNCHANGED adminVars
    BY <1>2 DEF adminVars, transferVars, AdminValid
  <1>3. ~AdminNext
    BY <1>1 DEF AdminNext, Initialize, GrantRole, RevokeRole, ClearRoles, SetAdmin,
            ProposeAdminTransfer, AcceptAdminTransfer, CancelAdminTransfer, SetPaused,
            PauseFeatures, UnpauseFeatures, ChangeSettings, IsAdmin
  <1>4. \A c : ~MigrateBy(c)
    <2>1. version # LegacyVersion
      BY DEF Deployed, LegacyVersion, CurrentVersion
    <2>. QED BY <1>1, <2>1 DEF MigrateBy, MigrationAllowed, IsAdmin
  <1>5. ~UpgradeNext
    BY <1>1, <1>4 DEF UpgradeNext, SetUpgradeWindow, StartUpgrade, Upgrade, CancelUpgrade, Migrate,
            CompleteUpgrade, IsAdmin
  <1>. QED BY <1>2, <1>3, <1>5 DEF GateNext, Tick, upgradeVars

(* An initialized contract stays initialized. *)
LEMMA InitializedStays ==
    ASSUME initialized, [GateNext]_upgradeVars
    PROVE  initialized'
  <1>1. CASE UNCHANGED deployVars
    BY <1>1 DEF deployVars
  <1>2. CASE AdminNext
    BY <1>2 DEF AdminNext, Initialize, GrantRole, RevokeRole, ClearRoles, SetAdmin, TransferTo,
            ProposeAdminTransfer, AcceptAdminTransfer, CancelAdminTransfer, SetPaused,
            PauseFeatures, UnpauseFeatures, ChangeSettings, deployVars
  <1>3. CASE UpgradeNext
    BY <1>1, <1>3 DEF UpgradeNext, SetUpgradeWindow, StartUpgrade, Upgrade, CancelUpgrade, Migrate,
            CompleteUpgrade, MigrateBy, adminVars
  <1>. QED BY <1>1, <1>2, <1>3 DEF GateNext, Tick, upgradeVars, adminVars

(* Neither a direct call nor an unrelated ballot moves the admin. *)
LEMMA AdminMoves ==
    ASSUME GovTypeOK, Counted, Deployed, [GovNext]_govVars, initialized, AdminValid # AdminValid'
    PROVE  \E id \in DOMAIN proposals :
              /\ Executed(id) /\ MovesAdmin(proposals[id].action)
              /\ Cardinality(Approvers(id)) >= threshold
  <1>1. UNCHANGED transferVars => (AdminValid <=> AdminValid')
    BY DEF transferVars, AdminValid
  <1>2. ~[GateNext]_upgradeVars
    <2>1. SUFFICES ASSUME [GateNext]_upgradeVars PROVE FALSE
      OBVIOUS
    <2>2. AdminValid => AdminValid'
      <3>1. AdminKept
        BY <2>1, GateNextKeepsAdmin DEF GovTypeOK, GateTypeOK
      <3>2. initialized'
        BY <2>1, InitializedStays
      <3>. QED BY <3>1, <3>2 DEF AdminKept, AdminHoldsRole
    <2>. QED BY <2>1, <2>2, LostIsLost DEF AdminValid
  <1>3. PICK id \in DOMAIN proposals : ExecuteProposal(id)
    <2>1. UNCHANGED upgradeVars \/ \E id \in DOMAIN proposals : ExecuteProposal(id)
      BY <1>2 DEF GovNext, InitializeGovernance, BallotNext, CreateProposal, ApproveProposal,
             CancelProposal, govVars
    <2>. QED BY <1>2, <2>1
  <1>4. Executed(id)
    <2>1. proposals[id] \in Proposal
      BY DEF GovTypeOK
    <2>. QED BY <1>3, <2>1, SaveFacts DEF ExecuteProposal, Executed, Proposal
  <1>5. MovesAdmin(proposals[id].action)
    <2>1. PICK act \in ProposalAction : act = proposals[id].action /\ ApplyAction(act)
      BY <1>3, GovernanceAssumption DEF ExecuteProposal, GovTypeOK, Proposal
    <2>2. CASE UNCHANGED <<admin, roles>>
      <3>1. UNCHANGED transferVars
        BY <1>3, <2>2 DEF ExecuteProposal, transferVars
      <3>. QED BY <1>1, <3>1 DEF AdminValid
    <2>3. CASE act.tag \in {"GrantRole", "RevokeRole"} /\ act.target # admin
      <3>1. PICK granted : AssignRoles(act.target, granted)
        BY <2>1, <2>3 DEF ApplyAction
      <3>2. roles'[admin] = roles[admin] \/ admin = NoAccount
        BY <2>3, <3>1 DEF AssignRoles, SetRoles, GovTypeOK, GateTypeOK, AdminTypeOK
      <3>3. admin' = admin
        BY <3>1 DEF AssignRoles
      <3>. QED BY <3>2, <3>3 DEF AdminValid
    <2>. QED BY <2>1, <2>2, <2>3 DEF ApplyAction, Configure, ReplaceCode, ReplaceCouncil, MovesAdmin
  <1>6. Cardinality(Approvers(id)) >= threshold
    BY <1>3 DEF ExecuteProposal, Counted
  <1>. QED BY <1>4, <1>5, <1>6

-----------------------------------------------------------------------------
(* The inductive invariant. *)
GovInv == GovTypeOK /\ Deployed /\ Counted /\ NonceSpent /\ NonceOpensOne /\ QuorumReachable

LEMMA GovInvInitially == GovInit => GovInv
  <1> SUFFICES ASSUME GovInit PROVE GovInv
    OBVIOUS
  <1>1. GateTypeOK
    BY GateInvInitially DEF GovInit, GateInv
  <1>2. DOMAIN proposals = {}
    BY DEF GovInit
  <1>3. signers \in SignerList
    BY DEF GovInit, SignerList
  <1>4. Deployed
    BY DEF GovInit, GateInit, AdminInit, Deployed
  <1>. QED BY <1>1, <1>2, <1>3, <1>4 DEF GovInit, GovInv, GovTypeOK, Counted, NonceSpent,
                                  NonceOpensOne, QuorumReachable

LEMMA GovInvKept == GovInv /\ [GovNext]_govVars => GovInv'
  <1> SUFFICES ASSUME GovInv, [GovNext]_govVars PROVE GovInv'
    OBVIOUS
  <1>1. BallotsTyped
    BY DEF GovInv, GovTypeOK, BallotsTyped
  <1>. QED BY <1>1, GovNextType, DeployedKept, CountedKept, NoncesKept, QuorumKept DEF GovInv

LEMMA GovInvAlways == GovSpec => []GovInv
  BY GovInvInitially, GovInvKept, PTL DEF GovSpec

(* Every reachable state is well typed: the fees a ballot configures stay      *)
(* within the denominator, roles are roles and approvals are of proposals.     *)
THEOREM GovTypeCorrect == GovSpec => []GovTypeOK
  BY GovInvAlways, PTL DEF GovInv

(* The admin is lost and regained by ballots with enough approvals only,       *)
(* whatever direct calls are made in between.                                  *)
THEOREM AdminMovesWithBallots == GovSpec => AdminMovesByBallot
  <1>1. GovInv /\ [GovNext]_govVars =>
          [(initialized /\ AdminValid # AdminValid') =>
              \E id \in DOMAIN proposals :
                  /\ Executed(id) /\ MovesAdmin(proposals[id].action)
                  /\ Cardinality(Approvers(id)) >= threshold]_govVars
    BY AdminMoves DEF GovInv
  <1>. QED BY <1>1, GovInvAlways, PTL DEF GovSpec, AdminMovesByBallot

(* The counter that execution trusts is the number of accounts that approved.  *)
THEOREM ApprovalsStayExact == GovSpec => []ApprovalsExact
  <1>1. GovInv => ApprovalsExact
    BY DEF GovInv, Counted, ApprovalsExact
  <1>. QED BY <1>1, GovInvAlways, PTL

(* A signer's nonce opens at most one proposal, for ever.                      *)
THEOREM NonceNeverReused == GovSpec => []NonceOpensOne
  BY GovInvAlways, PTL DEF GovInv

(* No sequence of signer-set updates leaves a council that cannot decide.      *)
THEOREM CouncilCanDecide == GovSpec => []QuorumReachable
  BY GovInvAlways, PTL DEF GovInv

-----------------------------------------------------------------------------
(* The refinement of Council. *)

(* A saved proposal is a recorded ballot, when no other one gains approvals. *)
LEMMA BallotRecorded ==
    ASSUME NEW id, NEW p, NEW voters, SaveProposal(id, p), voters = Approvers(id)',
           \A other \in DOMAIN proposals : other # id => Approvers(other)' = Approvers(other)
    PROVE  Decisions!Record(id, [approvers |-> voters, outcome |-> Outcome[p.status],
                                 next |-> NextCouncil(p.action)])
  <1> DEFINE ballot == [approvers |-> voters, outcome |-> Outcome[p.status],
                        next |-> NextCouncil(p.action)]
  <1>1. /\ DOMAIN proposals' = DOMAIN proposals \cup {id}
        /\ proposals'[id] = p
        /\ \A k \in DOMAIN proposals \ {id} : proposals'[k] = proposals[k]
    BY SaveFacts
  <1>2. BallotOf(id)' = ballot
    BY <1>1 DEF BallotOf
  <1>3. ASSUME NEW k \in DOMAIN proposals, k # id PROVE BallotOf(k)' = BallotOf(k)
    BY <1>1, <1>3 DEF BallotOf
  <1>. HIDE DEF ballot
  <1>4. [k \in DOMAIN proposals |-> BallotOf(k)]' =
            [k \in (DOMAIN [j \in DOMAIN proposals |-> BallotOf(j)]) \cup {id} |->
                IF k = id THEN ballot ELSE [j \in DOMAIN proposals |-> BallotOf(j)][k]]
    BY <1>1, <1>2, <1>3
  <1>. QED BY <1>4 DEF ballot, Decisions!Record

(* What the mapping makes of one proposal. *)
LEMMA BallotSeen ==
    ASSUME NEW id \in DOMAIN proposals
    PROVE  LET ballots == [k \in DOMAIN proposals |-> BallotOf(k)] IN
           /\ id \in DOMAIN ballots
           /\ ballots[id] = BallotOf(id)
           /\ ballots[id].approvers = Approvers(id)
           /\ ballots[id].outcome = Outcome[proposals[id].status]
           /\ ballots[id].next = NextCouncil(proposals[id].action)
  BY DEF BallotOf

(* The ballot of an undecided proposal is open. *)
LEMMA UndecidedIsOpen ==
    ASSUME NEW id \in DOMAIN proposals, proposals[id].status \in Undecided
    PROVE  Decisions!Open(id)
  <1>1. Outcome[proposals[id].status] = "open"
    BY DEF Outcome, Undecided
  <1>. QED BY <1>1, BallotSeen DEF Decisions!Open

LEMMA CreationCalls ==
    ASSUME BallotsTyped, NEW a \in Account, NEW act \in Actions, NEW n \in Nonces,
           NEW t \in Deadlines, CreateProposal(a, act, n, t)
    PROVE  Decisions!Call(ProposalId(act, n, t))
  <1> DEFINE id == ProposalId(act, n, t)
             p == [action |-> act, proposer |-> a, status |-> "Pending",
                   expiresAt |-> t, approvalCount |-> 1]
  <1>1. /\ SaveProposal(id, p) /\ id \notin DOMAIN proposals /\ a \in Range(signers)
        /\ approvals' = approvals \cup {<<id, a>>} /\ UNCHANGED councilVars
    BY DEF CreateProposal, IsSigner
  <1>2. Outcome[p.status] = "open" /\ p.action = act
    BY DEF Outcome
  <1>. HIDE DEF id, p
  <1>3. Approvers(id) = {}
    BY <1>1 DEF Approvers, BallotsTyped
  <1>4. {a} = Approvers(id)'
    BY <1>1, <1>3, ApproverAdded
  <1>5. Decisions!Record(id, [approvers |-> {a}, outcome |-> Outcome[p.status],
                              next |-> NextCouncil(p.action)])
    BY <1>1, <1>4, ApproverAdded, BallotRecorded
  <1>6. NextCouncil(act) \in {NextCouncil(x) : x \in Actions}
    OBVIOUS
  <1>7. id \notin DOMAIN [k \in DOMAIN proposals |-> BallotOf(k)]
    BY <1>1
  <1>8. id \in DOMAIN ([k \in DOMAIN proposals |-> BallotOf(k)]')
    BY <1>1, SaveFacts
  <1>. QED BY <1>1, <1>2, <1>5, <1>6, <1>7, <1>8 DEF Decisions!Call, councilVars, id

LEMMA ApprovalApproves ==
    ASSUME BallotsTyped, NEW a \in Account, NEW id \in DOMAIN proposals, ApproveProposal(a, id)
    PROVE  Decisions!Approve(id)
  <1>1. PICK p \in Proposal :
           /\ SaveProposal(id, p)
           /\ p.status \in Undecided /\ p.action = proposals[id].action
           /\ approvals' = approvals \cup {<<id, a>>} /\ <<id, a>> \notin approvals
    BY SavedByApproval
  <1>2. /\ a \in Range(signers) /\ proposals[id].status \in Undecided /\ UNCHANGED councilVars
    BY DEF ApproveProposal, IsSigner, HasStatus, Undecided
  <1>3. Outcome[p.status] = "open" /\ Outcome[proposals[id].status] = "open"
    BY <1>1, <1>2 DEF Outcome, Undecided
  <1>4. PICK voters : voters = Approvers(id) \cup {a}
    OBVIOUS
  <1>5. Decisions!Record(id, [approvers |-> voters, outcome |-> Outcome[p.status],
                              next |-> NextCouncil(p.action)])
    BY <1>1, <1>4, ApproverAdded, BallotRecorded
  <1> DEFINE ballot == [k \in DOMAIN proposals |-> BallotOf(k)][id]
  <1>6. ballot = BallotOf(id)
    BY BallotSeen
  <1>7. [ballot EXCEPT !.approvers = ballot.approvers \cup {a}] =
            [approvers |-> voters, outcome |-> Outcome[p.status], next |-> NextCouncil(p.action)]
    <2>1. ballot = [approvers |-> Approvers(id), outcome |-> "open",
                    next |-> NextCouncil(proposals[id].action)]
      BY <1>3, <1>6 DEF BallotOf
    <2>2. ballot.approvers \cup {a} = voters
      BY <1>4, <2>1
    <2>3. [ballot EXCEPT !.approvers = voters] =
              [approvers |-> voters, outcome |-> "open",
               next |-> NextCouncil(proposals[id].action)]
      BY <2>1
    <2>. HIDE DEF ballot
    <2>. QED BY <1>1, <1>3, <2>2, <2>3
  <1>8. a \in Range(signers) \ ballot.approvers
    BY <1>1, <1>2, BallotSeen DEF Approvers
  <1>9. Decisions!Record(id, [ballot EXCEPT !.approvers = ballot.approvers \cup {a}])
    BY <1>5, <1>7
  <1>10. Decisions!Open(id)
    BY <1>2, UndecidedIsOpen
  <1>. QED BY <1>2, <1>8, <1>9, <1>10 DEF Decisions!Approve, councilVars

LEMMA DecisionRecorded ==
    ASSUME BallotsTyped, NEW id \in DOMAIN proposals, NEW outcome \in Decided, Decides(id, outcome)
    PROVE  /\ Decisions!Open(id)
           /\ Decisions!Record(id, [[k \in DOMAIN proposals |-> BallotOf(k)][id]
                                       EXCEPT !.outcome = Outcome[outcome]])
  <1>1. PICK p \in Proposal :
           /\ SaveProposal(id, p) /\ p.status = outcome /\ p.action = proposals[id].action
           /\ UNCHANGED approvals
    BY SavedByDecision
  <1>2. PICK voters : voters = Approvers(id)
    OBVIOUS
  <1>3. \A k : Approvers(k)' = Approvers(k)
    BY <1>1 DEF Approvers
  <1>4. Decisions!Record(id, [approvers |-> voters, outcome |-> Outcome[p.status],
                              next |-> NextCouncil(p.action)])
    BY <1>1, <1>2, <1>3, BallotRecorded
  <1> DEFINE ballot == [k \in DOMAIN proposals |-> BallotOf(k)][id]
  <1>5. ballot = BallotOf(id)
    BY BallotSeen
  <1>6. [ballot EXCEPT !.outcome = Outcome[outcome]] =
            [approvers |-> voters, outcome |-> Outcome[p.status], next |-> NextCouncil(p.action)]
    BY <1>1, <1>2, <1>5 DEF BallotOf
  <1>7. Decisions!Open(id)
    BY UndecidedIsOpen DEF Decides, HasStatus
  <1>. QED BY <1>4, <1>6, <1>7

LEMMA CancellationDrops ==
    ASSUME BallotsTyped, NEW a \in Account, NEW id \in DOMAIN proposals, CancelProposal(a, id)
    PROVE  Decisions!Drop(id)
  <1>1. Decides(id, "Cancelled") /\ "Cancelled" \in Decided
    BY DEF CancelProposal, Decides, HasStatus, Undecided, Decided
  <1>2. Outcome["Cancelled"] = "dropped"
    BY DEF Outcome
  <1>3. Range(signers) # {} /\ UNCHANGED councilVars
    BY DEF CancelProposal, IsSigner
  <1>. QED BY <1>1, <1>2, <1>3, DecisionRecorded DEF Decisions!Drop, councilVars

(* The instance counts as the module that it is an instance of. *)
LEMMA SameCardinality == \A S : Decisions!Cardinality(S) = Cardinality(S)
  BY DEF Decisions!Cardinality, Cardinality

LEMMA ExecutionEnacts ==
    ASSUME GovInv, NEW id \in DOMAIN proposals, ExecuteProposal(id)
    PROVE  Decisions!Enact(id)
  <1>0. BallotsTyped
    BY DEF GovInv, GovTypeOK, BallotsTyped
  <1>1. Decides(id, "Executed") /\ "Executed" \in Decided /\ Outcome["Executed"] = "enacted"
    BY DEF ExecuteProposal, Decides, Decided, Outcome
  <1>2. Cardinality(Approvers(id)) >= threshold
    BY DEF ExecuteProposal, GovInv, Counted
  <1>3. PICK act \in Actions : act = proposals[id].action
    BY <1>0 DEF BallotsTyped, Proposal
  <1>4. act \in ProposalAction /\ ApplyAction(act)
    BY <1>3, GovernanceAssumption DEF ExecuteProposal
  <1> DEFINE ballots == [k \in DOMAIN proposals |-> BallotOf(k)]
  <1>5. ballots[id].next = NextCouncil(act)
    BY <1>3, BallotSeen
  <1>6. ballots[id].approvers = Approvers(id)
    BY BallotSeen
  <1>7. IF ballots[id].next = NoChange
        THEN UNCHANGED <<Range(signers), threshold>>
        ELSE /\ Decisions!Acceptable(ballots[id].next)
             /\ Range(signers)' = ballots[id].next.members
             /\ threshold' = ballots[id].next.quorum
    <2>. HIDE DEF ballots
    <2>1. CASE act.tag = "UpdateSignerSet"
      <3>1. NextCouncil(act) # NoChange /\ NextCouncil(act) = CouncilOf(act.signers, act.threshold)
        BY <2>1, NoChangeAssumption DEF NextCouncil
      <3>2. ValidSignerSet(act.signers, act.threshold) /\ SetCouncil(act.signers, act.threshold)
        BY <1>4, <2>1 DEF ApplyAction, ReplaceCouncil
      <3>3. act.signers \in SignerList /\ act.threshold \in Nat
        BY <1>4, <2>1, ActionFields
      <3>4. act.threshold \in 1..Cardinality(Range(act.signers))
        BY <3>2, <3>3, ValidCouncil
      <3>. QED BY <1>5, <3>1, <3>2, <3>4, SameCardinality DEF CouncilOf, SetCouncil, Decisions!Acceptable
    <2>2. CASE act.tag # "UpdateSignerSet"
      <3>1. NextCouncil(act) = NoChange
        BY <2>2 DEF NextCouncil
      <3>2. UNCHANGED councilVars
        BY <1>4, <2>2 DEF ApplyAction, Configure, AssignRoles, InstallAdmin, ReplaceCode
      <3>. QED BY <1>5, <3>1, <3>2 DEF councilVars
    <2>. QED BY <2>1, <2>2
  <1>8. /\ Decisions!Open(id)
        /\ Decisions!Record(id, [ballots[id] EXCEPT !.outcome = "enacted"])
    BY <1>0, <1>1, DecisionRecorded
  <1>9. Decisions!Cardinality(ballots[id].approvers) >= threshold
    BY <1>2, <1>6, SameCardinality
  <1>. QED BY <1>7, <1>8, <1>9 DEF Decisions!Enact

LEMMA FoundingFounds ==
    ASSUME GovTypeOK, NEW c \in Charters, InitializeGovernance(c[1], c[2])
    PROVE  Decisions!Found(CouncilOf(c[1], c[2]))
  <1>1. c[1] \in SignerList /\ c[2] \in Nat
    BY GovernanceAssumption
  <1>2. /\ signers = << >> /\ ValidSignerSet(c[1], c[2]) /\ SetCouncil(c[1], c[2])
        /\ UNCHANGED ballotVars
    BY DEF InitializeGovernance
  <1>3. Range(signers) = {}
    BY <1>2 DEF Range
  <1>4. c[2] \in 1..Cardinality(Range(c[1]))
    BY <1>1, <1>2, ValidCouncil
  <1>5. UNCHANGED [id \in DOMAIN proposals |-> BallotOf(id)]
    BY <1>2 DEF ballotVars, BallotOf, Approvers
  <1>. QED BY <1>2, <1>3, <1>4, <1>5, SameCardinality
           DEF Decisions!Found, Decisions!Acceptable, CouncilOf, SetCouncil

LEMMA StepsRefine ==
    ASSUME GovInv, [GovNext]_govVars
    PROVE  [Decisions!Next]_(Decisions!councilState)
  <1>0. BallotsTyped /\ GovTypeOK
    BY DEF GovInv, GovTypeOK, BallotsTyped
  <1>1. ASSUME NEW id \in ProposalIds,
               Decisions!Call(id) \/ Decisions!Approve(id) \/ Decisions!Drop(id) \/ Decisions!Enact(id)
        PROVE  Decisions!Next
    BY <1>1 DEF Decisions!Next
  <1>2. DOMAIN proposals \subseteq ProposalIds
    BY <1>0 DEF BallotsTyped
  <1>3. CASE UNCHANGED <<ballotVars, councilVars>>
    <2>1. UNCHANGED [id \in DOMAIN proposals |-> BallotOf(id)]
      BY <1>3 DEF ballotVars, BallotOf, Approvers
    <2>2. UNCHANGED Range(signers) /\ UNCHANGED threshold
      BY <1>3 DEF councilVars
    <2>. QED BY <2>1, <2>2 DEF Decisions!councilState
  <1>4. ASSUME NEW c \in Charters, InitializeGovernance(c[1], c[2]) PROVE Decisions!Next
    <2>1. CouncilOf(c[1], c[2]) \in {CouncilOf(x[1], x[2]) : x \in Charters}
      OBVIOUS
    <2>. QED BY <1>0, <1>4, <2>1, FoundingFounds DEF Decisions!Next
  <1>5. ASSUME NEW a \in Account, NEW act \in Actions, NEW n \in Nonces, NEW t \in Deadlines,
               CreateProposal(a, act, n, t)
        PROVE  Decisions!Next
    BY <1>0, <1>1, <1>5, IdType, CreationCalls
  <1>6. ASSUME NEW a \in Account, NEW id \in DOMAIN proposals, ApproveProposal(a, id)
        PROVE  Decisions!Next
    BY <1>0, <1>1, <1>2, <1>6, ApprovalApproves
  <1>7. ASSUME NEW a \in Account, NEW id \in DOMAIN proposals, CancelProposal(a, id)
        PROVE  Decisions!Next
    BY <1>0, <1>1, <1>2, <1>7, CancellationDrops
  <1>8. ASSUME NEW id \in DOMAIN proposals, ExecuteProposal(id) PROVE Decisions!Next
    BY <1>1, <1>2, <1>8, ExecutionEnacts
  <1>9. BallotNext => Decisions!Next
    BY <1>5, <1>6, <1>7, <1>8 DEF BallotNext
  <1>. QED BY <1>3, <1>4, <1>9 DEF GovNext, govVars

LEMMA RefinesInitially == GovInit => Decisions!Init
  <1> SUFFICES ASSUME GovInit PROVE Decisions!Init
    OBVIOUS
  <1>1. Range(signers) = {} /\ threshold = 1
    BY DEF GovInit, Range
  <1>2. DOMAIN proposals = {}
    BY DEF GovInit
  <1>3. [id \in DOMAIN proposals |-> BallotOf(id)] = << >>
    BY <1>2
  <1>. QED BY <1>1, <1>3 DEF Decisions!Init

(* The contract implements the council: whatever direct calls, signer-set      *)
(* updates and executions come between, a ballot is enacted at most once, by   *)
(* the quorum of that moment, and nothing else changes the council.            *)
THEOREM GovernanceImplementsCouncil == GovSpec => ImplementsCouncil
  BY RefinesInitially, StepsRefine, GovInvAlways, PTL
     DEF GovSpec, ImplementsCouncil, Decisions!Spec
=============================================================================
