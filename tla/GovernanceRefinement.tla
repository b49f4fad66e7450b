------------------------ MODULE GovernanceRefinement ------------------------
(***************************************************************************)
(* Governance implements Council: the approval records are the approvers,    *)
(* Pending and Executable are one outcome, and the counter, the deadlines,   *)
(* the nonces and everything the other calls write are forgotten.            *)
(***************************************************************************)
EXTENDS Governance

CONSTANT NoChange

CouncilOf(list, t) == [members |-> Range(list), quorum |-> t]

NextCouncil(act) ==
    IF act.tag = "UpdateSignerSet" THEN CouncilOf(act.signers, act.threshold) ELSE NoChange

ASSUME NoChangeAssumption ==
    \A act \in Actions : act.tag = "UpdateSignerSet" => NextCouncil(act) # NoChange

Outcome == [Pending |-> "open", Executable |-> "open",
            Executed |-> "enacted", Cancelled |-> "dropped"]

BallotOf(id) == [approvers |-> Approvers(id), outcome |-> Outcome[proposals[id].status],
                 next |-> NextCouncil(proposals[id].action)]

Decisions == INSTANCE Council WITH
    Ballot   <- ProposalIds,
    Charters <- {CouncilOf(c[1], c[2]) : c \in Charters},
    Proposed <- {NextCouncil(act) : act \in Actions},
    members  <- Range(signers),
    quorum   <- threshold,
    ballots  <- [id \in DOMAIN proposals |-> BallotOf(id)]

(* The cached counter and status, the reads of the current signer set and      *)
(* threshold, and the updates of both by what is being executed never let a    *)
(* ballot be enacted twice, after it was dropped, or with fewer approvers than *)
(* the quorum of that moment, nor change the council in any other way.         *)
ImplementsCouncil == Decisions!Spec
=============================================================================
