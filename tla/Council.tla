------------------------------ MODULE Council ------------------------------
(***************************************************************************)
(* What the governance contract promises: a council decides by ballots. A    *)
(* ballot collects the members that approve it; it is enacted at most once,  *)
(* with at least as many approvers as the quorum of that moment, or dropped  *)
(* by a member. A ballot may propose the next council.                       *)
(***************************************************************************)
EXTENDS FiniteSets, Naturals

CONSTANTS Ballot,
          Charters,   \* the councils that may be founded
          Proposed,   \* the councils that ballots may propose, some of them unacceptable
          NoChange    \* a ballot about something else

VARIABLES members,  \* the council
          quorum,
          ballots   \* ballot -> [approvers, outcome, next]

councilState == <<members, quorum, ballots>>

Init == members = {} /\ quorum = 1 /\ ballots = << >>

Acceptable(next) == next.quorum \in 1..Cardinality(next.members)

Found(next) ==
    /\ members = {}
    /\ Acceptable(next)
    /\ members' = next.members /\ quorum' = next.quorum
    /\ UNCHANGED ballots

Record(b, ballot) ==
    ballots' = [x \in DOMAIN ballots \cup {b} |-> IF x = b THEN ballot ELSE ballots[x]]

(* The second conjunct follows from the last one and is cheap to refute. *)
Call(b) ==
    /\ b \notin DOMAIN ballots
    /\ b \in DOMAIN ballots'
    /\ UNCHANGED <<members, quorum>>
    /\ \E a \in members, next \in Proposed \cup {NoChange} :
          Record(b, [approvers |-> {a}, outcome |-> "open", next |-> next])

Open(b) == b \in DOMAIN ballots /\ ballots[b].outcome = "open"

Approve(b) ==
    /\ Open(b)
    /\ UNCHANGED <<members, quorum>>
    /\ \E a \in members \ ballots[b].approvers :
          Record(b, [ballots[b] EXCEPT !.approvers = @ \cup {a}])

Drop(b) ==
    /\ Open(b) /\ members # {}
    /\ Record(b, [ballots[b] EXCEPT !.outcome = "dropped"])
    /\ UNCHANGED <<members, quorum>>

Enact(b) ==
    /\ Open(b) /\ Cardinality(ballots[b].approvers) >= quorum
    /\ Record(b, [ballots[b] EXCEPT !.outcome = "enacted"])
    /\ IF ballots[b].next = NoChange
       THEN UNCHANGED <<members, quorum>>
       ELSE /\ Acceptable(ballots[b].next)
            /\ members' = ballots[b].next.members /\ quorum' = ballots[b].next.quorum

Next ==
    \/ \E next \in Charters : Found(next)
    \/ \E b \in Ballot : Call(b) \/ Approve(b) \/ Drop(b) \/ Enact(b)

Spec == Init /\ [][Next]_councilState
=============================================================================
