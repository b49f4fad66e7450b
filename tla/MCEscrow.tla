------------------------------ MODULE MCEscrow ------------------------------
(* Escrow with two accounts, each of which may pay, own and arbitrate. *)
EXTENDS EscrowRefinement, TLC

CONSTANTS alice, bob, xlm, salt

MCAddress  == {alice, bob}
MCToken    == {xlm}
MCSalt     == {salt}
MCTimeouts == {0, 1}
MCCouncils == {<<bob>>, <<alice, bob>>, <<bob, bob>>}
MCRecipients == MCAddress \cup {Contract}
MCWallets  == [t \in MCToken |-> [a \in MCAddress |-> IF a = alice THEN 2 ELSE 1]]
=============================================================================
