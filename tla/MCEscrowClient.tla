--------------------------- MODULE MCEscrowClient ---------------------------
(* EscrowClient with two accounts, one of which may sit on a council. *)
EXTENDS EscrowClient, TLC

CONSTANTS alice, bob, xlm, salt

MCAddress  == {alice, bob}
MCToken    == {xlm}
MCSalt     == {salt}
MCTimeouts == {0, 1}
MCCouncils == {<<alice, bob>>}
MCRecipients == MCAddress \cup {Contract}
MCWallets  == [t \in MCToken |-> [a \in MCAddress |-> 1]]
=============================================================================
