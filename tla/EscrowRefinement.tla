-------------------------- MODULE EscrowRefinement --------------------------
(***************************************************************************)
(* The escrow contract implements EscrowVault. A pot is a live escrow: its   *)
(* settled, not yet cleaned-up records, the index records, the votes and the *)
(* dispute expiry have no counterpart there.                                 *)
(***************************************************************************)
EXTENDS Escrow

Live == {c \in DOMAIN escrows : escrows[c].status \in Open}

PotOf(e) ==
    [token |-> e.token, depositor |-> e.owner, due |-> e.amountDue, held |-> e.amountPaid,
     deadline |-> e.expiresAt, judged |-> HasSingleArbiter(e) \/ HasCouncil(e),
     locked |-> e.status = "Disputed"]

Vault == INSTANCE EscrowVault WITH
    MaxNow <- U64Max - 1,
    clock  <- now,
    wallet <- [t \in Token |-> [a \in Address |-> balance[t][a]]],
    pots   <- [c \in Live |-> PotOf(escrows[c])]

(* Every entry point, whatever records it keeps, is one of the vault's moves  *)
(* or none: a settlement empties one pot completely into one wallet, in the   *)
(* window and by the party that its kind of settlement allows; only a         *)
(* resolution that names the contract itself pays no wallet (Forfeit).        *)
ImplementsVault == Vault!Spec
=============================================================================
