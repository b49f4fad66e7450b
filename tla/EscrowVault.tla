---------------------------- MODULE EscrowVault ----------------------------
(***************************************************************************)
(* What the escrow contract promises to the people whose money it holds,     *)
(* without its storage records, indices, councils or fee router: every live  *)
(* escrow is a pot of its own, and a pot is only ever emptied as a whole.    *)
(*                                                                          *)
(*   Open, TopUp   money moves from a wallet into one pot                    *)
(*   Claim         the account named in the commitment takes a full pot      *)
(*                 before its deadline                                       *)
(*   Reclaim       the depositor takes the pot back from its deadline on     *)
(*   Lock, Award   a pot that somebody may judge is locked, and then given   *)
(*                 to the depositor or to one recipient                      *)
(*   Forfeit       a locked pot is given to the vault itself: it is nobody's *)
(*                 any more, and no wallet is paid                           *)
(*                                                                          *)
(* EscrowRefinement states that the contract implements this specification.  *)
(***************************************************************************)
EXTENDS Integers, KeyValue

CONSTANTS Address, Token, Commitments, MaxAmount, MaxNow, Wallets

VARIABLES clock,   \* the ledger timestamp
          wallet,  \* token -> address -> amount
          pots     \* commitment -> pot, for the live escrows only

vars == <<clock, wallet, pots>>

Amount == 1..MaxAmount

(* The pots a depositor may open. *)
NewPots == [token : Token, depositor : Address, due : Amount, held : Amount,
            deadline : 0..MaxNow, judged : BOOLEAN, locked : {FALSE}]

Init ==
    /\ clock = 0
    /\ wallet = Wallets
    /\ pots = << >>

Live(c)   == c \in DOMAIN pots
Closed(c) == pots[c].deadline # 0 /\ clock >= pots[c].deadline

Debit(token, a, amount) ==
    /\ wallet[token][a] >= amount
    /\ wallet' = [wallet EXCEPT ![token][a] = @ - amount]

Open(c, pot) ==
    /\ ~Live(c)
    /\ pot.deadline = 0 \/ pot.deadline >= clock
    /\ Debit(pot.token, pot.depositor, pot.held)
    /\ pots' = Put(pots, c, pot)
    /\ UNCHANGED clock

TopUp(c, payer, amount) ==
    /\ Live(c) /\ ~pots[c].locked
    /\ pots[c].held + amount <= pots[c].due
    /\ Debit(pots[c].token, payer, amount)
    /\ pots' = [pots EXCEPT ![c].held = @ + amount]
    /\ UNCHANGED clock

(* The whole pot goes to one account. *)
Empty(c, to) ==
    /\ wallet' = [wallet EXCEPT ![pots[c].token][to] = @ + pots[c].held]
    /\ pots' = Without(pots, {c})
    /\ UNCHANGED clock

Claim(c) ==
    /\ Live(c) /\ ~pots[c].locked /\ ~Closed(c)
    /\ pots[c].held >= pots[c].due
    /\ Empty(c, c.owner)

Reclaim(c) ==
    /\ Live(c) /\ ~pots[c].locked /\ Closed(c)
    /\ Empty(c, pots[c].depositor)

Lock(c) ==
    /\ Live(c) /\ pots[c].judged /\ ~pots[c].locked
    /\ pots' = [pots EXCEPT ![c].locked = TRUE]
    /\ UNCHANGED <<clock, wallet>>

Award(c, recipient) ==
    /\ Live(c) /\ pots[c].locked
    /\ Empty(c, recipient)

Forfeit(c) ==
    /\ Live(c) /\ pots[c].locked
    /\ pots' = Without(pots, {c})
    /\ UNCHANGED <<clock, wallet>>

Tick ==
    /\ clock < MaxNow
    /\ clock' = clock + 1
    /\ UNCHANGED <<wallet, pots>>

Next ==
    \/ Tick
    \/ \E c \in Commitments :
        \/ \E pot \in NewPots : Open(c, pot)
        \/ \E payer \in Address, amount \in Amount : TopUp(c, payer, amount)
        \/ Claim(c) \/ Reclaim(c) \/ Lock(c) \/ Forfeit(c)
        \/ \E r \in Address : Award(c, r)

Spec == Init /\ [][Next]_vars
=============================================================================
