------------------------------- MODULE Stealth -------------------------------
(***************************************************************************)
(* The stealth contract: deposits under one-time addresses                   *)
(* (stealth/src/stealth.rs). A sender locks tokens under an address derived  *)
(* from two keys; whoever shows the same keys before the deadline takes them *)
(* and the entry is gone. Every call is one transaction, hence one action; a *)
(* call that answers an error is no step. A hash of two keys of fixed width  *)
(* is taken to be the pair itself.                                           *)
(***************************************************************************)
EXTENDS Integers, FiniteSets, FiniteSetsExt, KeyValue

CONSTANTS Wallets,        \* the accounts that send and receive
          Coins,          \* token contracts
          StealthAccount, \* the contract's own account
          EphKeys,        \* public keys of the senders, one per deposit
          SpendKeys,      \* public keys of the recipients
          Purse,          \* what every wallet holds of every token at first
          MaxClock,       \* bound on the ledger clock
          MaxU64          \* the largest time stamp

ASSUME StealthAssumption ==
    /\ StealthAccount \notin Wallets
    /\ Purse \in Nat /\ MaxClock \in Nat /\ MaxU64 \in Nat
    /\ MaxClock <= MaxU64

VARIABLES entries, \* DataKey::StealthEscrow: stealth address -> entry
          purse,   \* balances kept by the token contracts: token -> account -> amount
          clock    \* ledger timestamp

stealthVars == <<entries, purse, clock>>

StealthAddress == SpendKeys \X (EphKeys \X SpendKeys)

StealthEntry == [token : Coins, due : 1..Purse, paid : 1..Purse, expires : 0..MaxU64 - 1]

StealthTypeOK ==
    /\ DOMAIN entries \subseteq StealthAddress
    /\ \A s \in DOMAIN entries : entries[s] \in StealthEntry
    /\ purse \in [Coins -> [Wallets \cup {StealthAccount} -> Nat]]
    /\ clock \in 0..MaxClock

StealthInit ==
    /\ entries = << >>
    /\ purse = [c \in Coins |-> [w \in Wallets \cup {StealthAccount} |->
                                    IF w = StealthAccount THEN 0 ELSE Purse]]
    /\ clock = 0

-----------------------------------------------------------------------------
DeriveSharedSecret(a, b) == <<a, b>>

DeriveStealthAddress(spend, secret) == <<spend, secret>>

(* The address both calls derive again from the keys they are shown. *)
Derived(eph, spend) == DeriveStealthAddress(spend, DeriveSharedSecret(eph, spend))

(* A timeout of 0 never expires; one that would saturate is refused. *)
TimeoutAccepted(timeout) == timeout = 0 \/ clock + timeout < MaxU64

ComputeExpiresAt(timeout) == IF timeout = 0 THEN 0 ELSE clock + timeout

StealthExpired(entry) == entry.expires > 0 /\ clock >= entry.expires

Pay(coin, from, to, amount) ==
    /\ purse[coin][from] >= amount
    /\ purse' = [purse EXCEPT ![coin] = [w \in DOMAIN purse[coin] |->
                    CASE w = from -> purse[coin][w] - amount
                      [] w = to -> purse[coin][w] + amount
                      [] OTHER -> purse[coin][w]]]

RegisterEphemeralKey(sender, coin, due, paid, eph, spend, address, timeout) ==
    /\ due > 0 /\ paid > 0 /\ paid <= due
    /\ address = Derived(eph, spend)
    /\ address \notin DOMAIN entries
    /\ TimeoutAccepted(timeout)
    /\ Pay(coin, sender, StealthAccount, paid)
    /\ entries' = Put(entries, address, [token |-> coin, due |-> due, paid |-> paid,
                                         expires |-> ComputeExpiresAt(timeout)])
    /\ UNCHANGED clock

(* A stored entry is always Pending: a withdrawal removes it. *)
Redeemable(entry) == ~StealthExpired(entry)

(* Mutant: the entry of a withdrawal stays on record. *)
KeepStealthEscrow(address) == entries

RemoveStealthEscrow(address) == Without(entries, {address})

StealthWithdraw(recipient, eph, spend, address) ==
    /\ address \in DOMAIN entries
    /\ Redeemable(entries[address])
    /\ address = Derived(eph, spend)
    /\ Pay(entries[address].token, StealthAccount, recipient, entries[address].paid)
    /\ entries' = RemoveStealthEscrow(address)
    /\ UNCHANGED clock

StealthTick ==
    /\ clock < MaxClock
    /\ clock' = clock + 1
    /\ UNCHANGED <<entries, purse>>

StealthNext ==
    \/ \E sender \in Wallets, coin \in Coins, due, paid \in 1..Purse,
          eph \in EphKeys, spend \in SpendKeys, timeout \in 0..MaxU64 :
          \E address \in StealthAddress :
             RegisterEphemeralKey(sender, coin, due, paid, eph, spend, address, timeout)
    \/ \E recipient \in Wallets, eph \in EphKeys, spend \in SpendKeys :
          \E address \in DOMAIN entries : StealthWithdraw(recipient, eph, spend, address)
    \/ StealthTick

StealthSpec == StealthInit /\ [][StealthNext]_stealthVars

-----------------------------------------------------------------------------
(* "total deposited value equals escrow plus stealth state" (shared/src/      *)
(* storage.rs:783), which the contract itself does not check: its total is a  *)
(* stub. Whatever was deposited, withdrawn and deposited again under the same *)
(* address, the contract holds of every token what the entries on record say. *)
StealthSolvent ==
    \A c \in Coins :
        purse[c][StealthAccount]
            = MapThenSumSet(LAMBDA s : entries[s].paid,
                            {s \in DOMAIN entries : entries[s].token = c})
=============================================================================
