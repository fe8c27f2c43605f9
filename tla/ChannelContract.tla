---------------------------- MODULE ChannelContract ----------------------------
(***************************************************************************)
(* The Soroban contract contracts/channel/src/lib.rs: one-way payment      *)
(* channels.  A payer locks a deposit, signs cumulative vouchers off chain *)
(* and the payee (or anybody for him) collects the highest one.            *)
(*                                                                         *)
(* A Soroban invocation is atomic: it either panics and changes nothing or *)
(* runs to its end.  Every entry point is therefore one action, whose      *)
(* guard is the conjunction of the checks that do not panic.  The token    *)
(* contract, the ledger clock and the payer's signing key are external.    *)
(***************************************************************************)
EXTENDS Integers, FiniteSetsExt

CONSTANTS
    Parties,      \* addresses that can be payer, payee or caller
    Self,         \* the address of this contract
    Assets,       \* token contracts
    Keys,         \* ed25519 voucher keys
    Deployments,  \* pairs (network id, contract id) a voucher can be bound to
    Here,         \* the deployment this contract is
    Amounts,      \* i128 amounts that callers of open and top_up try
    Cumulatives,  \* i128 totals that signers and callers of claim try
    Expiries,     \* expiry_ledger arguments that callers try
    CloseGrace,   \* CLOSE_GRACE_LEDGERS
    MaxU32,       \* u32::MAX
    Supply,       \* what every party owns of every asset at the start
    MaxId,        \* bound: channels opened in one behaviour
    MaxLedger     \* bound: the last ledger sequence of a behaviour

ASSUME ContractAssumption ==
    /\ Self \notin Parties
    /\ Here \in Deployments
    /\ Amounts \subseteq Int
    /\ Cumulatives \subseteq Int
    /\ Expiries \subseteq 0..MaxU32
    /\ CloseGrace \in Nat
    /\ MaxU32 \in Nat
    /\ Supply \in Nat
    /\ MaxId \in Nat
    /\ MaxLedger \in 0..MaxU32

VARIABLES
    ledger,     \* env.ledger().sequence()
    channels,   \* DataKey::Channel(id), for the ids handed out so far
    next_id,    \* DataKey::NextId
    balance,    \* token balances, by asset and holder
    signed,     \* vouchers for which a signature exists somewhere
    event       \* the contract event published last

contractVars == <<ledger, channels, next_id, balance, signed, event>>

Ids == 1..MaxId
Holders == Parties \cup {Self}

Channel == [payer: Parties, payee: Parties, asset: Assets, deposit: Int,
            claimed: Int, voucher_key: Keys, expiry_ledger: Nat, open: BOOLEAN]

EventTypes == {"opened", "topped_up", "claimed", "closed"}

(* One published event.  total is the running figure the event carries: the
   deposit of opened and topped_up, the cumulative of claimed, the claimed
   of closed.  amount is what moved: deposited, paid out or refunded.       *)
Event == [type: EventTypes, id: Ids, ledger: Nat, amount: Int, total: Int]

NoEvent == [type |-> "none"]

(* Mutant: a voucher that is bound to no channel.                           *)
voucher_hash_anyChannel(deployment, id, cumulative) == <<deployment, 0, cumulative>>

(* What is signed: the voucher is bound to network, contract and channel.   *)
voucher_hash(deployment, id, cumulative) == <<deployment, id, cumulative>>

(* A signature; meant records what its signer authorised by it.             *)
Signature(key, deployment, id, cumulative) ==
    [key |-> key, hash |-> voucher_hash(deployment, id, cumulative),
     meant |-> <<deployment, id, cumulative>>]

Vouchers == {Signature(k, d, i, c) : k \in Keys, d \in Deployments,
                                     i \in Ids, c \in Cumulatives}

(* u32::saturating_add                                                      *)
SaturatingAdd(a, b) == IF a + b > MaxU32 THEN MaxU32 ELSE a + b

(* load() panics with ChannelNotFound outside the stored keys.              *)
Found(id) == id \in DOMAIN channels

(* Mutant: the open flag is not looked at.                                  *)
OpenChannel_any(id) == Found(id)

(* What top_up, claim and close all ask first: ChannelNotFound, ChannelClosed. *)
OpenChannel(id) == Found(id) /\ channels[id].open

(* token::Client::transfer: it panics when the sender cannot pay.           *)
CanPay(asset, from, amount) == balance[asset][from] >= amount

Transferred(asset, from, to, amount) ==
    [[balance EXCEPT ![asset][from] = @ - amount] EXCEPT ![asset][to] = @ + amount]

(* Mutant: the running total is published as the amount.                    *)
Publish_total(type, id, amount, total) ==
    event' = [type |-> type, id |-> id, ledger |-> ledger,
              amount |-> total, total |-> total]

(* One event per entry point, published before it returns.                  *)
Publish(type, id, amount, total) ==
    event' = [type |-> type, id |-> id, ledger |-> ledger,
              amount |-> amount, total |-> total]

-----------------------------------------------------------------------------
(* A freshly deployed contract.                                             *)
Deployed ==
    /\ ledger = 1
    /\ channels = [id \in {} |-> 0]
    /\ next_id = 1
    /\ balance = [a \in Assets |-> [h \in Holders |-> IF h = Self THEN 0 ELSE Supply]]
    /\ event = NoEvent

Init == Deployed /\ signed = {}

(* open(payer, payee, asset, deposit, voucher_key, expiry_ledger), with the
   payer's authorisation.  next_id <= MaxId is the bound on channels.       *)
Open(payer, payee, asset, deposit, key, expiry) ==
    /\ next_id <= MaxId
    /\ deposit > 0
    /\ expiry > ledger
    /\ payer # payee
    /\ CanPay(asset, payer, deposit)
    /\ balance' = Transferred(asset, payer, Self, deposit)
    /\ next_id' = next_id + 1
    /\ channels' =
        [i \in DOMAIN channels \cup {next_id} |->
            IF i = next_id
            THEN [payer |-> payer, payee |-> payee, asset |-> asset,
                  deposit |-> deposit, claimed |-> 0, voucher_key |-> key,
                  expiry_ledger |-> expiry, open |-> TRUE]
            ELSE channels[i]]
    /\ Publish("opened", next_id, deposit, deposit)
    /\ UNCHANGED <<ledger, signed>>

(* top_up(id, amount), with the payer's authorisation; no expiry check.     *)
TopUp(id, amount) ==
    LET ch == channels[id] IN
    /\ OpenChannel(id)
    /\ amount > 0
    /\ CanPay(ch.asset, ch.payer, amount)
    /\ balance' = Transferred(ch.asset, ch.payer, Self, amount)
    /\ channels' = [channels EXCEPT ![id].deposit = @ + amount]
    /\ Publish("topped_up", id, amount, ch.deposit + amount)
    /\ UNCHANGED <<ledger, next_id, signed>>

(* Mutant: the deposit does not limit the claim.                            *)
ClaimAccepted_beyond(id, cumulative, sig) ==
    /\ OpenChannel(id)
    /\ cumulative > channels[id].claimed
    /\ sig.key = channels[id].voucher_key
    /\ sig.hash = voucher_hash(Here, id, cumulative)

(* What claim() checks before it pays.  ed25519_verify traps unless the
   signature is one of the channel's voucher key over the voucher's hash.   *)
ClaimAccepted(id, cumulative, sig) ==
    LET ch == channels[id] IN
    /\ OpenChannel(id)
    /\ cumulative > ch.claimed
    /\ cumulative <= ch.deposit
    /\ sig.key = ch.voucher_key
    /\ sig.hash = voucher_hash(Here, id, cumulative)

(* claim(id, cumulative, sig), from anybody; the payee gets the difference. *)
Claim(id, cumulative, sig) ==
    LET ch == channels[id]
        amount == cumulative - ch.claimed IN
    /\ ClaimAccepted(id, cumulative, sig)
    /\ CanPay(ch.asset, Self, amount)
    /\ balance' = Transferred(ch.asset, Self, ch.payee, amount)
    /\ channels' = [channels EXCEPT ![id].claimed = cumulative]
    /\ Publish("claimed", id, amount, cumulative)
    /\ UNCHANGED <<ledger, next_id, signed>>

(* Mutant: the payer can never close.                                       *)
MayClose_payeeOnly(ch, caller) == caller = ch.payee

(* The payee closes whenever he likes, the payer after expiry and grace.    *)
MayClose(ch, caller) ==
    \/ caller = ch.payee
    \/ /\ caller = ch.payer
       /\ ledger > SaturatingAdd(ch.expiry_ledger, CloseGrace)

Refund(ch) == ch.deposit - ch.claimed

(* close(id, caller), with the caller's authorisation.                      *)
Close(id, caller) ==
    LET ch == channels[id]
        refund == Refund(ch) IN
    /\ OpenChannel(id)
    /\ MayClose(ch, caller)
    /\ CanPay(ch.asset, Self, refund)
    /\ balance' = IF refund > 0
                  THEN Transferred(ch.asset, Self, ch.payer, refund)
                  ELSE balance
    /\ channels' = [channels EXCEPT ![id].open = FALSE]
    /\ Publish("closed", id, refund, ch.claimed)
    /\ UNCHANGED <<ledger, next_id, signed>>

-----------------------------------------------------------------------------
(* The environment.                                                         *)

(* The holder of a voucher key signs a voucher: for this or for another
   deployment, for any channel, existing or not, and for any amount.        *)
Sign(key, deployment, id, cumulative) ==
    /\ signed' = signed \cup {Signature(key, deployment, id, cumulative)}
    /\ UNCHANGED <<ledger, channels, next_id, balance, event>>

(* A ledger closes.  ledger < MaxLedger bounds a behaviour.                 *)
LedgerCloses ==
    /\ ledger < MaxLedger
    /\ ledger' = ledger + 1
    /\ UNCHANGED <<channels, next_id, balance, signed, event>>

Next ==
    \/ \E payer, payee \in Parties, a \in Assets, d \in Amounts,
          k \in Keys, x \in Expiries : Open(payer, payee, a, d, k, x)
    \/ \E id \in Ids, n \in Amounts : TopUp(id, n)
    \/ \E id \in Ids, c \in Cumulatives, s \in signed : Claim(id, c, s)
    \/ \E id \in Ids, p \in Parties : Close(id, p)
    \/ \E k \in Keys, d \in Deployments, id \in Ids, c \in Cumulatives :
          Sign(k, d, id, c)
    \/ LedgerCloses

Spec == Init /\ [][Next]_contractVars

(* The payer of a channel asks for his money back again and again, and
   ledgers keep closing.  Nobody else is assumed to do anything.            *)
PayerCloses(id) == Found(id) /\ Close(id, channels[id].payer)

FairSpec ==
    /\ Spec
    /\ WF_contractVars(LedgerCloses)
    /\ \A id \in Ids : WF_contractVars(PayerCloses(id))
-----------------------------------------------------------------------------
(* Properties.                                                              *)

(* What records chs say the contract still owes for a channel, in asset a:
   the unclaimed part of an open channel's deposit.                         *)
Locked(chs, id, a) ==
    IF id \in DOMAIN chs /\ chs[id].open /\ chs[id].asset = a
    THEN chs[id].deposit - chs[id].claimed
    ELSE 0

ClaimedOf(chs, id) == IF id \in DOMAIN chs THEN chs[id].claimed ELSE 0

(* Every variable keeps its type and ids are handed out without gaps.       *)
TypeOK ==
    /\ ledger \in Nat
    /\ next_id \in 1..(MaxId + 1)
    /\ DOMAIN channels = 1..(next_id - 1)
    /\ channels \in [1..(next_id - 1) -> Channel]
    /\ balance \in [Assets -> [Holders -> Int]]
    /\ signed \subseteq Vouchers
    /\ event \in Event \cup {NoEvent}

(* Solvency: in every asset the contract holds exactly what it owes to the
   open channels, whatever was opened, topped up, claimed and closed in
   whatever order (the transfers of open, top_up, claim and close).         *)
Solvency ==
    \A a \in Assets :
        balance[a][Self] = SumFunction([id \in Ids |-> Locked(channels, id, a)])

(* claim never pays beyond the deposit, and never without a voucher for this
   very network, contract and channel, signed by this channel's voucher key,
   for the total claimed: vouchers of another channel, contract or network
   that uses the same key are worthless here (voucher_message).             *)
ClaimsAreBacked ==
    \A id \in DOMAIN channels :
        LET ch == channels[id] IN
        /\ ch.claimed \in 0..ch.deposit
        /\ ch.claimed > 0 =>
              \E s \in signed : /\ s.key = ch.voucher_key
                                /\ s.meant = <<Here, id, ch.claimed>>

(* A closed channel is final: neither a late top-up nor a late voucher nor a
   second close changes its record again (the !ch.open checks), and no entry
   point ever changes the parties, the asset, the key or the expiry.        *)
Terms == {"payer", "payee", "asset", "voucher_key", "expiry_ledger"}

Final(id) ==
    /\ id \in DOMAIN channels'
    /\ ~channels[id].open => channels'[id] = channels[id]
    /\ \A f \in Terms : channels'[id][f] = channels[id][f]

SettledIsFinal == [][\A id \in DOMAIN channels : Final(id)]_contractVars

(* What somebody who only reads events makes of one: the amounts update his
   copy of the deposit, the claimed total and the open flag.                *)
Applied(copy, e) ==
    CASE e.type = "opened"    -> [deposit |-> e.amount, claimed |-> 0, open |-> TRUE]
      [] e.type = "topped_up" -> [copy EXCEPT !.deposit = @ + e.amount]
      [] e.type = "claimed"   -> [copy EXCEPT !.claimed = @ + e.amount]
      [] e.type = "closed"    -> [copy EXCEPT !.open = FALSE]

CopyOf(chs, id) ==
    IF id \in DOMAIN chs
    THEN [deposit |-> chs[id].deposit, claimed |-> chs[id].claimed, open |-> chs[id].open]
    ELSE [deposit |-> 0, claimed |-> 0, open |-> FALSE]

(* The events are a faithful account: a step that changes a channel publishes
   an event of this channel and of this ledger from whose amount a reader
   gets the new record, and whose running total agrees with it.  After its
   first read the facilitator's cache is fed from nothing else.             *)
EventsTellTheState ==
    [][\A id \in Ids :
          CopyOf(channels', id) # CopyOf(channels, id) =>
              LET now == CopyOf(channels', id) IN
              /\ event'.id = id
              /\ event'.ledger = ledger
              /\ now = Applied(CopyOf(channels, id), event')
              /\ event'.total = IF event'.type \in {"opened", "topped_up"}
                                THEN now.deposit ELSE now.claimed
      ]_contractVars

(* A payer who keeps asking gets his channel closed, and with it the
   unclaimed deposit back, once expiry and grace have passed, whatever payee
   and claimers do.  An expiry within CloseGrace of u32::MAX is left out: the
   saturated sum is then never exceeded and only the payee can close.       *)
PayerRecovers ==
    \A id \in Ids :
        (Found(id) /\ channels[id].expiry_ledger + CloseGrace < MaxLedger)
            ~> (Found(id) /\ ~channels[id].open)
-----------------------------------------------------------------------------
(* The contract implements the abstract escrow: a total counts as authorised
   once the channel's own key has signed it for this deployment and id.     *)
Authorised(id) == {s.meant[3] : s \in {t \in signed : /\ t.key = channels[id].voucher_key
                                                      /\ t.meant[1] = Here
                                                      /\ t.meant[2] = id}}

Remainder(id) == channels[id].deposit - channels[id].claimed

PhaseOf == [id \in Ids |-> IF ~Found(id) THEN "none"
                           ELSE IF channels[id].open THEN "open" ELSE "settled"]
EscrowOf == [id \in Ids |-> IF Found(id) /\ channels[id].open THEN Remainder(id) ELSE 0]
PaidOf == [id \in Ids |-> ClaimedOf(channels, id)]
RefundedOf == [id \in Ids |-> IF Found(id) /\ ~channels[id].open THEN Remainder(id) ELSE 0]
AuthorisedOf == [id \in Ids |-> IF Found(id) THEN Authorised(id) ELSE {}]

Escrow == INSTANCE EscrowChannel WITH
    Channels <- Ids, phase <- PhaseOf, escrow <- EscrowOf, paid <- PaidOf,
    refunded <- RefundedOf, authorised <- AuthorisedOf

(* Every behaviour of the contract is one of the abstract escrow.           *)
ImplementsEscrow == Escrow!EscrowSpec
=============================================================================
