----------------------------- MODULE EscrowChannel -----------------------------
(***************************************************************************)
(* What a payment channel promises, without ledger, tokens or signatures.  *)
(* Money a payer puts in escrow leaves it in two ways only: to the payee,  *)
(* up to a total the payer has authorised, or, once and for the whole      *)
(* remainder, back to the payer.  After that the channel is settled and    *)
(* nothing moves any more.                                                 *)
(***************************************************************************)
EXTENDS Integers

CONSTANT Channels   \* channel identifiers

VARIABLES
    phase,       \* "none", "open" or "settled"
    escrow,      \* what is held for the channel
    paid,        \* what its payee has received
    refunded,    \* what its payer has got back
    authorised   \* totals the payer has authorised

escrowVars == <<phase, escrow, paid, refunded, authorised>>

EscrowInit ==
    /\ phase = [c \in Channels |-> "none"]
    /\ escrow = [c \in Channels |-> 0]
    /\ paid = [c \in Channels |-> 0]
    /\ refunded = [c \in Channels |-> 0]
    /\ authorised = [c \in Channels |-> {}]

(* The payer may authorise further totals at any time; he cannot take an
   authorisation back.                                                      *)
AuthorisationsOnlyGrow ==
    \A c \in Channels : authorised[c] \subseteq authorised'[c]

Fund(c) ==
    /\ phase[c] \in {"none", "open"}
    /\ phase' = [phase EXCEPT ![c] = "open"]
    /\ escrow'[c] > escrow[c]
    /\ escrow' = [escrow EXCEPT ![c] = escrow'[c]]
    /\ UNCHANGED <<paid, refunded>>

Pay(c) ==
    /\ phase[c] = "open"
    /\ paid'[c] \in authorised[c]
    /\ paid'[c] > paid[c]
    /\ paid'[c] - paid[c] <= escrow[c]
    /\ paid' = [paid EXCEPT ![c] = paid'[c]]
    /\ escrow' = [escrow EXCEPT ![c] = @ - (paid'[c] - paid[c])]
    /\ UNCHANGED <<phase, refunded>>

Settle(c) ==
    /\ phase[c] = "open"
    /\ phase' = [phase EXCEPT ![c] = "settled"]
    /\ refunded' = [refunded EXCEPT ![c] = escrow[c]]
    /\ escrow' = [escrow EXCEPT ![c] = 0]
    /\ UNCHANGED paid

Authorise == UNCHANGED <<phase, escrow, paid, refunded>>

EscrowNext ==
    /\ AuthorisationsOnlyGrow
    /\ \/ \E c \in Channels : Fund(c) \/ Pay(c) \/ Settle(c)
       \/ Authorise

EscrowSpec == EscrowInit /\ [][EscrowNext]_escrowVars
=============================================================================
