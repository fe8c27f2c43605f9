-------------------------------- MODULE MCAudit --------------------------------
(***************************************************************************)
(* The audit module for TLC.  The ledger with its feed and the receipts    *)
(* share a process and a database but no state and no order, so they are   *)
(* explored one beside the other at rest: a behaviour is one of the        *)
(* ledger's or one of the receipts'.                                       *)
(***************************************************************************)
EXTENDS EventFeed, Receipts

CONSTANTS c1, c2, h1, h2

AllTypes == {"voucher.accepted", "channel.claimed", "ticker.tick"}
VoucherAccepted == "voucher.accepted"
Ticks == {"ticker.tick"}
OneCall == {c1}
TwoCalls == {c1, c2}
OneHash == {h1}
TwoHashes == {h1, h2}

vars == <<ledgerVars, feedVars, receiptVars>>

TypeOK == FeedTypeOK /\ ReceiptsTypeOK

Init == FeedInit /\ ReceiptsInit

FeedStep == ReceiptsInit /\ FeedNext /\ UNCHANGED receiptVars

ReceiptsStep == FeedInit /\ ReceiptsNext /\ UNCHANGED <<ledgerVars, feedVars>>

Next == FeedStep \/ ReceiptsStep

Spec == Init /\ [][Next]_vars

(* Whatever is at rest asks for nothing. *)
FairSpec == Spec /\ LedgerFairness /\ ReceiptsFairness

(* What is emitted or signed is written in the end, and what a seller        *)
(* attested stays, over failing and unheard writes, crashes and shutdowns.  *)
WrittenForGood ==
    []TypeOK /\ EventsAreWritten /\ ReceiptsAreWritten /\ AttestedOnce
=============================================================================
