---------------------------- MODULE MCPaidStreams ----------------------------
(***************************************************************************)
(* Instances of PaidStreams for TLC.                                       *)
(***************************************************************************)
EXTENDS PaidStreams, TLC

CONSTANTS e1, e2, d1

Ticker == {d1}
Three == {e1, e2, d1}
=============================================================================
