--------------------------- MODULE MCChannelContract ---------------------------
(***************************************************************************)
(* Instances of ChannelContract for TLC.  The amounts include the invalid  *)
(* argument 0.                                                             *)
(***************************************************************************)
EXTENDS ChannelContract, TLC

CONSTANTS buyer, seller, pool, usdc, key1, here

TwoParties == {buyer, seller}
OneAsset == {usdc}
OneKey == {key1}
OneDeployment == {here}
SmallAmounts == 0..1
SmallTotals == 1..2
EdgeExpiries == {2, 5}
=============================================================================
