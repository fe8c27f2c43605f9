---------------------------- MODULE MCFacilitator ----------------------------
(***************************************************************************)
(* Instances of Facilitator for TLC.                                       *)
(***************************************************************************)
EXTENDS Facilitator, TLC

CONSTANTS buyer, seller, pool, usdc, key1, here

TwoParties == {buyer, seller}
OneAsset == {usdc}
OneKey == {key1}
OneDeployment == {here}
Nobody == {}
TheBuyer == {buyer}
DepositOne == {1}
Deposits == {1, 2}
DepositTwo == {2}
OneTotal == {1}
Totals == 1..2
WideTotals == 1..3
OnePrice == {1}
TwoPrices == {1, 2}
Expiry2 == {2}
Expiry3 == {3}
Expiry4 == {4}
Expiry6 == {6}
=============================================================================
