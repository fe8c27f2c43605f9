------------------------------- MODULE OrderBook -------------------------------
(***************************************************************************)
(* The price and the order book sold at /demo/book (price.service.ts),     *)
(* computed from the reserves of the Soroswap pair.  The pair moves by     *)
(* swaps; the book must fit the curve x * y = k that the swaps follow.     *)
(* Amounts are in base units, as everywhere before they are formatted.     *)
(***************************************************************************)
EXTENDS Integers

CONSTANTS
    SCALE,              \* base units of one XLM or USDC
    FEE_NUM, FEE_DEN,   \* what is left of a swap after the pool's fee
    LEVELS,
    STEP_BPS,
    StartUsdc, StartXlm,
    SwapAmounts,        \* of the swaps explored
    MaxReserve          \* reserves explored

ASSUME BookAssumption ==
    /\ {SCALE, FEE_NUM, FEE_DEN, LEVELS, STEP_BPS, StartUsdc, StartXlm} \subseteq Nat \ {0}
    /\ FEE_NUM < FEE_DEN /\ LEVELS * STEP_BPS < 10000
    /\ SwapAmounts \subseteq Nat \ {0} /\ {StartUsdc, StartXlm} \subseteq 1..MaxReserve

VARIABLES reserveUsdc, reserveXlm

bookVars == <<reserveUsdc, reserveXlm>>

-----------------------------------------------------------------------------
(* isqrt: Newton's iteration, then to the exact floor.                      *)

Near(x, y) == y \in {x - 1, x, x + 1}

(* Plausible bug: the iteration's last value is the result.                 *)
ToFloor_asIs(n, start) == start

(* The two loops after the iteration, each a step at a time.                *)
ToFloor(n, start) ==
    LET adjusted[r \in 0..n] ==
            IF r * r > n THEN adjusted[r - 1]
            ELSE IF (r + 1) * (r + 1) =< n THEN adjusted[r + 1] ELSE r
    IN  adjusted[start]

(* The first x is a floating point root: not the exact one for large n.     *)
isqrt(n, first) ==
    LET step(x) == (x + n \div x) \div 2
        newton[x \in 1..n] ==
            IF Near(x, step(x))
            THEN ToFloor(n, IF step(x) < x THEN step(x) ELSE x)
            ELSE newton[step(x)]
    IN  IF n < 2 THEN n ELSE newton[first]

IsRoot(r, n) == r * r =< n /\ n < (r + 1) * (r + 1)

-----------------------------------------------------------------------------
(* fromReserves and book.                                                   *)

Mid == (reserveUsdc * SCALE) \div reserveXlm

Quote == [mid |-> Mid, bid |-> (Mid * FEE_NUM) \div FEE_DEN, ask |-> (Mid * FEE_DEN) \div FEE_NUM]

Root(n) == isqrt(n, IF n < 2 THEN 1 ELSE CHOOSE r \in 1..n : IsRoot(r, n))

xAt(price) == Root((reserveUsdc * reserveXlm * SCALE) \div price)

Up(i) == (Mid * (10000 + STEP_BPS * i)) \div 10000
Down(i) == (Mid * (10000 - STEP_BPS * i)) \div 10000

(* Up(0) and Down(0) are the price itself.                                  *)
Asks == [i \in 1..LEVELS |-> [price |-> (Up(i) * FEE_DEN) \div FEE_NUM,
                              amount |-> xAt(Up(i - 1)) - xAt(Up(i))]]
Bids == [i \in 1..LEVELS |-> [price |-> (Down(i) * FEE_NUM) \div FEE_DEN,
                              amount |-> xAt(Down(i)) - xAt(Down(i - 1))]]

-----------------------------------------------------------------------------
(* The pair: what comes in, less the fee, moves along the curve.            *)

Out(in, reserveIn, reserveOut) ==
    LET net == (in * FEE_NUM) \div FEE_DEN IN (net * reserveOut) \div (reserveIn + net)

XlmBought(usdc) ==
    /\ reserveUsdc' = reserveUsdc + usdc
    /\ reserveXlm' = reserveXlm - Out(usdc, reserveUsdc, reserveXlm)

XlmSold(xlm) ==
    /\ reserveXlm' = reserveXlm + xlm
    /\ reserveUsdc' = reserveUsdc - Out(xlm, reserveXlm, reserveUsdc)

BookInit == reserveUsdc = StartUsdc /\ reserveXlm = StartXlm

BookNext ==
    /\ \E n \in SwapAmounts : XlmBought(n) \/ XlmSold(n)
    /\ {reserveUsdc', reserveXlm'} \subseteq 1..MaxReserve

BookSpec == BookInit /\ [][BookNext]_bookVars

-----------------------------------------------------------------------------
(* Properties.                                                              *)

Prices(side) == [i \in 1..LEVELS |-> side[i].price]

(* A book that a buyer can read: nobody is offered to buy for less than he is
   offered to sell, worse prices are further from the middle, and no amount is
   negative.                                                                *)
Readable ==
    /\ Quote.bid =< Quote.mid /\ Quote.mid =< Quote.ask
    /\ \A i \in 1..LEVELS :
          /\ Quote.ask =< Asks[i].price /\ Bids[i].price =< Quote.bid
          /\ Asks[i].amount >= 0 /\ Bids[i].amount >= 0
    /\ \A i, j \in 1..LEVELS : i < j => Asks[i].price =< Asks[j].price
                                        /\ Bids[i].price >= Bids[j].price

(* Having bought the levels up to one, the pool holds what the curve asks for
   at that level's price, to the unit.                                      *)
OnTheCurve ==
    \A i \in 1..LEVELS :
        LET held == xAt(Up(i)) IN
        /\ held * held * Up(i) =< reserveUsdc * reserveXlm * SCALE
        /\ (held + 1) * (held + 1) * Up(i) > reserveUsdc * reserveXlm * SCALE

(* Whatever swaps do to the pair, the book stays readable and on its curve;
   its roots are exact from whatever first guess floating point makes
   (price.service.ts:20, 119).                                              *)
BookIsFair ==
    [][BookNext => /\ Readable' /\ OnTheCurve'
                   /\ LET n == reserveXlm' IN \A first \in 1..n : IsRoot(isqrt(n, first), n)
      ]_bookVars
=============================================================================
