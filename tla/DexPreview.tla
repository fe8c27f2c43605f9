------------------------------ MODULE DexPreview ------------------------------
(***************************************************************************)
(* The preview of a swap that GET /v1/dex/quote returns: DexService.verdict *)
(* (backend, dex.service.ts) over what StellarChain.getAccount could read  *)
(* of the account.  The service states that it applies the rules of the    *)
(* account contract; here both stand side by side.                         *)
(***************************************************************************)
EXTENDS ReinkeyAccount

CONSTANTS
    usdc,       \* USDC_CONTRACT_ID
    Orders      \* the amounts that are quoted

\* What is quoted is unsigned (dex.service.ts:123).
ASSUME OrdersAreNat == Orders \subseteq Nat

\* getAccount: a read that fails counts as nothing spent, as not frozen, as an unknown ledger.
\* (A policy that cannot be read is NOT_FOUND.)
Reads(a) == [spentToday : {current_spent(a).amount, 0},
             frozen : {frozen[a], FALSE},
             ledger : {ledger, 0}]

Complete(a, r) == r = [spentToday |-> current_spent(a).amount, frozen |-> frozen[a],
                       ledger |-> ledger]

\* Only USDC counts towards the caps.
counted(path, amountIn) == IF path[1] = usdc THEN amountIn ELSE 0

\* Plausible bug: what was spent today is left out.
DayCapLeft_all(p, r, n) == n <= p.daily_cap

DayCapLeft(p, r, n) == r.spentToday + n <= p.daily_cap

\* verdict: `allowed`.
Allowed(a, r, path, amountIn, minOut) ==
    LET p == policy[a] IN
    /\ ~r.frozen
    /\ p.dex_router # NoOne
    /\ path \in p.pairs
    /\ minOut > 0 /\ amountIn > 0
    /\ ~(r.ledger # 0 /\ p.expires_ledger # 0 /\ r.ledger > p.expires_ledger)
    /\ counted(path, amountIn) <= p.per_tx_cap
    /\ DayCapLeft(p, r, counted(path, amountIn))

\* The call that the quote suggests, with the transfer the router makes under it.
Suggested(a, path, amountIn, minOut) ==
    << [contract |-> policy[a].dex_router, fn |-> "swap", to |-> a, path |-> path,
        amount |-> amountIn, amount_out_min |-> minOut],
       [contract |-> path[1], fn |-> "transfer", from |-> a, to |-> pairOf[path],
        amount |-> amountIn] >>

\* The policies the preview is made for: with a router and its factory, and caps in USDC that
\* are not below zero.
Ordinary(p) ==
    /\ p.asset = usdc /\ p.per_tx_cap >= 0
    /\ p.dex_router # NoOne => p.dex_factory # NoOne
    /\ p.expires_ledger # 0

\* The account lets its agent do what the quote suggests; without a router there is nothing
\* to call.
Permitted(a, path, amountIn, minOut) ==
    /\ policy[a].dex_router # NoOne
    /\ Permits(a, policy[a].agent_key, Suggested(a, path, amountIn, minOut))

\* What the preview refuses the account refuses, even if parts of it could not be read; what
\* it allows on a complete reading the account lets its agent do, at that ledger.  The one
\* difference is a sale of another asset than USDC by an account that has already spent more
\* than its cap: the contract checks the cap of the day only for what counts towards it
\* (lib.rs:266), the preview always (dex.service.ts:109).
VerdictAgrees ==
    \A a \in Accounts : Ordinary(policy[a]) =>
        \A path \in DOMAIN pairOf, amountIn \in Orders, minOut \in {0, 1}, r \in Reads(a) :
            LET allowed == Allowed(a, r, path, amountIn, minOut)
                permitted == Permitted(a, path, amountIn, minOut)
            IN /\ allowed /\ Complete(a, r) => permitted
               /\ ~allowed /\ permitted => path[1] # usdc /\ ~DayCapLeft(policy[a], r, 0)
=============================================================================
