---------------------------- MODULE MCCreditPool ----------------------------
\* Sets for TLC: one investor, a borrower who may invest too, an account that trades on a DEX.
\* What the backend reads of the chain stands beside the pool, each explored with the other
\* at rest.
EXTENDS CreditPool, ChainReadings, TLC

CONSTANTS acct, channelContract, inv, ben, market, router, factory, key1, r1, r2

Borrowers == {acct}
OtherHolders == {Pool, inv, ben, market}
ThePool == {Pool}
TheMarket == {market}
TheBeneficiary == {ben}
Both == {inv, ben}
Tokens == {usdc, xlm}
OneKey == {key1}
OnePair == (<<usdc, xlm>> :> market) @@ (<<xlm, usdc>> :> market)
AtFirst == [s \in Tokens |-> [x \in Borrowers \cup OtherHolders |->
              CASE s = usdc /\ x = inv -> 3 [] s = xlm /\ x = market -> 2 [] OTHER -> 0]]

\* The agent only trades, one purchase a day.
Trading == {[agent_key |-> key1, asset |-> usdc, per_tx_cap |-> 1, daily_cap |-> 1, payees |-> {},
             channel |-> channelContract, expires_ledger |-> 9, dex_router |-> router, dex_factory |-> factory,
             pairs |-> DOMAIN OnePair]}

SwapCall(path, n) == [contract |-> router, fn |-> "swap", to |-> acct, path |-> path, amount |-> n,
                      amount_out_min |-> 1]
Input(s, n) == [contract |-> s, fn |-> "transfer", from |-> acct, to |-> market, amount |-> n]
Trades == {<<SwapCall(<<usdc, xlm>>, 1), Input(usdc, 1)>>, <<SwapCall(<<xlm, usdc>>, 1), Input(xlm, 1)>>}

Units == {1, 2}
TwoUnits == {2}
Half == {5000000}
Prices == {5000000, 10000000}
OrNone == {10000000, NoPrice}
Settings == {{"oracle"}, {"oracle", "pair"}}
TwoReaders == {r1, r2}

PartsInit == Init /\ ReadingsInit

PoolRests == Init /\ sources = {"oracle"} /\ quotes = [oracle |-> NoPrice, pair |-> 5000000]

PriceAtRest == last = Unknown /\ fetching = Unknown

SummaryAtRest == cache = Unknown /\ loading = Unknown

RegistryAtRest == state = Unknown /\ ~busy /\ freezes = <<>> /\ lastFreeze = Unknown

\* The three readings share nothing but the chain: only one of them is asked for.
OneIsRead ==
    \/ PriceAtRest /\ SummaryAtRest
    \/ PriceAtRest /\ RegistryAtRest
    \/ SummaryAtRest /\ RegistryAtRest

PartsNext ==
    \/ ReadingsInit /\ Next /\ UNCHANGED readingVars
    \/ PoolRests /\ ReadingsNext /\ OneIsRead' /\ UNCHANGED vars

PartsSpec == PartsInit /\ [][PartsNext]_<<vars, readingVars>>

=============================================================================
