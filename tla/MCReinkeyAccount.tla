-------------------------- MODULE MCReinkeyAccount --------------------------
\* Sets for TLC: one account, two tokens, a DEX with one pair, three policies.  The order book
\* of a pair stands beside the account, each explored with the other at rest.
EXTENDS DexPreview, OrderBook, TLC

CONSTANTS acct, seller, channelContract, router, factory, pair, lender, xlm, key1, key2

OneAccount == {acct}
OtherHolders == {seller, channelContract, pair, lender}
OneUnit == {1}
TheLender == {lender}
ThePair == {pair}
Tokens == {usdc, xlm}
BothKeys == {key1, key2}
OnePair == (<<usdc, xlm>> :> pair) @@ (<<xlm, usdc>> :> pair)
AtFirst == [s \in Tokens |-> [x \in OneAccount \cup OtherHolders |->
              IF x = acct THEN (IF s = usdc THEN 2 ELSE 1) ELSE 0]]

\* The policy of a trading agent, and one that caps another asset, for another key and
\* not for long, without a DEX; and the first with a lower cap.
Trading == [agent_key |-> key1, asset |-> usdc, per_tx_cap |-> 2, daily_cap |-> 2,
            payees |-> {seller}, channel |-> channelContract, expires_ledger |-> 9,
            dex_router |-> router, dex_factory |-> factory, pairs |-> DOMAIN OnePair]
Saving == [Trading EXCEPT !.agent_key = key2, !.asset = xlm, !.daily_cap = 1, !.per_tx_cap = 1,
                          !.expires_ledger = 1, !.dex_router = NoOne, !.dex_factory = NoOne,
                          !.pairs = {}]
Cautious == [Trading EXCEPT !.daily_cap = 1]
ThreePolicies == {Trading, Saving, Cautious}

Pay(s, to, n) == [contract |-> s, fn |-> "transfer", from |-> acct, to |-> to, amount |-> n]
Swap(path, n) == [contract |-> router, fn |-> "swap", to |-> acct, path |-> path, amount |-> n,
                  amount_out_min |-> 1]
Open(payee, s) == [contract |-> channelContract, fn |-> "open", from |-> acct, to |-> payee, asset |-> s]
TopUp == [contract |-> channelContract, fn |-> "top_up"]
Admin == [contract |-> acct, fn |-> "set_policy"]

Swaps == {Swap(<<usdc, xlm>>, 1), Swap(<<xlm, usdc>>, 1)}
Roots == Swaps \cup {TopUp, Open(seller, usdc)}
Nested == {Pay(usdc, pair, 1), Pay(xlm, pair, 1), Pay(usdc, channelContract, 1)}
Calls == Roots \cup Nested \cup {Admin, Open(lender, usdc), Pay(usdc, seller, 1), Pay(usdc, seller, 2),
           Pay(xlm, seller, 1), Pay(usdc, lender, 1)}

\* Every call alone, every call under one that makes calls, and two transfers under a swap.
Trees == {<<c>> : c \in Calls} \cup (Roots \X Calls) \cup (Swaps \X Nested \X Nested)

PartsInit == Init /\ BookInit

AccountRests == Init /\ policy[acct] = Trading

PartsNext ==
    \/ BookInit /\ Next /\ UNCHANGED bookVars
    \/ AccountRests /\ BookNext /\ UNCHANGED vars

PartsSpec == PartsInit /\ [][PartsNext]_<<vars, bookVars>>

=============================================================================
