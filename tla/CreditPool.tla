----------------------------- MODULE CreditPool -----------------------------
(***************************************************************************)
(* The credit pool of contracts/credit-pool/src/lib.rs together with the   *)
(* accounts it lends to (ReinkeyAccount): investors hold shares of the     *)
(* pool, an account that was handed over to the pool gets a line of        *)
(* credit, its agent trades, and the line ends by close_line or by a       *)
(* liquidation that anyone may ask for.                                    *)
(*                                                                         *)
(* Amounts are exact integers: shares and fees are rounded down as in the  *)
(* code, i128 does not overflow.  The oracle and the DEX pair are external *)
(* and quote any of a few prices, or none.                                 *)
(***************************************************************************)
EXTENDS Integers, Sequences, FiniteSetsExt

CONSTANTS
    Accounts, Others, Controllers, Payers, NoOne, Assets, AgentKeys, Policies, Authorisations,
    pairOf, InitialBalance, LEDGERS_PER_DAY, Amounts, MaxLedger,   \* see ReinkeyAccount
    Pool,               \* the pool's address
    Investors,          \* who may hold shares; the pool never invests in itself
    Beneficiaries,      \* who may get the profit of a line
    Admin,              \* the administrator
    usdc, xlm,
    OraclePrices, PairPrices, NoPrice,   \* what the sources may quote
    SourceChoices,      \* the settings of set_price_sources
    Limits,             \* limits of new lines
    liq_threshold_bps, profit_share_bps,
    MaxShares           \* bound of the shares

ASSUME PoolIsAController == Pool \in Controllers /\ Pool \in Others \ Payers /\ Pool # NoOne
ASSUME RatesAreNat == liq_threshold_bps \in Nat /\ profit_share_bps \in Nat /\ Limits \subseteq Int
ASSUME TokensDiffer == usdc \in Assets /\ xlm \in Assets /\ usdc # xlm
ASSUME PricesAreNat ==
    /\ OraclePrices \subseteq Nat \cup {NoPrice} /\ PairPrices \subseteq Nat \cup {NoPrice}
    /\ SourceChoices \subseteq SUBSET {"oracle", "pair"}

BPS == 10000
SCALE == 10000000

VARIABLES
    policy, spent, frozen, controller, balance, ledger, left, by,   \* see ReinkeyAccount
    totalShares, totalDebt,   \* DataKey::TotalShares, DataKey::TotalDebt
    shares,                   \* DataKey::Shares
    line,                     \* DataKey::Line: [debt, beneficiary, open]; none is as good as closed
    sources,                  \* which of Config.oracle and Config.pair are set
    quotes                    \* what the oracle and the pair quote now

accountVars == <<policy, spent, frozen, controller, balance, ledger, left, by>>
poolVars == <<totalShares, totalDebt, shares, line, sources, quotes>>
vars == <<accountVars, poolVars>>

Account == INSTANCE ReinkeyAccount

\* What ReinkeyAccount assumes.
ASSUME AccountsAreSound ==
    /\ Account!NoOneIsNoAddress /\ Account!PayersAreOthers /\ Account!KeysAreNoAddresses
    /\ Account!DayIsPositive /\ Account!LedgersAreNat
    /\ Account!TotalsAreNat /\ Account!PaymentsAreNat
    /\ Account!CallsAreWellFormed /\ Account!PoliciesAreNumbers
    /\ Account!PairsAreOfAssets
ASSUME HoldersAreAddresses ==
    /\ Investors \subseteq Account!Addresses \ {Pool} /\ Beneficiaries \subseteq Account!Addresses
    /\ IsFiniteSet(Investors) /\ IsFiniteSet(Accounts)

-----------------------------------------------------------------------------
\* The conservative price: the lower one of the sources that quote any.

known == {quotes[s] : s \in sources} \ {NoPrice}
price == Min(known)
xlm_value(n) == (n * price) \div SCALE

\* total_assets fails where there is XLM and no price.
AssetsKnown == balance[xlm][Pool] > 0 => known # {}
total_assets ==
    balance[usdc][Pool] + totalDebt + (IF balance[xlm][Pool] > 0 THEN xlm_value(balance[xlm][Pool]) ELSE 0)

value_of(a) == balance[usdc][a] + xlm_value(balance[xlm][a])
liquidatable(a) == line[a].open /\ value_of(a) * BPS < line[a].debt * liq_threshold_bps

NoLine == [debt |-> 0, beneficiary |-> NoOne, open |-> FALSE]

\* A token transfer on balances b.
After(b, s, x, y, n) == [[b EXCEPT ![s][x] = @ - n] EXCEPT ![s][y] = @ + n]

-----------------------------------------------------------------------------
Init ==
    /\ Account!Init
    /\ totalShares = 0 /\ totalDebt = 0
    /\ shares = [x \in Investors |-> 0]
    /\ line = [a \in Accounts |-> NoLine]
    /\ sources \in SourceChoices
    /\ quotes \in [oracle : OraclePrices, pair : PairPrices]

\* Plausible bug: the shares are rounded up.
minted_up(n) == IF totalShares = 0 \/ total_assets = 0 THEN n
                ELSE (n * totalShares + total_assets - 1) \div total_assets

minted(n) == IF totalShares = 0 \/ total_assets = 0 THEN n ELSE (n * totalShares) \div total_assets

deposit(x, n) ==
    /\ n > 0
    /\ AssetsKnown
    /\ minted(n) > 0 /\ totalShares + minted(n) <= MaxShares
    /\ balance[usdc][x] >= n
    /\ balance' = After(balance, usdc, x, Pool, n)
    /\ shares' = [shares EXCEPT ![x] = @ + minted(n)]
    /\ totalShares' = totalShares + minted(n)
    /\ by' = NoOne
    /\ UNCHANGED <<policy, spent, frozen, controller, ledger, left, totalDebt, line, sources, quotes>>

redeemed(m) == (m * total_assets) \div totalShares

withdraw(x, m) ==
    /\ m > 0 /\ m <= shares[x]
    /\ AssetsKnown
    /\ balance[usdc][Pool] >= redeemed(m)
    /\ balance' = After(balance, usdc, Pool, x, redeemed(m))
    /\ shares' = [shares EXCEPT ![x] = @ - m]
    /\ totalShares' = totalShares - m
    /\ by' = NoOne
    /\ UNCHANGED <<policy, spent, frozen, controller, ledger, left, totalDebt, line, sources, quotes>>

\* Plausible bug: the new balance of the receiver is computed from the shares before.
transfer_stale(x, y, m) ==
    /\ m > 0 /\ m <= shares[x]
    /\ shares' = [[shares EXCEPT ![x] = @ - m] EXCEPT ![y] = shares[y] + m]
    /\ by' = NoOne
    /\ UNCHANGED <<policy, spent, frozen, controller, balance, ledger, left>>
    /\ UNCHANGED <<totalShares, totalDebt, line, sources, quotes>>

transfer(x, y, m) ==
    /\ m > 0 /\ m <= shares[x]
    /\ shares' = [[shares EXCEPT ![x] = @ - m] EXCEPT ![y] = @ + m]
    /\ by' = NoOne
    /\ UNCHANGED <<policy, spent, frozen, controller, balance, ledger, left>>
    /\ UNCHANGED <<totalShares, totalDebt, line, sources, quotes>>

set_price_sources(c) ==
    /\ sources' = c
    /\ by' = NoOne
    /\ UNCHANGED <<policy, spent, frozen, controller, balance, ledger, left>>
    /\ UNCHANGED <<totalShares, totalDebt, shares, line, quotes>>

\* Plausible bug: a line is opened without asking the account for its controller.
open_line_any(a, limit, beneficiary) ==
    /\ limit > 0
    /\ ~line[a].open
    /\ balance[usdc][Pool] >= limit
    /\ balance' = After(balance, usdc, Pool, a, limit)
    /\ line' = [line EXCEPT ![a] = [debt |-> limit, beneficiary |-> beneficiary, open |-> TRUE]]
    /\ totalDebt' = totalDebt + limit
    /\ by' = NoOne
    /\ UNCHANGED <<policy, spent, frozen, controller, ledger, left, totalShares, shares, sources, quotes>>

open_line(a, limit, beneficiary) ==
    /\ limit > 0
    /\ ~line[a].open
    /\ controller[a] = Pool
    /\ balance[usdc][Pool] >= limit
    /\ balance' = After(balance, usdc, Pool, a, limit)
    /\ line' = [line EXCEPT ![a] = [debt |-> limit, beneficiary |-> beneficiary, open |-> TRUE]]
    /\ totalDebt' = totalDebt + limit
    /\ by' = NoOne
    /\ UNCHANGED <<policy, spent, frozen, controller, ledger, left, totalShares, shares, sources, quotes>>

\* The end of a line in liquidate and close_line: the account is frozen, the debt is gone.
EndLine(a) ==
    /\ Account!admin_auth(a, Pool)
    /\ frozen' = [frozen EXCEPT ![a] = TRUE]
    /\ line' = [line EXCEPT ![a].debt = 0, ![a].open = FALSE]
    /\ totalDebt' = totalDebt - line[a].debt
    /\ UNCHANGED <<policy, spent, controller, ledger, left, totalShares, shares, sources, quotes>>

\* Anyone may ask for it; all that the account holds goes to the pool.
liquidate(a) ==
    /\ line[a].open
    /\ known # {}
    /\ liquidatable(a)
    /\ balance' = After(After(balance, usdc, a, Pool, balance[usdc][a]), xlm, a, Pool, balance[xlm][a])
    /\ by' = NoOne
    /\ EndLine(a)

\* Plausible bug: the debt counts as profit.
profit_all(a) == balance[usdc][a]

profit(a) == balance[usdc][a] - line[a].debt

fee(a) == (profit(a) * profit_share_bps) \div BPS

\* Plausible bug: only the fee is recalled.
repayment_fee(a) == fee(a)

repayment(a) == line[a].debt + fee(a)

close_line(caller, a) ==
    /\ line[a].open
    /\ caller \in {Admin, line[a].beneficiary}
    /\ profit(a) >= 0
    /\ repayment(a) <= balance[usdc][a]   \* fails where profit_share_bps is above BPS
    /\ LET repaid == After(balance, usdc, a, Pool, repayment(a))
           shared == After(repaid, usdc, a, line[a].beneficiary, profit(a) - fee(a))
       IN balance' = After(shared, xlm, a, line[a].beneficiary, balance[xlm][a])
    /\ by' = NoOne
    /\ EndLine(a)

\* What the accounts do between the pool's calls, and what others pay them: the pool itself
\* calls freeze and recall only where it ends a line.
AccountStep ==
    /\ \/ \E a \in Accounts : Account!AgentStep(a) \/ Account!OwnerStep(a)
       \/ \E a \in Accounts : \E c \in (Controllers \cup {a}) \ {Pool} : Account!ControllerStep(a, c)
       \/ \E x \in Payers, s \in Assets, y \in Accounts, n \in Amounts : Account!Pays(x, s, y, n)
       \/ Account!LedgerCloses
    /\ UNCHANGED poolVars

PricesMove ==
    /\ quotes' \in [oracle : OraclePrices, pair : PairPrices]
    /\ by' = NoOne
    /\ UNCHANGED <<policy, spent, frozen, controller, balance, ledger, left>>
    /\ UNCHANGED <<totalShares, totalDebt, shares, line, sources>>

PoolStep ==
    \/ \E x \in Investors, n \in Amounts : deposit(x, n)
    \/ \E x \in Investors, m \in 1..totalShares : withdraw(x, m)
    \/ \E x \in Investors, y \in Investors, m \in 1..totalShares : transfer(x, y, m)
    \/ \E c \in SourceChoices : set_price_sources(c)
    \/ \E a \in Accounts, n \in Limits, x \in Beneficiaries : open_line(a, n, x)
    \/ \E a \in Accounts : liquidate(a)
    \/ \E a \in Accounts, x \in Beneficiaries \cup {Admin} : close_line(x, a)

Next == PoolStep \/ AccountStep \/ PricesMove

Spec == Init /\ [][Next]_vars

-----------------------------------------------------------------------------
\* Properties.

\* Every variable has its type; in particular no balance, share or debt is negative.
TypeOK ==
    /\ Account!TypeOK
    /\ totalShares \in Nat /\ totalDebt \in Nat
    /\ shares \in [Investors -> Nat]
    /\ line \in [Accounts -> [debt : Nat, beneficiary : Beneficiaries \cup {NoOne}, open : BOOLEAN]]
    /\ sources \in SourceChoices
    /\ quotes \in [oracle : OraclePrices, pair : PairPrices]

\* The totals that every price of a share is computed from are the sums of what they stand
\* for, and a closed line owes nothing (deposit, withdraw, transfer, open_line, liquidate and
\* close_line change a total and its parts apart from each other); and no balance, share or
\* debt is negative (TypeOK).
BooksBalance ==
    /\ TypeOK
    /\ totalShares = SumFunctionOnSet(shares, Investors)
    /\ totalDebt = SumFunctionOnSet([a \in Accounts |-> line[a].debt], Accounts)
    /\ \A a \in Accounts : line[a].open <=> line[a].debt > 0

\* Whoever has or had a line is under the pool's control for good, so that freeze and recall
\* cannot fail when the line must end; after the end nobody spends what is left
\* (open_line's check of get_controller, set_controller, liquidate, close_line).
LinesAreControlled ==
    \A a \in Accounts : line[a] # NoLine =>
        controller[a] = Pool /\ (~line[a].open => frozen[a])

\* What the end of a line writes off: the part of the debt that the account is not worth.
WrittenOff ==
    SumFunctionOnSet([a \in Accounts |-> line[a].debt - value_of(a)],
                     {a \in Accounts : line[a].open /\ ~line'[a].open /\ value_of(a) < line[a].debt})

\* At constant prices nobody's deposit, withdrawal, loan, repayment or profit lowers the value
\* of a share, whatever is rounded; the end of a line costs the holders no more than what the
\* account is short of its debt (deposit, withdraw, open_line, liquidate, close_line).
SharePriceHolds ==
    [][totalShares > 0 /\ known # {} /\ UNCHANGED <<sources, quotes>> =>
         (total_assets' + WrittenOff) * totalShares >= total_assets * totalShares']_vars

\* The tokens of an account with an open line reach only the pool, what the agent's policy
\* lists, and, when the line ends, its beneficiary, who gets no USDC before the pool has its
\* debt back (the claim of lib.rs that credit cannot escape).
CreditStaysInside ==
    [][\A a \in Accounts, s \in Assets, x \in Account!Addresses :
         /\ x # a /\ line[a].open
         /\ balance'[s][a] < balance[s][a] /\ balance'[s][x] > balance[s][x]
         => \/ x \in {Pool, policy[a].channel} \cup policy[a].payees
            \/ \E q \in policy[a].pairs : x = pairOf[q]
            \/ /\ x = line[a].beneficiary /\ ~line'[a].open
               /\ balance'[usdc][Pool] >= balance[usdc][Pool] + line[a].debt]_vars

=============================================================================
