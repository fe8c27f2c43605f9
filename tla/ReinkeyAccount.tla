--------------------------- MODULE ReinkeyAccount ---------------------------
(***************************************************************************)
(* The smart accounts of contracts/reinkey-account/src/lib.rs: an owner    *)
(* who may do everything until the account is handed over to a controller, *)
(* and an agent who spends within a policy that __check_auth applies to    *)
(* all the calls ("contexts") of one authorisation at once.                *)
(*                                                                         *)
(* Signatures are the key they verify with; nonces and the expiry of a     *)
(* signature are the host's.  Tokens, the channel contract, the router and *)
(* its factory are external: a transfer moves a balance, and of the        *)
(* transfers an authorisation covers the contract that was called decides  *)
(* which ones really happen.                                               *)
(***************************************************************************)
EXTENDS Integers, Sequences, FiniteSetsExt

CONSTANTS
    Accounts,         \* the accounts
    Others,           \* every other address that may hold tokens
    Controllers,      \* contracts an account may be handed over to
    Payers,           \* who pays into accounts
    NoOne,            \* None: no controller, no router, no factory
    Assets,           \* the token contracts
    AgentKeys,        \* keys that may sign as an agent
    Policies,         \* the policies an owner may choose
    Authorisations,   \* what an agent may ask for: sequences of calls
    pairOf,           \* the factory's get_pair: <<sell, buy>> -> pair address
    InitialBalance,   \* who holds what at first
    LEDGERS_PER_DAY,
    Amounts,          \* amounts paid by the owner, recalled or received
    MaxLedger         \* bound of the ledgers

Addresses == Accounts \cup Others

ASSUME NoOneIsNoAddress == NoOne \notin Addresses
ASSUME DayIsPositive == LEDGERS_PER_DAY \in Nat \ {0}
ASSUME TotalsAreNat == InitialBalance \in [Assets -> [Addresses -> Nat]]
ASSUME PaymentsAreNat == Amounts \subseteq Nat
ASSUME PayersAreOthers == Payers \subseteq Others /\ Others \cap Accounts = {}
ASSUME KeysAreNoAddresses ==
    \A p \in Policies : p.agent_key \notin Addresses \cup Controllers \cup {NoOne}
ASSUME LedgersAreNat == MaxLedger \in Nat
ASSUME CallsAreWellFormed ==
    \A cs \in Authorisations :
        /\ IsFiniteSet(DOMAIN cs) /\ DOMAIN cs \subseteq Nat \ {0}
        /\ \A i \in DOMAIN cs : cs[i].fn \in {"transfer", "swap"} => cs[i].amount \in Int
        /\ \A i \in DOMAIN cs : cs[i].fn = "transfer" =>
              cs[i] = [contract |-> cs[i].contract, fn |-> "transfer", from |-> cs[i].from,
                       to |-> cs[i].to, amount |-> cs[i].amount]
ASSUME PoliciesAreNumbers ==
    \A p \in Policies :
        p.per_tx_cap \in Int /\ p.daily_cap \in Int /\ p.expires_ledger \in Nat
ASSUME PairsAreOfAssets == DOMAIN pairOf \subseteq Assets \X Assets

VARIABLES
    policy,       \* DataKey::Policy, per account
    spent,        \* DataKey::Spent: [day, amount]
    frozen,       \* DataKey::Frozen
    controller,   \* DataKey::Controller, or NoOne
    balance,      \* the tokens' balances, per asset and address
    ledger,       \* the ledger sequence number
    left,         \* ghost: [day, amount] of the policy's asset that left under the agent's signature
    by            \* ghost: who authorised the last step

vars == <<policy, spent, frozen, controller, balance, ledger, left, by>>

today == ledger \div LEDGERS_PER_DAY
OfToday(s) == IF s.day = today THEN s ELSE [day |-> today, amount |-> 0]
current_spent(a) == OfToday(spent[a])

-----------------------------------------------------------------------------
\* Token transfers: one, or those of an authorisation's calls that happen.

Transfer(s, x, y, amount) ==
    /\ balance[s][x] >= amount
    /\ balance' = [[balance EXCEPT ![s][x] = @ - amount] EXCEPT ![s][y] = @ + amount]

\* What the calls of cs numbered in `calls` transfer together.
Amount(cs, calls) == SumFunctionOnSet([i \in DOMAIN cs |-> cs[i].amount], calls)

Moved(a, cs, done) ==
    [s \in Assets |-> [x \in Addresses |->
        balance[s][x] + Amount(cs, {i \in done : cs[i].contract = s /\ cs[i].to = x})
                      - (IF x = a THEN Amount(cs, {i \in done : cs[i].contract = s}) ELSE 0)]]

\* The transfers `done` of a happen, and nobody pays what they do not have.
Transferred(a, cs, done) ==
    /\ balance' = Moved(a, cs, done)
    /\ \A s \in Assets, x \in Addresses : balance'[s][x] >= 0

-----------------------------------------------------------------------------
\* check_contexts: `cs` is the sequence of calls of one authorisation.

IsSwap(p, c) == c.contract = p.dex_router /\ c.fn = "swap"

check_swap(a, p, c) ==
    /\ c.to = a
    /\ Len(c.path) = 2 /\ c.path \in p.pairs
    /\ c.amount > 0 /\ c.amount_out_min > 0
    /\ c.path[1] = p.asset => c.amount <= p.per_tx_cap
    /\ p.dex_factory # NoOne /\ c.path \in DOMAIN pairOf

\* Plausible bug: the recipient of the transfer is not compared with the pair.
IsInputOf_anywhere(t, c) == t.contract = c.path[1] /\ t.amount = c.amount

\* The transfer the router will ask for: t is the input of the swap c.
IsInputOf(t, c) == /\ t.contract = c.path[1] /\ t.amount = c.amount
                   /\ c.path \in DOMAIN pairOf /\ t.to = pairOf[c.path]

\* Plausible bug: a swap that was matched stays in the list.
IsSwapInput_again(a, p, cs, i) ==
    /\ cs[i].fn = "transfer" /\ cs[i].from = a
    /\ \E j \in DOMAIN cs : IsSwap(p, cs[j]) /\ IsInputOf(cs[i], cs[j])

\* matches_expected: every swap covers one transfer of its input; the i-th call is covered
\* unless the equal ones before it have used up the swaps that expect it.
IsSwapInput(a, p, cs, i) ==
    /\ cs[i].fn = "transfer" /\ cs[i].from = a
    /\ LET expected == {j \in DOMAIN cs : IsSwap(p, cs[j]) /\ IsInputOf(cs[i], cs[j])}
           earlier == {j \in 1..(i - 1) : cs[j] = cs[i]}
       IN Cardinality(earlier) < Cardinality(expected)

has_channel_call(p, cs) ==
    \E i \in DOMAIN cs : cs[i].contract = p.channel /\ cs[i].fn \in {"open", "top_up"}

IsAllowed(a, p, cs, i) ==
    LET c == cs[i] IN
    \/ IsSwap(p, c) /\ check_swap(a, p, c)
    \/ IsSwapInput(a, p, cs, i)
    \/ /\ c.contract = p.asset /\ c.fn = "transfer"
       /\ c.from = a /\ c.amount >= 0 /\ c.amount <= p.per_tx_cap
       /\ IF c.to = p.channel THEN has_channel_call(p, cs) ELSE c.to \in p.payees
    \/ /\ c.contract = p.channel /\ c.fn = "open"
       /\ c.from = a /\ c.asset = p.asset /\ c.to \in p.payees
    \/ c.contract = p.channel /\ c.fn = "top_up"

\* What a call adds to the outflow: a swap that sells the policy's asset, and every transfer
\* that is not the input of a swap.
Outflow(a, p, cs, i) ==
    CASE IsSwap(p, cs[i]) -> IF cs[i].path[1] = p.asset THEN cs[i].amount ELSE 0
      [] cs[i].fn = "transfer" /\ ~IsSwapInput(a, p, cs, i) -> cs[i].amount
      [] OTHER -> 0

check_contexts(a, p, cs) == \A i \in DOMAIN cs : IsAllowed(a, p, cs, i)
outflow(a, p, cs) == SumFunction([i \in DOMAIN cs |-> Outflow(a, p, cs, i)])

-----------------------------------------------------------------------------
Init ==
    /\ policy \in [Accounts -> Policies]
    /\ spent = [a \in Accounts |-> [day |-> 0, amount |-> 0]]
    /\ frozen = [a \in Accounts |-> FALSE]
    /\ controller = [a \in Accounts |-> NoOne]
    /\ balance = InitialBalance
    /\ ledger = 0
    /\ left = [a \in Accounts |-> [day |-> 0, amount |-> 0]]
    /\ by = NoOne

\* Plausible bug: the owner's signature stays valid.
OwnerSigns_always(a) == TRUE

\* Sig::Owner in __check_auth: everything is allowed, until the account is handed over.
OwnerSigns(a) == controller[a] = NoOne

\* Plausible bug: the account's own authorisation is enough, whoever controls it.
admin_auth_either(a, c) == c = a \/ c = controller[a]

\* admin_auth: the controller c, or the owner of an account that has none.
admin_auth(a, c) == IF controller[a] = NoOne THEN c = a /\ OwnerSigns(a) ELSE c = controller[a]

set_controller(a, c) ==
    /\ OwnerSigns(a)
    /\ controller[a] = NoOne
    /\ controller' = [controller EXCEPT ![a] = c]
    /\ by' = a
    /\ UNCHANGED <<policy, spent, frozen, balance, ledger, left>>

set_policy(a, c, p) ==
    /\ admin_auth(a, c)
    /\ policy' = [policy EXCEPT ![a] = p]
    /\ by' = c
    /\ UNCHANGED <<spent, frozen, controller, balance, ledger, left>>

SetFrozen(a, c, to) ==
    /\ admin_auth(a, c)
    /\ frozen' = [frozen EXCEPT ![a] = to]
    /\ by' = c
    /\ UNCHANGED <<policy, spent, controller, balance, ledger, left>>

freeze(a, c) == SetFrozen(a, c, TRUE)
unfreeze(a, c) == SetFrozen(a, c, FALSE)

\* recall of an amount above zero; anything else moves nothing.
recall(a, c, s, to, amount) ==
    /\ controller[a] # NoOne /\ c = controller[a]
    /\ Transfer(s, a, to, amount)
    /\ by' = c
    /\ UNCHANGED <<policy, spent, frozen, controller, ledger, left>>

\* The owner spends: no policy applies.
OwnerPays(a, s, to, amount) ==
    /\ OwnerSigns(a)
    /\ Transfer(s, a, to, amount)
    /\ by' = a
    /\ UNCHANGED <<policy, spent, frozen, controller, ledger, left>>

\* Sig::Agent in __check_auth: what it lets pass.
Permits(a, k, cs) ==
    LET p == policy[a]
        out == outflow(a, p, cs)
    IN /\ ~frozen[a]
       /\ ledger <= p.expires_ledger
       /\ k = p.agent_key
       /\ check_contexts(a, p, cs)
       /\ out > 0 => current_spent(a).amount + out <= p.daily_cap

\* And what it counts.
check_auth(a, k, cs) ==
    LET out == outflow(a, policy[a], cs) IN
    /\ Permits(a, k, cs)
    /\ spent' = IF out > 0
                THEN [spent EXCEPT ![a] = [day |-> today, amount |-> current_spent(a).amount + out]]
                ELSE spent

Transfers(cs) == {i \in DOMAIN cs : cs[i].fn = "transfer"}

\* The authorisation and the calls it was asked for, in one transaction: `done` are the
\* transfers that happen.
AgentCalls(a, k, cs) ==
    /\ check_auth(a, k, cs)
    /\ \E done \in SUBSET Transfers(cs) :
          /\ Transferred(a, cs, done)
          /\ LET out == Amount(cs, {i \in done : cs[i].contract = policy[a].asset}) IN
             left' = [left EXCEPT ![a] = IF out > 0 THEN [day |-> today, amount |-> OfToday(@).amount + out]
                                         ELSE @]
    /\ by' = k
    /\ UNCHANGED <<policy, frozen, controller, ledger>>

\* Anyone else pays with tokens of their own: revenue, refunds, the output of a swap.
Pays(x, s, y, amount) ==
    /\ Transfer(s, x, y, amount)
    /\ by' = x
    /\ UNCHANGED <<policy, spent, frozen, controller, ledger, left>>

LedgerCloses ==
    /\ ledger < MaxLedger
    /\ ledger' = ledger + 1
    /\ by' = NoOne
    /\ UNCHANGED <<policy, spent, frozen, controller, balance, left>>

AgentStep(a) == \E k \in AgentKeys, cs \in Authorisations : AgentCalls(a, k, cs)

OwnerStep(a) ==
    \/ \E c \in Controllers : set_controller(a, c)
    \/ \E s \in Assets, to \in Others, n \in Amounts : OwnerPays(a, s, to, n)

\* c is the owner of an account without a controller, or the controller.
ControllerStep(a, c) ==
    \/ \E p \in Policies : set_policy(a, c, p)
    \/ freeze(a, c)
    \/ unfreeze(a, c)
    \/ \E s \in Assets, to \in Others, n \in Amounts : recall(a, c, s, to, n)

Next ==
    \/ \E a \in Accounts : AgentStep(a) \/ OwnerStep(a)
    \/ \E a \in Accounts : \E c \in Controllers \cup {a} : ControllerStep(a, c)
    \/ \E x \in Payers, s \in Assets, y \in Accounts, n \in Amounts : Pays(x, s, y, n)
    \/ LedgerCloses

Spec == Init /\ [][Next]_vars

-----------------------------------------------------------------------------
\* Properties.

\* Every variable has its type; in particular no balance is negative.
TypeOK ==
    /\ policy \in [Accounts -> Policies]
    /\ spent \in [Accounts -> [day : Nat, amount : Nat]]
    /\ frozen \in [Accounts -> BOOLEAN]
    /\ controller \in [Accounts -> Controllers \cup {NoOne}]
    /\ balance \in [Assets -> [Addresses -> Nat]]
    /\ ledger \in 0..MaxLedger
    /\ left \in [Accounts -> [day : Nat, amount : Nat]]

\* What leaves an account under the agent's signature within a day, counted where it leaves
\* and over any number of authorisations, swaps and nested transfers, stays within the daily
\* cap of the policy in force (check_contexts, current_spent and the cap of __check_auth).
DayCapHolds ==
    [][\A a \in Accounts :
         left'[a] # left[a] => left'[a].amount <= policy[a].daily_cap]_vars

\* An account that was handed over stays handed over: its controller never changes, and only
\* the controller changes the policy or the freeze (set_controller, admin_auth).
HandOverIsFinal ==
    [][\A a \in Accounts : controller[a] # NoOne =>
         /\ controller'[a] = controller[a]
         /\ (policy'[a] # policy[a] \/ frozen'[a] # frozen[a]) => by' = controller[a]]_vars

\* Tokens leave an account that was handed over by its agent or its controller alone, and by
\* the agent only while it is not frozen (ControllerLocked and AccountFrozen in __check_auth).
OwnerIsLockedOut ==
    [][\A a \in Accounts, s \in Assets :
         controller[a] # NoOne /\ balance'[s][a] < balance[s][a]
           => by' = controller[a] \/ (by' = policy[a].agent_key /\ ~frozen[a])]_vars

\* Under the agent's signature tokens reach only payees of the policy, the trusted channel
\* contract, or the pair of a swap that the policy allows; the asset of the caps reaches a
\* pair only as a counted input of a swap (check_contexts as a whole).
AgentPaysOnlyListed ==
    [][\A a \in Accounts, s \in Assets, x \in Addresses :
         x # a /\ by' = policy[a].agent_key /\ balance'[s][a] < balance[s][a] /\ balance'[s][x] > balance[s][x]
           => \/ s = policy[a].asset /\ x \in policy[a].payees \cup {policy[a].channel}
              \/ \E q \in policy[a].pairs \cap DOMAIN pairOf : q[1] = s /\ x = pairOf[q]]_vars

\* Whatever leaves an account leaves it the way its policy or its controller wants.
OutflowIsAllowed == OwnerIsLockedOut /\ AgentPaysOnlyListed

=============================================================================
