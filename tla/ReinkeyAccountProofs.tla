------------------------ MODULE ReinkeyAccountProofs ------------------------
(***************************************************************************)
(* What holds of the accounts for every set of accounts, policies and      *)
(* authorisations: once handed over, an account is governed by its         *)
(* controller alone; tokens leave only as the policy or the controller     *)
(* wants; and no nesting of calls evades the daily cap.                    *)
(***************************************************************************)
EXTENDS DexPreview, Sums

\* The variables that say who governs an account have their types.
Governed ==
    /\ policy \in [Accounts -> Policies]
    /\ frozen \in [Accounts -> BOOLEAN]
    /\ controller \in [Accounts -> Controllers \cup {NoOne}]

Governance == <<policy, frozen, controller>>

\* Whoever spends, and whatever is spent, no call of the agent and no payment touches the
\* governance of an account (AgentCalls, OwnerPays, recall, Pays, LedgerCloses).
LEMMA SpendingGovernsNothing ==
    ASSUME \/ \E a \in Accounts : AgentStep(a)
           \/ \E a \in Accounts, s \in Assets, to \in Others, n \in Amounts : OwnerPays(a, s, to, n)
           \/ \E a \in Accounts : \E c \in Controllers \cup {a}, s \in Assets, to \in Others, n \in Amounts :
                 recall(a, c, s, to, n)
           \/ \E x \in Payers, s \in Assets, y \in Accounts, n \in Amounts : Pays(x, s, y, n)
           \/ LedgerCloses
    PROVE  UNCHANGED Governance
  BY DEF AgentStep, AgentCalls, OwnerPays, recall, Pays, LedgerCloses, Governance

\* Every step spends, hands over, sets a policy, freezes or unfreezes (Next).
LEMMA StepKinds ==
    ASSUME Next
    PROVE  \/ UNCHANGED Governance
           \/ \E a \in Accounts, c \in Controllers : set_controller(a, c)
           \/ \E a \in Accounts : \E c \in Controllers \cup {a}, p \in Policies : set_policy(a, c, p)
           \/ \E a \in Accounts : \E c \in Controllers \cup {a}, to \in BOOLEAN : SetFrozen(a, c, to)
<1>1. CASE \E a \in Accounts : AgentStep(a)
      BY <1>1, SpendingGovernsNothing
<1>2. ASSUME NEW a \in Accounts, OwnerStep(a)
      PROVE  \/ UNCHANGED Governance
             \/ \E c \in Controllers : set_controller(a, c)
      BY <1>2, SpendingGovernsNothing DEF OwnerStep
<1>3. ASSUME NEW a \in Accounts, NEW c \in Controllers \cup {a}, ControllerStep(a, c)
      PROVE  \/ UNCHANGED Governance
             \/ \E p \in Policies : set_policy(a, c, p)
             \/ \E to \in BOOLEAN : SetFrozen(a, c, to)
      BY <1>3, SpendingGovernsNothing DEF ControllerStep, freeze, unfreeze
<1>4. CASE \E x \in Payers, s \in Assets, y \in Accounts, n \in Amounts : Pays(x, s, y, n)
      BY <1>4, SpendingGovernsNothing
<1>5. CASE LedgerCloses
      BY <1>5, SpendingGovernsNothing
<1>6. QED
      BY <1>1, <1>2, <1>3, <1>4, <1>5 DEF Next

\* The types of the governing variables are inductive (__constructor and the three setters).
LEMMA GovernedIsInductive ==
    ASSUME Governed, [Next]_vars
    PROVE  Governed'
<1>1. CASE UNCHANGED Governance
      BY <1>1 DEF Governed, Governance
<1>2. CASE \E a \in Accounts, c \in Controllers : set_controller(a, c)
      BY <1>2 DEF Governed, set_controller
<1>3. CASE \E a \in Accounts : \E c \in Controllers \cup {a}, p \in Policies : set_policy(a, c, p)
      BY <1>3 DEF Governed, set_policy
<1>4. CASE \E a \in Accounts : \E c \in Controllers \cup {a}, to \in BOOLEAN : SetFrozen(a, c, to)
      BY <1>4 DEF Governed, SetFrozen
<1>5. CASE UNCHANGED vars
      BY <1>5 DEF Governed, vars
<1>6. QED
      BY <1>1, <1>2, <1>3, <1>4, <1>5, StepKinds

\* Every account always has a policy, a freeze flag and at most one controller.
THEOREM AlwaysGoverned == Spec => []Governed
<1>1. Init => Governed
      BY DEF Init, Governed
<1>2. QED
      BY <1>1, GovernedIsInductive, PTL DEF Spec

\* A step leaves the governance of an account with a controller to that controller.
LEMMA StepKeepsHandOver ==
    ASSUME Governed, [Next]_vars, NEW a \in Accounts, controller[a] # NoOne
    PROVE  /\ controller'[a] = controller[a]
           /\ (policy'[a] # policy[a] \/ frozen'[a] # frozen[a]) => by' = controller[a]
<1>1. CASE UNCHANGED Governance
      BY <1>1 DEF Governance
<1>2. CASE \E b \in Accounts, c \in Controllers : set_controller(b, c)
      BY <1>2 DEF Governed, set_controller
<1>3. CASE \E b \in Accounts : \E c \in Controllers \cup {b}, p \in Policies : set_policy(b, c, p)
      BY <1>3 DEF Governed, set_policy, admin_auth
<1>4. CASE \E b \in Accounts : \E c \in Controllers \cup {b}, to \in BOOLEAN : SetFrozen(b, c, to)
      BY <1>4 DEF Governed, SetFrozen, admin_auth
<1>5. CASE UNCHANGED vars
      BY <1>5 DEF vars
<1>6. QED
      BY <1>1, <1>2, <1>3, <1>4, <1>5, StepKinds

\* Once an account is handed over its controller stays, and nobody else changes its policy or
\* its freeze: neither the owner nor the agent takes the account back (set_controller,
\* admin_auth and ControllerLocked in __check_auth).
THEOREM HandedOverForGood == Spec => HandOverIsFinal
<1>1. ASSUME Governed, [Next]_vars
      PROVE  [\A a \in Accounts : controller[a] # NoOne =>
                /\ controller'[a] = controller[a]
                /\ (policy'[a] # policy[a] \/ frozen'[a] # frozen[a]) => by' = controller[a]]_vars
      BY <1>1, StepKeepsHandOver
<1>2. QED
      BY <1>1, AlwaysGoverned, PTL DEF Spec, HandOverIsFinal

-----------------------------------------------------------------------------
\* Days are natural numbers.
LEMMA TodayIsNat == ASSUME ledger \in Nat PROVE today \in Nat
  BY DayIsPositive DEF today

\* One transfer between addresses keeps every balance at zero or more.
LEMMA TransferType ==
    ASSUME balance \in [Assets -> [Addresses -> Nat]],
           NEW s \in Assets, NEW x \in Addresses, NEW y \in Addresses, NEW n \in Nat,
           Transfer(s, x, y, n)
    PROVE  balance' \in [Assets -> [Addresses -> Nat]]
  BY DEF Transfer

LEMMA AmountIsInt ==
    ASSUME NEW cs \in Authorisations, NEW done \in SUBSET Transfers(cs), NEW part \in SUBSET done
    PROVE  /\ Amount(cs, part) \in Int
           /\ IsFiniteSet(part)
  <1> DEFINE f == [i \in DOMAIN cs |-> cs[i].amount]
  <1>1. IsFiniteSet(part)
    BY CallsAreWellFormed, FS_Subset DEF Transfers
  <1>2. \A i \in part : f[i] \in Int
    BY CallsAreWellFormed DEF Transfers
  <1> HIDE DEF f
  <1>3. SumFunctionOnSet(f, part) \in Int
    BY <1>1, <1>2, SumIsInt
  <1> QED BY <1>1, <1>3 DEF Amount, f

LEMMA TransferredType ==
    ASSUME balance \in [Assets -> [Addresses -> Nat]], NEW a \in Accounts,
           NEW cs \in Authorisations, NEW done \in SUBSET Transfers(cs), Transferred(a, cs, done)
    PROVE  balance' \in [Assets -> [Addresses -> Nat]]
  <1>1. ASSUME NEW s \in Assets, NEW x \in Addresses
        PROVE  Moved(a, cs, done)[s][x] \in Int
    <2>1. /\ Amount(cs, {i \in done : cs[i].contract = s /\ cs[i].to = x}) \in Int
          /\ Amount(cs, {i \in done : cs[i].contract = s}) \in Int
      BY AmountIsInt
    <2> QED BY <2>1 DEF Moved
  <1>2. Moved(a, cs, done) = [s \in Assets |-> [x \in Addresses |-> Moved(a, cs, done)[s][x]]]
    BY DEF Moved
  <1> QED BY <1>1, <1>2 DEF Transferred

LEMMA OutflowIsInt ==
    ASSUME NEW a, NEW p, NEW cs \in Authorisations
    PROVE  /\ \A i \in DOMAIN cs : Outflow(a, p, cs, i) \in Int
           /\ outflow(a, p, cs) \in Int
  <1> DEFINE f == [i \in DOMAIN cs |-> Outflow(a, p, cs, i)]
  <1>1. \A i \in DOMAIN cs : Outflow(a, p, cs, i) \in Int
    BY CallsAreWellFormed DEF Outflow, IsSwap
  <1>2. IsFiniteSet(DOMAIN f) /\ \A i \in DOMAIN f : f[i] \in Int
    BY <1>1, CallsAreWellFormed
  <1> HIDE DEF f
  <1>3. SumFunctionOnSet(f, DOMAIN f) \in Int
    BY <1>2, SumIsInt
  <1> QED BY <1>1, <1>3 DEF outflow, SumFunction, f

LEMMA CheckedType ==
    ASSUME TypeOK, NEW a \in Accounts, NEW k, NEW cs \in Authorisations, check_auth(a, k, cs)
    PROVE  spent' \in [Accounts -> [day : Nat, amount : Nat]]
  <1>1. outflow(a, policy[a], cs) \in Int
    BY OutflowIsInt
  <1>2. today \in Nat
    BY TodayIsNat DEF TypeOK
  <1>3. spent \in [Accounts -> [day : Nat, amount : Nat]] /\ current_spent(a).amount \in Nat
    BY DEF TypeOK, current_spent, OfToday
  <1> DEFINE out == outflow(a, policy[a], cs)
  <1>4. spent' = IF out > 0
                 THEN [spent EXCEPT ![a] = [day |-> today, amount |-> current_spent(a).amount + out]]
                 ELSE spent
    BY DEF check_auth
  <1> HIDE DEF out
  <1>5. out \in Int
    BY <1>1 DEF out
  <1> QED BY <1>2, <1>3, <1>4, <1>5

LEMMA AgentCallsType ==
    ASSUME TypeOK, NEW a \in Accounts, NEW k, NEW cs \in Authorisations, AgentCalls(a, k, cs)
    PROVE  TypeOK'
  <1>1. spent' \in [Accounts -> [day : Nat, amount : Nat]]
    BY CheckedType DEF AgentCalls
  <1>2. PICK done \in SUBSET Transfers(cs) :
          /\ Transferred(a, cs, done)
          /\ LET out == Amount(cs, {i \in done : cs[i].contract = policy[a].asset}) IN
             left' = [left EXCEPT ![a] = IF out > 0 THEN [day |-> today, amount |-> OfToday(@).amount + out]
                                         ELSE @]
    BY DEF AgentCalls
  <1>3. balance' \in [Assets -> [Addresses -> Nat]]
    BY <1>2, TransferredType DEF TypeOK
  <1>4. left' \in [Accounts -> [day : Nat, amount : Nat]]
    <2> DEFINE out == Amount(cs, {i \in done : cs[i].contract = policy[a].asset})
    <2>1. out \in Int
      BY <1>2, AmountIsInt
    <2>2. left' = [left EXCEPT ![a] = IF out > 0 THEN [day |-> today, amount |-> OfToday(left[a]).amount + out]
                                      ELSE left[a]]
      BY <1>2
    <2>3. left \in [Accounts -> [day : Nat, amount : Nat]] /\ OfToday(left[a]).amount \in Nat
      BY DEF TypeOK, OfToday
    <2>4. today \in Nat
      BY TodayIsNat DEF TypeOK
    <2> HIDE DEF out
    <2> QED BY <2>1, <2>2, <2>3, <2>4
  <1> QED BY <1>1, <1>3, <1>4 DEF TypeOK, AgentCalls

LEMMA PaymentType ==
    ASSUME TypeOK, NEW s \in Assets, NEW x \in Addresses, NEW y \in Addresses, NEW n \in Nat,
           Transfer(s, x, y, n), UNCHANGED <<policy, spent, frozen, controller, ledger, left>>
    PROVE  TypeOK'
  <1>1. balance' \in [Assets -> [Addresses -> Nat]]
    BY TransferType DEF TypeOK
  <1> QED BY <1>1 DEF TypeOK

\* The types are inductive (every operation).
LEMMA TypeStep ==
    ASSUME TypeOK, [Next]_vars
    PROVE  TypeOK'
<1>1. ASSUME NEW a \in Accounts, AgentStep(a)
      PROVE  TypeOK'
      BY <1>1, AgentCallsType DEF AgentStep
<1>2. ASSUME NEW a \in Accounts, OwnerStep(a)
      PROVE  TypeOK'
  <2>1. CASE \E c \in Controllers : set_controller(a, c)
        BY <2>1 DEF set_controller, TypeOK
  <2>2. ASSUME NEW s \in Assets, NEW to \in Others, NEW n \in Amounts, OwnerPays(a, s, to, n)
        PROVE  TypeOK'
        BY <2>2, PaymentsAreNat, PaymentType DEF OwnerPays, Addresses
  <2>3. QED
        BY <1>2, <2>1, <2>2 DEF OwnerStep
<1>3. ASSUME NEW a \in Accounts, NEW c \in Controllers \cup {a}, ControllerStep(a, c)
      PROVE  TypeOK'
  <2>1. CASE \E p \in Policies : set_policy(a, c, p)
        BY <2>1 DEF set_policy, TypeOK
  <2>2. CASE freeze(a, c) \/ unfreeze(a, c)
        BY <2>2 DEF freeze, unfreeze, SetFrozen, TypeOK
  <2>3. ASSUME NEW s \in Assets, NEW to \in Others, NEW n \in Amounts, recall(a, c, s, to, n)
        PROVE  TypeOK'
        BY <2>3, PaymentsAreNat, PaymentType DEF recall, Addresses
  <2>4. QED
        BY <1>3, <2>1, <2>2, <2>3 DEF ControllerStep
<1>4. ASSUME NEW x \in Payers, NEW s \in Assets, NEW y \in Accounts, NEW n \in Amounts, Pays(x, s, y, n)
      PROVE  TypeOK'
      BY <1>4, PaymentsAreNat, PayersAreOthers, PaymentType DEF Pays, Addresses
<1>5. CASE LedgerCloses
      BY <1>5, LedgersAreNat DEF LedgerCloses, TypeOK
<1>6. CASE UNCHANGED vars
      BY <1>6 DEF vars, TypeOK
<1>7. QED
      BY <1>1, <1>2, <1>3, <1>4, <1>5, <1>6 DEF Next

\* Every variable always has its type: no balance is ever negative.
THEOREM TypeCorrect == Spec => []TypeOK
<1>1. Init => TypeOK
      BY LedgersAreNat, TotalsAreNat DEF Init, TypeOK
<1>2. QED
      BY <1>1, TypeStep, PTL DEF Spec

\* A covered transfer has a swap that expects it.
LEMMA SwapOfInput ==
    ASSUME NEW a, NEW p, NEW cs \in Authorisations, NEW i \in DOMAIN cs, IsSwapInput(a, p, cs, i)
    PROVE  \E j \in DOMAIN cs : IsSwap(p, cs[j]) /\ IsInputOf(cs[i], cs[j])
<1> DEFINE expected == {j \in DOMAIN cs : IsSwap(p, cs[j]) /\ IsInputOf(cs[i], cs[j])}
           earlier == {j \in 1..(i - 1) : cs[j] = cs[i]}
<1>1. Cardinality(earlier) < Cardinality(expected)
      BY DEF IsSwapInput
<1>2. IsFiniteSet(earlier)
  <2>1. i \in Nat
        BY CallsAreWellFormed
  <2>2. IsFiniteSet(1..(i - 1))
        BY <2>1, FS_Interval
  <2>3. QED
        BY <2>2, FS_Subset
<1>3. expected # {}
  <2> HIDE DEF expected, earlier
  <2>1. Cardinality(earlier) \in Nat
        BY <1>2, FS_CardinalityType
  <2>2. QED
        BY <1>1, <2>1, FS_EmptySet
<1>4. QED
      BY <1>3

\* Every transfer of an allowed authorisation moves zero or more.
LEMMA AllowedIsNat ==
    ASSUME NEW a, NEW p, NEW cs \in Authorisations, check_contexts(a, p, cs), NEW i \in Transfers(cs)
    PROVE  cs[i].amount \in Nat
<1>1. cs[i].amount \in Int /\ i \in DOMAIN cs /\ cs[i].fn = "transfer"
      BY CallsAreWellFormed DEF Transfers
<1>2. IsAllowed(a, p, cs, i)
      BY <1>1 DEF check_contexts
<1>3. CASE IsSwapInput(a, p, cs, i)
  <2>1. PICK j \in DOMAIN cs : IsSwap(p, cs[j]) /\ IsInputOf(cs[i], cs[j])
        BY <1>1, <1>3, SwapOfInput
  <2>2. check_swap(a, p, cs[j])
        BY <2>1 DEF check_contexts, IsAllowed, IsSwap, IsSwapInput
  <2>3. QED
        BY <1>1, <2>1, <2>2 DEF check_swap, IsInputOf
<1>4. CASE ~IsSwapInput(a, p, cs, i)
      BY <1>1, <1>2, <1>4 DEF IsAllowed, IsSwap
<1>5. QED
      BY <1>3, <1>4

LEMMA AmountIsNat ==
    ASSUME NEW a, NEW p, NEW cs \in Authorisations, check_contexts(a, p, cs),
           NEW part \in SUBSET Transfers(cs)
    PROVE  Amount(cs, part) \in Nat
<1> DEFINE f == [i \in DOMAIN cs |-> cs[i].amount]
<1>1. IsFiniteSet(part)
      BY CallsAreWellFormed, FS_Subset DEF Transfers
<1>2. \A i \in part : f[i] \in Nat
      BY AllowedIsNat DEF Transfers
<1> HIDE DEF f
<1>3. SumFunctionOnSet(f, part) \in Nat
      BY <1>1, <1>2, SumIsNat
<1>4. QED
      BY <1>3 DEF Amount, f

\* What an authorisation of the agent of a does to balances: only a loses anything, and who
\* gains something is named by a transfer that the policy allows.
LEMMA AgentMoves ==
    ASSUME TypeOK, NEW a \in Accounts, NEW k, NEW cs \in Authorisations, AgentCalls(a, k, cs),
           NEW s \in Assets, NEW x \in Addresses, x # a
    PROVE  /\ balance'[s][x] >= balance[s][x]
           /\ balance'[s][x] > balance[s][x] =>
                 \E i \in Transfers(cs) : cs[i].contract = s /\ cs[i].to = x
<1>1. check_contexts(a, policy[a], cs)
      BY DEF AgentCalls, check_auth, Permits
<1>2. PICK done \in SUBSET Transfers(cs) : Transferred(a, cs, done)
      BY DEF AgentCalls
<1> DEFINE gains == {i \in done : cs[i].contract = s /\ cs[i].to = x}
<1>3. Amount(cs, gains) \in Nat
      BY <1>1, <1>2, AmountIsNat
<1>4. balance'[s][x] = balance[s][x] + Amount(cs, gains) - 0
      BY <1>2 DEF Transferred, Moved
<1>5. balance[s][x] \in Nat
      BY DEF TypeOK
<1>6. gains = {} => Amount(cs, gains) = 0
      BY SumOfNone DEF Amount
<1>7. gains # {} => \E i \in Transfers(cs) : cs[i].contract = s /\ cs[i].to = x
      BY <1>2
<1> HIDE DEF gains
<1>8. QED
      BY <1>3, <1>4, <1>5, <1>6, <1>7

\* Whom an allowed transfer may pay (the branches of check_contexts).
LEMMA AllowedReceivers ==
    ASSUME NEW a, NEW p, NEW cs \in Authorisations, check_contexts(a, p, cs), NEW i \in Transfers(cs)
    PROVE  \/ cs[i].contract = p.asset /\ cs[i].to \in p.payees \cup {p.channel}
           \/ \E q \in p.pairs \cap DOMAIN pairOf : q[1] = cs[i].contract /\ cs[i].to = pairOf[q]
<1>1. i \in DOMAIN cs /\ cs[i].fn = "transfer" /\ IsAllowed(a, p, cs, i)
      BY DEF Transfers, check_contexts
<1>2. CASE IsSwapInput(a, p, cs, i)
  <2>1. PICK j \in DOMAIN cs : IsSwap(p, cs[j]) /\ IsInputOf(cs[i], cs[j])
        BY <1>1, <1>2, SwapOfInput
  <2>2. check_swap(a, p, cs[j])
        BY <2>1 DEF check_contexts, IsAllowed, IsSwap, IsSwapInput
  <2>3. QED
        BY <2>1, <2>2 DEF check_swap, IsInputOf
<1>3. CASE ~IsSwapInput(a, p, cs, i)
      BY <1>1, <1>3 DEF IsAllowed, IsSwap
<1>4. QED
      BY <1>2, <1>3

\* A single payment only takes from the one who pays.
LEMMA PaymentMoves ==
    ASSUME TypeOK, NEW s \in Assets, NEW x \in Addresses, NEW y \in Addresses, NEW n \in Nat,
           Transfer(s, x, y, n), NEW t \in Assets, NEW z \in Addresses, z # x
    PROVE  balance'[t][z] >= balance[t][z]
  BY DEF Transfer, TypeOK

\* Who authorised a step that takes tokens of account a.
LEMMA WhoSpends ==
    ASSUME TypeOK, [Next]_vars, NEW a \in Accounts, NEW s \in Assets, balance'[s][a] < balance[s][a]
    PROVE  \/ by' = a /\ controller[a] = NoOne
           \/ controller[a] # NoOne /\ by' = controller[a]
           \/ /\ by' = policy[a].agent_key /\ ~frozen[a]
              /\ \E k \in AgentKeys, cs \in Authorisations : AgentCalls(a, k, cs)
<1>0. a \in Addresses /\ balance[s][a] \in Nat /\ balance \in [Assets -> [Addresses -> Nat]]
      BY DEF TypeOK, Addresses
<1>1. ASSUME NEW b \in Accounts, AgentStep(b)
      PROVE  /\ by' = policy[a].agent_key /\ ~frozen[a]
             /\ \E k \in AgentKeys, cs \in Authorisations : AgentCalls(a, k, cs)
  <2>1. PICK k \in AgentKeys, cs \in Authorisations : AgentCalls(b, k, cs)
        BY <1>1 DEF AgentStep
  <2>2. b = a
    <3>1. ASSUME b # a
          PROVE  FALSE
      <4>1. balance'[s][a] >= balance[s][a]
            BY <1>0, <2>1, <3>1, AgentMoves
      <4>2. balance'[s][a] \in Nat
            BY <1>0, <2>1, AgentCallsType DEF TypeOK
      <4>3. QED
            BY <1>0, <4>1, <4>2
    <3>2. QED
          BY <3>1
  <2>3. by' = policy[a].agent_key /\ ~frozen[a]
        BY <2>1, <2>2 DEF AgentCalls, check_auth, Permits
  <2>4. QED
        BY <2>1, <2>2, <2>3
<1>2. ASSUME NEW x \in Addresses, NEW y \in Addresses, NEW t \in Assets, NEW n \in Nat, Transfer(t, x, y, n)
      PROVE  x = a
  <2>1. balance' \in [Assets -> [Addresses -> Nat]]
        BY <1>0, <1>2, TransferType
  <2>2. balance'[s][a] \in Nat
        BY <1>0, <2>1
  <2>3. ASSUME x # a
        PROVE  FALSE
        BY <1>0, <1>2, <2>2, <2>3, PaymentMoves
  <2>4. QED
        BY <2>3
<1>3. ASSUME NEW b \in Accounts, OwnerStep(b)
      PROVE  by' = a /\ controller[a] = NoOne
  <2>1. CASE \E c \in Controllers : set_controller(b, c)
        BY <1>0, <2>1 DEF set_controller
  <2>2. ASSUME NEW t \in Assets, NEW to \in Others, NEW n \in Amounts, OwnerPays(b, t, to, n)
        PROVE  by' = a /\ controller[a] = NoOne
    <3>1. b = a
          BY <1>2, <2>2, PaymentsAreNat DEF OwnerPays, Addresses
    <3>2. QED
          BY <2>2, <3>1 DEF OwnerPays, OwnerSigns
  <2>3. QED
        BY <1>3, <2>1, <2>2 DEF OwnerStep
<1>4. ASSUME NEW b \in Accounts, NEW c \in Controllers \cup {b}, ControllerStep(b, c)
      PROVE  controller[a] # NoOne /\ by' = controller[a]
  <2>1. CASE \E p \in Policies : set_policy(b, c, p)
        BY <1>0, <2>1 DEF set_policy
  <2>2. CASE freeze(b, c) \/ unfreeze(b, c)
        BY <1>0, <2>2 DEF freeze, unfreeze, SetFrozen
  <2>3. ASSUME NEW t \in Assets, NEW to \in Others, NEW n \in Amounts, recall(b, c, t, to, n)
        PROVE  controller[a] # NoOne /\ by' = controller[a]
    <3>1. b = a
          BY <1>2, <2>3, PaymentsAreNat DEF recall, Addresses
    <3>2. QED
          BY <2>3, <3>1 DEF recall
  <2>4. QED
        BY <1>4, <2>1, <2>2, <2>3 DEF ControllerStep
<1>5. ASSUME NEW x \in Payers, NEW t \in Assets, NEW y \in Accounts, NEW n \in Amounts, Pays(x, t, y, n)
      PROVE  FALSE
      BY <1>2, <1>5, PaymentsAreNat, PayersAreOthers DEF Pays, Addresses
<1>6. CASE LedgerCloses
      BY <1>0, <1>6 DEF LedgerCloses
<1>7. CASE UNCHANGED vars
      BY <1>0, <1>7 DEF vars
<1>8. QED
      BY <1>1, <1>3, <1>4, <1>5, <1>6, <1>7 DEF Next

\* No step takes anything from an address that is neither an account nor pays into one
\* (AgentCalls, OwnerPays, recall, Pays).
LEMMA OthersKeepTokens ==
    ASSUME TypeOK, [Next]_vars, NEW z \in Others \ Payers, NEW s \in Assets
    PROVE  balance'[s][z] >= balance[s][z]
<1>1. z \in Addresses /\ z \notin Accounts /\ z \notin Payers /\ balance[s][z] \in Nat
      BY PayersAreOthers DEF Addresses, TypeOK
<1>2. ASSUME NEW x \in Addresses \ {z}, NEW t \in Assets, NEW y \in Addresses, NEW n \in Amounts,
             Transfer(t, x, y, n)
      PROVE  balance'[s][z] >= balance[s][z]
      BY <1>1, <1>2, PaymentMoves, PaymentsAreNat
<1>3. CASE UNCHANGED balance
      BY <1>1, <1>3
<1>4. ASSUME NEW a \in Accounts, AgentStep(a)
      PROVE  balance'[s][z] >= balance[s][z]
      BY <1>1, <1>4, AgentMoves DEF AgentStep
<1>5. ASSUME NEW a \in Accounts, OwnerStep(a)
      PROVE  balance'[s][z] >= balance[s][z]
      BY <1>1, <1>2, <1>3, <1>5 DEF OwnerStep, OwnerPays, set_controller, Addresses
<1>6. ASSUME NEW a \in Accounts, NEW c \in Controllers \cup {a}, ControllerStep(a, c)
      PROVE  balance'[s][z] >= balance[s][z]
      BY <1>1, <1>2, <1>3, <1>6
      DEF ControllerStep, recall, set_policy, freeze, unfreeze, SetFrozen, Addresses
<1>7. ASSUME NEW x \in Payers, NEW t \in Assets, NEW y \in Accounts, NEW n \in Amounts, Pays(x, t, y, n)
      PROVE  balance'[s][z] >= balance[s][z]
      BY <1>1, <1>2, <1>7, PayersAreOthers DEF Pays, Addresses
<1>8. CASE LedgerCloses \/ UNCHANGED vars
      BY <1>3, <1>8 DEF LedgerCloses, vars
<1>9. QED
      BY <1>4, <1>5, <1>6, <1>7, <1>8 DEF Next

\* What a step does to an account that loses tokens, as OutflowIsAllowed says it.
LEMMA StepIsAllowed ==
    ASSUME TypeOK, [Next]_vars, NEW a \in Accounts, NEW s \in Assets, balance'[s][a] < balance[s][a]
    PROVE  /\ controller[a] # NoOne => by' = controller[a] \/ (by' = policy[a].agent_key /\ ~frozen[a])
           /\ \A x \in Addresses \ {a} :
                 by' = policy[a].agent_key /\ balance'[s][x] > balance[s][x]
                   => \/ s = policy[a].asset /\ x \in policy[a].payees \cup {policy[a].channel}
                      \/ \E q \in policy[a].pairs \cap DOMAIN pairOf : q[1] = s /\ x = pairOf[q]
<1>1. \/ by' = a /\ controller[a] = NoOne
      \/ controller[a] # NoOne /\ by' = controller[a]
      \/ /\ by' = policy[a].agent_key /\ ~frozen[a]
         /\ \E k \in AgentKeys, cs \in Authorisations : AgentCalls(a, k, cs)
      BY WhoSpends
<1>2. ASSUME NEW x \in Addresses \ {a}, by' = policy[a].agent_key, balance'[s][x] > balance[s][x]
      PROVE  \/ s = policy[a].asset /\ x \in policy[a].payees \cup {policy[a].channel}
             \/ \E q \in policy[a].pairs \cap DOMAIN pairOf : q[1] = s /\ x = pairOf[q]
  <2>1. policy[a].agent_key # a /\ policy[a].agent_key # controller[a]
    <3>1. policy[a] \in Policies /\ controller[a] \in Controllers \cup {NoOne} /\ a \in Addresses
          BY DEF TypeOK, Addresses
    <3>2. QED
          BY <3>1, KeysAreNoAddresses
  <2>2. PICK k \in AgentKeys, cs \in Authorisations : AgentCalls(a, k, cs)
        BY <1>1, <1>2, <2>1
  <2>3. PICK i \in Transfers(cs) : cs[i].contract = s /\ cs[i].to = x
        BY <1>2, <2>2, AgentMoves
  <2>4. check_contexts(a, policy[a], cs)
        BY <2>2 DEF AgentCalls, check_auth, Permits
  <2>5. \/ cs[i].contract = policy[a].asset /\ cs[i].to \in policy[a].payees \cup {policy[a].channel}
        \/ \E q \in policy[a].pairs \cap DOMAIN pairOf : q[1] = cs[i].contract /\ cs[i].to = pairOf[q]
        BY <2>4, AllowedReceivers
  <2>6. QED
        BY <2>3, <2>5
<1>3. QED
      BY <1>1, <1>2

\* Whatever leaves an account leaves it the way its policy or its controller wants, for every
\* authorisation however its calls are nested: no payee, channel or pair outside the policy
\* gets anything of the agent, and a frozen account that was handed over pays nobody but whom
\* its controller wants.
THEOREM OutflowsAreAllowed == Spec => OutflowIsAllowed
<1>1. ASSUME TypeOK, [Next]_vars
      PROVE  /\ \A a \in Accounts, s \in Assets :
                   controller[a] # NoOne /\ balance'[s][a] < balance[s][a]
                     => by' = controller[a] \/ (by' = policy[a].agent_key /\ ~frozen[a])
             /\ \A a \in Accounts, s \in Assets, x \in Addresses :
                   x # a /\ by' = policy[a].agent_key /\ balance'[s][a] < balance[s][a] /\ balance'[s][x] > balance[s][x]
                     => \/ s = policy[a].asset /\ x \in policy[a].payees \cup {policy[a].channel}
                        \/ \E q \in policy[a].pairs \cap DOMAIN pairOf : q[1] = s /\ x = pairOf[q]
      BY <1>1, StepIsAllowed
<1>2. QED
      BY <1>1, TypeCorrect, PTL DEF Spec, OutflowIsAllowed, OwnerIsLockedOut, AgentPaysOnlyListed

-----------------------------------------------------------------------------
\* The swaps that expect the i-th call, and the equal calls before it.
Expected(p, cs, i) == {j \in DOMAIN cs : IsSwap(p, cs[j]) /\ IsInputOf(cs[i], cs[j])}
Earlier(cs, i) == {j \in 1..(i - 1) : cs[j] = cs[i]}

\* A numbering of a finite set.
Numbering(S) == CHOOSE b : b \in Bijection(1..Cardinality(S), S)

LEMMA NumberingExists ==
    ASSUME NEW S, IsFiniteSet(S)
    PROVE  Numbering(S) \in Bijection(1..Cardinality(S), S)
<1>1. ExistsBijection(1..Cardinality(S), S)
      BY FS_CardinalityType
<1>2. QED
      BY <1>1 DEF ExistsBijection, Numbering

\* The swap that uses the i-th call up: the equal calls before it have used the first ones.
SwapFor(p, cs, i) == Numbering(Expected(p, cs, i))[Cardinality(Earlier(cs, i)) + 1]

LEMMA EarlierIsCounted ==
    ASSUME NEW cs \in Authorisations, NEW i \in DOMAIN cs
    PROVE  IsFiniteSet(Earlier(cs, i)) /\ Cardinality(Earlier(cs, i)) \in Nat
<1>1. i \in Nat
      BY CallsAreWellFormed
<1>2. IsFiniteSet(1..(i - 1))
      BY <1>1, FS_Interval
<1>3. IsFiniteSet(Earlier(cs, i))
      BY <1>2, FS_Subset DEF Earlier
<1>4. QED
      BY <1>3, FS_CardinalityType

LEMMA SwapForIsExpected ==
    ASSUME NEW a, NEW p, NEW cs \in Authorisations, NEW i \in DOMAIN cs, IsSwapInput(a, p, cs, i)
    PROVE  /\ SwapFor(p, cs, i) \in Expected(p, cs, i)
           /\ Cardinality(Earlier(cs, i)) + 1 \in 1..Cardinality(Expected(p, cs, i))
           /\ Numbering(Expected(p, cs, i)) \in
                 Bijection(1..Cardinality(Expected(p, cs, i)), Expected(p, cs, i))
<1>1. IsFiniteSet(Expected(p, cs, i))
      BY CallsAreWellFormed, FS_Subset DEF Expected
<1>2. Cardinality(Expected(p, cs, i)) \in Nat
      BY <1>1, FS_CardinalityType
<1>3. Cardinality(Earlier(cs, i)) < Cardinality(Expected(p, cs, i))
      BY DEF IsSwapInput, Earlier, Expected
<1>4. Cardinality(Earlier(cs, i)) + 1 \in 1..Cardinality(Expected(p, cs, i))
      BY <1>2, <1>3, EarlierIsCounted
<1>5. Numbering(Expected(p, cs, i)) \in
                 Bijection(1..Cardinality(Expected(p, cs, i)), Expected(p, cs, i))
      BY <1>1, NumberingExists
<1>6. QED
      BY <1>4, <1>5 DEF SwapFor, Bijection, Injection, Surjection

\* Two covered transfers never use the same swap.
LEMMA SwapsAreUsedOnce ==
    ASSUME NEW a, NEW p, NEW cs \in Authorisations, NEW i \in Transfers(cs), NEW k \in Transfers(cs),
           IsSwapInput(a, p, cs, i), IsSwapInput(a, p, cs, k), cs[i] = cs[k],
           SwapFor(p, cs, i) = SwapFor(p, cs, k)
    PROVE  i = k
<1>1. i \in DOMAIN cs /\ k \in DOMAIN cs /\ i \in Nat /\ k \in Nat
      BY CallsAreWellFormed DEF Transfers
<1>2. Expected(p, cs, i) = Expected(p, cs, k)
      BY DEF Expected
<1>3. Cardinality(Earlier(cs, i)) = Cardinality(Earlier(cs, k))
  <2> DEFINE E == Expected(p, cs, i)
             m == Cardinality(Earlier(cs, i))
             n == Cardinality(Earlier(cs, k))
  <2>1. /\ m + 1 \in 1..Cardinality(E) /\ n + 1 \in 1..Cardinality(E)
        /\ Numbering(E) \in Bijection(1..Cardinality(E), E)
        BY <1>1, <1>2, SwapForIsExpected
  <2>2. Numbering(E)[m + 1] = Numbering(E)[n + 1]
        BY <1>2 DEF SwapFor
  <2>3. m \in Nat /\ n \in Nat
        BY <1>1, EarlierIsCounted
  <2> HIDE DEF E, m, n
  <2>4. m + 1 = n + 1
        BY <2>1, <2>2 DEF Bijection, Injection, IsInjective
  <2>5. m = n
        BY <2>3, <2>4
  <2>6. QED
        BY <2>5 DEF m, n
<1>4. ASSUME NEW x \in Transfers(cs), NEW y \in Transfers(cs), cs[x] = cs[y], x < y
      PROVE  Cardinality(Earlier(cs, x)) < Cardinality(Earlier(cs, y))
  <2>1. x \in Nat \ {0} /\ y \in Nat
        BY CallsAreWellFormed, <1>4 DEF Transfers
  <2>2. Earlier(cs, x) \subseteq Earlier(cs, y)
        BY <1>4, <2>1 DEF Earlier
  <2>3. x \in Earlier(cs, y) /\ x \notin Earlier(cs, x)
        BY <1>4, <2>1 DEF Earlier
  <2>4. IsFiniteSet(Earlier(cs, y))
        BY EarlierIsCounted DEF Transfers
  <2>5. /\ Cardinality(Earlier(cs, x)) <= Cardinality(Earlier(cs, y))
        /\ Cardinality(Earlier(cs, x)) # Cardinality(Earlier(cs, y))
        BY <2>2, <2>3, <2>4, FS_Subset
  <2>6. Cardinality(Earlier(cs, x)) \in Nat /\ Cardinality(Earlier(cs, y)) \in Nat
        BY EarlierIsCounted DEF Transfers
  <2>7. QED
        BY <2>5, <2>6
<1>5. CASE i < k
      BY <1>3, <1>4, <1>5, <1>1, EarlierIsCounted
<1>6. CASE k < i
      BY <1>3, <1>4, <1>6, <1>1, EarlierIsCounted
<1>7. QED
      BY <1>1, <1>5, <1>6

\* Two covered transfers are inputs of the same swap only if they are the same call.
LEMMA SwapsCoverOne ==
    ASSUME NEW a, NEW p, NEW cs \in Authorisations, NEW i \in Transfers(cs), NEW k \in Transfers(cs),
           IsSwapInput(a, p, cs, i), IsSwapInput(a, p, cs, k), SwapFor(p, cs, i) = SwapFor(p, cs, k)
    PROVE  i = k
<1>1. i \in DOMAIN cs /\ k \in DOMAIN cs /\ cs[i].fn = "transfer" /\ cs[k].fn = "transfer"
      BY DEF Transfers
<1>2. IsInputOf(cs[i], cs[SwapFor(p, cs, i)]) /\ IsInputOf(cs[k], cs[SwapFor(p, cs, i)])
      BY <1>1, SwapForIsExpected DEF Expected
<1>3. /\ cs[i].contract = cs[k].contract /\ cs[i].amount = cs[k].amount
      /\ cs[i].to = cs[k].to /\ cs[i].from = cs[k].from
      BY <1>2 DEF IsInputOf, IsSwapInput
<1>4. cs[i] = cs[k]
  <2>1. /\ cs[i] = [contract |-> cs[i].contract, fn |-> "transfer", from |-> cs[i].from,
                    to |-> cs[i].to, amount |-> cs[i].amount]
        /\ cs[k] = [contract |-> cs[k].contract, fn |-> "transfer", from |-> cs[k].from,
                    to |-> cs[k].to, amount |-> cs[k].amount]
        BY <1>1, CallsAreWellFormed
  <2>2. QED
        BY <1>3, <2>1
<1>5. QED
      BY <1>4, SwapsAreUsedOnce

LEMMA OutflowIsNat ==
    ASSUME NEW a, NEW p, NEW cs \in Authorisations, check_contexts(a, p, cs), NEW i \in DOMAIN cs
    PROVE  Outflow(a, p, cs, i) \in Nat
<1>1. IsAllowed(a, p, cs, i)
      BY DEF check_contexts
<1>2. CASE IsSwap(p, cs[i])
  <2>1. check_swap(a, p, cs[i])
        BY <1>1, <1>2 DEF IsAllowed, IsSwap, IsSwapInput
  <2>2. cs[i].amount \in Nat
        BY <1>2, <2>1, CallsAreWellFormed DEF IsSwap, check_swap
  <2>3. QED
        BY <1>2, <2>2 DEF Outflow
<1>3. CASE ~IsSwap(p, cs[i]) /\ cs[i].fn = "transfer"
  <2>1. cs[i].amount \in Nat
        BY <1>3, AllowedIsNat DEF Transfers
  <2>2. QED
        BY <1>3, <2>1 DEF Outflow
<1>4. CASE ~IsSwap(p, cs[i]) /\ cs[i].fn # "transfer"
      BY <1>4 DEF Outflow
<1>5. QED
      BY <1>2, <1>3, <1>4

\* No transfer of the capped asset escapes the count: whichever of an authorisation's
\* transfers happen, the outflow that is counted is at least what they move.
LEMMA NothingEscapesTheCount ==
    ASSUME NEW a, NEW p, NEW cs \in Authorisations, check_contexts(a, p, cs), NEW done \in SUBSET Transfers(cs)
    PROVE  Amount(cs, {i \in done : cs[i].contract = p.asset}) <= outflow(a, p, cs)
<1> DEFINE moved == {i \in done : cs[i].contract = p.asset}
           f == [i \in DOMAIN cs |-> cs[i].amount]
           g == [i \in DOMAIN cs |-> Outflow(a, p, cs, i)]
           h == [i \in moved |-> IF IsSwapInput(a, p, cs, i) THEN SwapFor(p, cs, i) ELSE i]
<1>1. moved \subseteq Transfers(cs) /\ moved \subseteq DOMAIN cs
      BY DEF Transfers
<1>2. IsFiniteSet(moved) /\ IsFiniteSet(DOMAIN cs)
  <2>1. IsFiniteSet(DOMAIN cs)
        BY CallsAreWellFormed
  <2>2. QED
        BY <1>1, <2>1, FS_Subset
<1>3. \A y \in DOMAIN cs : g[y] \in Nat
      BY OutflowIsNat
<1>4. ASSUME NEW i \in moved
      PROVE  f[i] \in Int /\ h[i] \in DOMAIN cs /\ f[i] <= g[h[i]]
  <2>1. /\ i \in DOMAIN cs /\ i \in Transfers(cs) /\ cs[i].fn = "transfer" /\ f[i] = cs[i].amount
        /\ cs[i].contract = p.asset /\ cs[i].amount \in Nat
        BY <1>1, AllowedIsNat DEF Transfers
  <2>2. CASE IsSwapInput(a, p, cs, i)
    <3> DEFINE j == SwapFor(p, cs, i)
    <3>1. h[i] = j /\ j \in DOMAIN cs /\ IsSwap(p, cs[j]) /\ IsInputOf(cs[i], cs[j])
          BY <2>1, <2>2, SwapForIsExpected DEF Expected
    <3> HIDE DEF j
    <3>2. Outflow(a, p, cs, j) = cs[i].amount
          BY <2>1, <3>1 DEF Outflow, IsInputOf
    <3>3. QED
          BY <2>1, <3>1, <3>2
  <2>3. CASE ~IsSwapInput(a, p, cs, i)
    <3>1. Outflow(a, p, cs, i) = cs[i].amount
          BY <2>1, <2>3 DEF Outflow, IsSwap
    <3>2. h[i] = i /\ g[i] = Outflow(a, p, cs, i)
          BY <2>1, <2>3
    <3> HIDE DEF f, g, h, moved
    <3>3. QED
          BY <2>1, <3>1, <3>2
  <2>4. QED
        BY <2>2, <2>3
<1>5. ASSUME NEW x \in moved, NEW y \in moved, h[x] = h[y]
      PROVE  x = y
  <2>1. /\ x \in Transfers(cs) /\ y \in Transfers(cs) /\ x \in DOMAIN cs /\ y \in DOMAIN cs
        /\ cs[x].fn = "transfer" /\ cs[y].fn = "transfer"
        BY <1>1 DEF Transfers
  <2>2. \A i \in {x, y} : IsSwapInput(a, p, cs, i) => cs[SwapFor(p, cs, i)].fn = "swap"
    <3>1. ASSUME NEW i \in DOMAIN cs, IsSwapInput(a, p, cs, i)
          PROVE  cs[SwapFor(p, cs, i)].fn = "swap"
      <4>1. SwapFor(p, cs, i) \in Expected(p, cs, i)
            BY <3>1, SwapForIsExpected
      <4>2. QED
            BY <4>1 DEF Expected, IsSwap
    <3>2. QED
          BY <2>1, <3>1
  <2>3. CASE IsSwapInput(a, p, cs, x) /\ IsSwapInput(a, p, cs, y)
    <3>1. SwapFor(p, cs, x) = SwapFor(p, cs, y)
          BY <1>5, <2>3
    <3>2. QED
          BY <2>1, <2>3, <3>1, SwapsCoverOne
  <2>4. /\ h[x] = IF IsSwapInput(a, p, cs, x) THEN SwapFor(p, cs, x) ELSE x
        /\ h[y] = IF IsSwapInput(a, p, cs, y) THEN SwapFor(p, cs, y) ELSE y
        OBVIOUS
  <2>5. CASE ~IsSwapInput(a, p, cs, x) /\ ~IsSwapInput(a, p, cs, y)
        BY <1>5, <2>4, <2>5
  <2>6. CASE IsSwapInput(a, p, cs, x) /\ ~IsSwapInput(a, p, cs, y)
    <3>1. SwapFor(p, cs, x) = y /\ cs[SwapFor(p, cs, x)].fn = "swap"
          BY <1>5, <2>2, <2>4, <2>6
    <3>2. QED
          BY <2>1, <3>1
  <2>7. CASE ~IsSwapInput(a, p, cs, x) /\ IsSwapInput(a, p, cs, y)
    <3>1. SwapFor(p, cs, y) = x /\ cs[SwapFor(p, cs, y)].fn = "swap"
          BY <1>5, <2>2, <2>4, <2>7
    <3>2. QED
          BY <2>1, <3>1
  <2>8. QED
        BY <2>3, <2>5, <2>6, <2>7
<1> HIDE DEF f, g, h, moved
<1>6. SumFunctionOnSet(f, moved) <= SumFunctionOnSet(g, DOMAIN cs)
      BY <1>2, <1>3, <1>4, <1>5, SumInto
<1>7. DOMAIN g = DOMAIN cs
      BY DEF g
<1>8. QED
      BY <1>6, <1>7 DEF Amount, outflow, SumFunction, f, g, moved

-----------------------------------------------------------------------------
\* The inductive invariant of the daily cap: of today's outflow no more has left than was
\* counted, and nothing was counted for a day to come.
LeftIsCounted ==
    \A a \in Accounts : /\ OfToday(left[a]).amount <= current_spent(a).amount
                        /\ left[a].day <= today

\* Days do not run backwards.
LEMMA DaysGoOn ==
    ASSUME ledger \in Nat, ledger' = ledger + 1
    PROVE  today \in Nat /\ today' \in Nat /\ today <= today'
<1>1. ASSUME NEW d \in Nat \ {0}, NEW n \in Nat
      PROVE  /\ n \div d \in Nat /\ (n + 1) \div d \in Nat
             /\ n \div d <= (n + 1) \div d
      OBVIOUS
<1>2. QED
      BY <1>1, DayIsPositive DEF today

LEMMA LedgerKeepsCount ==
    ASSUME TypeOK, LeftIsCounted, LedgerCloses
    PROVE  LeftIsCounted'
<1> SUFFICES ASSUME NEW a \in Accounts
             PROVE  /\ OfToday(left[a])'.amount <= current_spent(a)'.amount
                    /\ left'[a].day <= today'
    BY DEF LeftIsCounted
<1>1. today \in Nat /\ today' \in Nat /\ today <= today'
      BY DaysGoOn DEF LedgerCloses, TypeOK
<1>2. left' = left /\ spent' = spent
      BY DEF LedgerCloses
<1>3. left[a] \in [day : Nat, amount : Nat] /\ spent[a] \in [day : Nat, amount : Nat]
      BY DEF TypeOK
<1>4. left[a].day <= today /\ OfToday(left[a]).amount <= OfToday(spent[a]).amount
      BY DEF LeftIsCounted, current_spent
<1>5. OfToday(left[a])'.amount <= OfToday(spent[a])'.amount
  <2>1. CASE today' = today
        BY <1>2, <1>4, <2>1 DEF OfToday
  <2>2. CASE today' # today
    <3>1. left[a].day # today'
          BY <1>1, <1>3, <1>4, <2>2
    <3>2. OfToday(left[a])'.amount = 0 /\ OfToday(spent[a])'.amount \in Nat
          BY <1>2, <1>3, <3>1 DEF OfToday
    <3>3. QED
          BY <3>2
  <2>3. QED
        BY <2>1, <2>2
<1>6. left[a].day <= today'
      BY <1>1, <1>3, <1>4
<1>7. QED
      BY <1>2, <1>5, <1>6 DEF current_spent

\* What an authorisation counts and what then leaves.
LEMMA AgentCounts ==
    ASSUME TypeOK, LeftIsCounted, NEW a \in Accounts, NEW k, NEW cs \in Authorisations, AgentCalls(a, k, cs)
    PROVE  /\ LeftIsCounted'
           /\ \A b \in Accounts : left'[b] # left[b] => left'[b].amount <= policy[b].daily_cap
<1> DEFINE taken == outflow(a, policy[a], cs)
<1>1. PICK done \in SUBSET Transfers(cs) :
          LET out == Amount(cs, {i \in done : cs[i].contract = policy[a].asset}) IN
          left' = [left EXCEPT ![a] = IF out > 0 THEN [day |-> today, amount |-> OfToday(@).amount + out]
                                      ELSE @]
      BY DEF AgentCalls
<1> DEFINE out == Amount(cs, {i \in done : cs[i].contract = policy[a].asset})
<1>2. left' = [left EXCEPT ![a] = IF out > 0 THEN [day |-> today, amount |-> OfToday(left[a]).amount + out]
                                  ELSE left[a]]
      BY <1>1
<1>3. spent' = IF taken > 0
               THEN [spent EXCEPT ![a] = [day |-> today, amount |-> OfToday(spent[a]).amount + taken]]
               ELSE spent
      BY DEF AgentCalls, check_auth, current_spent
<1>4. taken > 0 => OfToday(spent[a]).amount + taken <= policy[a].daily_cap
      BY DEF AgentCalls, check_auth, Permits, current_spent
<1>5. out \in Nat /\ taken \in Int /\ out <= taken
  <2>1. check_contexts(a, policy[a], cs)
        BY DEF AgentCalls, check_auth, Permits
  <2>2. out \in Nat
        BY <1>1, <2>1, AmountIsNat
  <2>3. taken \in Int
        BY OutflowIsInt
  <2>4. out <= taken
        BY <1>1, <2>1, NothingEscapesTheCount
  <2>5. QED
        BY <2>2, <2>3, <2>4
<1> HIDE DEF taken, out
<1>6. today \in Nat /\ today' = today
      BY TodayIsNat DEF TypeOK, AgentCalls, today
<1>7. /\ left \in [Accounts -> [day : Nat, amount : Nat]]
      /\ spent \in [Accounts -> [day : Nat, amount : Nat]]
      /\ policy[a].daily_cap \in Int
      BY PoliciesAreNumbers DEF TypeOK
<1>8. \A b \in Accounts : /\ OfToday(left[b]).amount \in Nat /\ OfToday(spent[b]).amount \in Nat
                          /\ OfToday(left[b]).amount <= OfToday(spent[b]).amount
                          /\ left[b].day <= today
      BY <1>7 DEF OfToday, LeftIsCounted, current_spent
<1>9. ASSUME NEW b \in Accounts \ {a}
      PROVE  left'[b] = left[b] /\ spent'[b] = spent[b]
      BY <1>2, <1>3, <1>7
<1>10. CASE out > 0
  <2>1. taken > 0 /\ out > 0
        BY <1>5, <1>10
  <2>2. /\ left'[a] = [day |-> today, amount |-> OfToday(left[a]).amount + out]
        /\ spent'[a] = [day |-> today, amount |-> OfToday(spent[a]).amount + taken]
        BY <1>2, <1>3, <1>7, <2>1
  <2>3. OfToday(left[a]).amount + out <= OfToday(spent[a]).amount + taken
        BY <1>5, <1>8
  <2>4. left'[a].amount <= policy[a].daily_cap
        BY <1>4, <1>5, <1>7, <1>8, <2>1, <2>2, <2>3
  <2>5. /\ OfToday(left[a])'.amount <= OfToday(spent[a])'.amount
        /\ left'[a].day <= today'
        BY <1>6, <2>2, <2>3 DEF OfToday
  <2>6. QED
        BY <1>6, <1>8, <1>9, <2>4, <2>5 DEF LeftIsCounted, current_spent, OfToday
<1>11. CASE ~(out > 0)
  <2>1. left' = left
        BY <1>2, <1>7, <1>11
  <2>2. OfToday(spent[a]).amount <= OfToday(spent[a])'.amount
    <3>1. CASE taken > 0
      <4>1. spent'[a] = [day |-> today, amount |-> OfToday(spent[a]).amount + taken]
            BY <1>3, <1>7, <3>1
      <4>2. OfToday(spent[a])'.amount = OfToday(spent[a]).amount + taken
            BY <1>6, <4>1 DEF OfToday
      <4>3. QED
            BY <1>5, <1>8, <3>1, <4>2
    <3>2. CASE ~(taken > 0)
          BY <1>3, <1>6, <1>8, <3>2 DEF OfToday
    <3>3. QED
          BY <3>1, <3>2
  <2>3. OfToday(spent[a])'.amount \in Nat
    <3>1. spent' \in [Accounts -> [day : Nat, amount : Nat]]
          BY CheckedType DEF AgentCalls
    <3>2. QED
          BY <3>1 DEF OfToday
  <2>4. OfToday(left[a])'.amount <= OfToday(spent[a])'.amount
    <3>1. OfToday(left[a])' = OfToday(left[a])
          BY <1>6, <2>1 DEF OfToday
    <3>2. QED
          BY <1>8, <2>2, <2>3, <3>1
  <2>5. QED
        BY <1>6, <1>8, <1>9, <2>1, <2>4 DEF LeftIsCounted, current_spent, OfToday
<1>12. QED
      BY <1>10, <1>11

\* Whoever else acts, nothing leaves under the agent's signature.
LEMMA OthersKeepCount ==
    ASSUME LeftIsCounted, UNCHANGED <<left, spent, ledger>>
    PROVE  LeftIsCounted'
  BY DEF LeftIsCounted, current_spent, OfToday, today

LEMMA StepCounts ==
    ASSUME TypeOK, LeftIsCounted, [Next]_vars
    PROVE  /\ LeftIsCounted'
           /\ \A a \in Accounts : left'[a] # left[a] => left'[a].amount <= policy[a].daily_cap
<1>1. CASE \E a \in Accounts : AgentStep(a)
      BY <1>1, AgentCounts DEF AgentStep
<1>2. CASE UNCHANGED <<left, spent, ledger>>
      BY <1>2, OthersKeepCount
<1>3. ASSUME NEW a \in Accounts, OwnerStep(a)
      PROVE  UNCHANGED <<left, spent, ledger>>
      BY <1>3 DEF OwnerStep, set_controller, OwnerPays
<1>4. ASSUME NEW a \in Accounts, NEW c \in Controllers \cup {a}, ControllerStep(a, c)
      PROVE  UNCHANGED <<left, spent, ledger>>
      BY <1>4 DEF ControllerStep, set_policy, freeze, unfreeze, SetFrozen, recall
<1>5. ASSUME NEW x \in Payers, NEW s \in Assets, NEW y \in Accounts, NEW n \in Amounts, Pays(x, s, y, n)
      PROVE  UNCHANGED <<left, spent, ledger>>
      BY <1>5 DEF Pays
<1>6. CASE LedgerCloses
      BY <1>6, LedgerKeepsCount DEF LedgerCloses
<1>7. CASE UNCHANGED vars
      BY <1>2, <1>7 DEF vars
<1>8. QED
      BY <1>1, <1>2, <1>3, <1>4, <1>5, <1>6, <1>7 DEF Next

\* The daily cap holds for every policy and every authorisation: what leaves within a day is
\* within the cap, because each transfer of the capped asset is counted itself or uses up a
\* swap of its own that is counted.
THEOREM DailyCapHolds == Spec => DayCapHolds
<1>1. Init => LeftIsCounted
  <2> SUFFICES ASSUME Init, NEW a \in Accounts
               PROVE  OfToday(left[a]).amount <= OfToday(spent[a]).amount /\ left[a].day <= today
      BY DEF LeftIsCounted, current_spent
  <2>1. left[a] = [day |-> 0, amount |-> 0] /\ spent[a] = [day |-> 0, amount |-> 0] /\ ledger = 0
        BY DEF Init
  <2>2. today \in Nat
        BY <2>1, TodayIsNat
  <2>3. QED
        BY <2>1, <2>2 DEF OfToday
<1>2. TypeOK /\ LeftIsCounted /\ [Next]_vars => LeftIsCounted'
      BY StepCounts
<1>3. TypeOK /\ LeftIsCounted /\ [Next]_vars =>
        [\A a \in Accounts : left'[a] # left[a] => left'[a].amount <= policy[a].daily_cap]_vars
      BY StepCounts
<1>4. QED
      BY <1>1, <1>2, <1>3, TypeCorrect, PTL DEF Spec, DayCapHolds

-----------------------------------------------------------------------------
\* The preview of a swap.

\* What is suggested is one swap and the transfer that the router makes under it: the first
\* is no transfer, and the second is its input (matches_expected, lib.rs).
LEMMA SuggestedCalls ==
    ASSUME NEW a \in Accounts, NEW path \in DOMAIN pairOf, NEW amountIn, NEW minOut
    PROVE  LET cs == Suggested(a, path, amountIn, minOut) IN
           /\ DOMAIN cs = {1, 2}
           /\ IsSwap(policy[a], cs[1])
           /\ cs[1].path = path /\ cs[1].amount = amountIn /\ cs[1].amount_out_min = minOut
           /\ cs[1].to = a /\ cs[1].fn = "swap"
           /\ ~IsSwap(policy[a], cs[2])
           /\ cs[2].fn = "transfer"
           /\ ~IsSwapInput(a, policy[a], cs, 1) /\ IsSwapInput(a, policy[a], cs, 2)
  <1> DEFINE cs == Suggested(a, path, amountIn, minOut)
             expected == {j \in DOMAIN cs : IsSwap(policy[a], cs[j]) /\ IsInputOf(cs[2], cs[j])}
             earlier == {j \in 1..(2 - 1) : cs[j] = cs[2]}
  <1>1. /\ DOMAIN cs = {1, 2}
        /\ cs[1] = [contract |-> policy[a].dex_router, fn |-> "swap", to |-> a, path |-> path,
                    amount |-> amountIn, amount_out_min |-> minOut]
        /\ cs[2] = [contract |-> path[1], fn |-> "transfer", from |-> a, to |-> pairOf[path],
                    amount |-> amountIn]
    BY DEF Suggested
  <1> HIDE DEF cs
  <1>2. /\ cs[1].contract = policy[a].dex_router /\ cs[1].fn = "swap" /\ cs[1].to = a
        /\ cs[1].path = path /\ cs[1].amount = amountIn /\ cs[1].amount_out_min = minOut
        /\ cs[2].contract = path[1] /\ cs[2].fn = "transfer" /\ cs[2].from = a
        /\ cs[2].to = pairOf[path] /\ cs[2].amount = amountIn
    BY <1>1
  <1>3. IsSwap(policy[a], cs[1]) /\ ~IsSwap(policy[a], cs[2]) /\ IsInputOf(cs[2], cs[1])
    BY <1>2 DEF IsSwap, IsInputOf
  <1>4. expected = {1} /\ earlier = {}
    BY <1>1, <1>2, <1>3
  <1>5. Cardinality(earlier) = 0 /\ Cardinality(expected) = 1
    BY <1>4, FS_EmptySet, FS_Singleton
  <1>6. IsSwapInput(a, policy[a], cs, 2)
    <2> HIDE DEF expected, earlier
    <2>1. Cardinality(earlier) < Cardinality(expected)
      BY <1>5
    <2> QED BY <2>1, <1>2 DEF IsSwapInput, expected, earlier
  <1>7. ~IsSwapInput(a, policy[a], cs, 1)
    BY <1>2 DEF IsSwapInput
  <1> QED BY <1>1, <1>2, <1>3, <1>6, <1>7 DEF cs

\* It counts towards the caps as much as the preview counts: the swap does if it sells the
\* asset of the policy, and its transfer never (check_contexts, outflow).
LEMMA SuggestedOutflow ==
    ASSUME NEW a \in Accounts, policy[a].asset = usdc,
           NEW path \in DOMAIN pairOf, NEW amountIn \in Nat, NEW minOut
    PROVE  /\ outflow(a, policy[a], Suggested(a, path, amountIn, minOut)) = counted(path, amountIn)
           /\ counted(path, amountIn) \in Nat
  <1> DEFINE cs == Suggested(a, path, amountIn, minOut)
             f == [i \in DOMAIN cs |-> Outflow(a, policy[a], cs, i)]
  <1>1. counted(path, amountIn) \in Nat
    BY DEF counted
  <1>2. DOMAIN f = {1, 2} /\ f[1] = counted(path, amountIn) /\ f[2] = 0
    <2>1. /\ DOMAIN cs = {1, 2} /\ IsSwap(policy[a], cs[1])
          /\ cs[1].path = path /\ cs[1].amount = amountIn /\ cs[1].fn = "swap"
          /\ ~IsSwap(policy[a], cs[2]) /\ IsSwapInput(a, policy[a], cs, 2)
      BY SuggestedCalls
    <2> HIDE DEF cs
    <2>2. Outflow(a, policy[a], cs, 1) = counted(path, amountIn)
      BY <2>1 DEF Outflow, counted
    <2>3. Outflow(a, policy[a], cs, 2) = 0
      BY <2>1 DEF Outflow
    <2> QED BY <2>1, <2>2, <2>3
  <1> HIDE DEF f
  <1>3. IsFiniteSet({1, 2}) /\ {1, 2} \ {1} = {2}
    <2>1. IsFiniteSet({1} \cup {2})
      BY FS_Singleton, FS_AddElement
    <2>2. {1} \cup {2} = {1, 2} /\ {1, 2} \ {1} = {2}
      OBVIOUS
    <2> QED BY <2>1, <2>2
  <1>4. SumFunctionOnSet(f, {1, 2}) = f[1] + SumFunctionOnSet(f, {1, 2} \ {1})
    BY <1>1, <1>2, <1>3, SumWithout
  <1>5. SumFunctionOnSet(f, {2}) = f[2]
    BY <1>2, SumOfOne
  <1>6. SumFunctionOnSet(f, {1, 2}) = counted(path, amountIn)
    BY <1>1, <1>2, <1>3, <1>4, <1>5
  <1> QED BY <1>1, <1>2, <1>6 DEF outflow, SumFunction, f

\* Both calls pass exactly when the swap does.
LEMMA SuggestedChecks ==
    ASSUME NEW a \in Accounts, NEW path \in DOMAIN pairOf, NEW amountIn, NEW minOut
    PROVE  LET cs == Suggested(a, path, amountIn, minOut) IN
           /\ check_contexts(a, policy[a], cs) <=> check_swap(a, policy[a], cs[1])
           /\ check_swap(a, policy[a], cs[1]) <=>
                 /\ path \in policy[a].pairs
                 /\ amountIn > 0 /\ minOut > 0
                 /\ path[1] = policy[a].asset => amountIn <= policy[a].per_tx_cap
                 /\ policy[a].dex_factory # NoOne
  <1> DEFINE cs == Suggested(a, path, amountIn, minOut)
  <1>1. /\ DOMAIN cs = {1, 2} /\ IsSwap(policy[a], cs[1])
        /\ cs[1].path = path /\ cs[1].amount = amountIn /\ cs[1].amount_out_min = minOut
        /\ cs[1].to = a /\ cs[1].fn = "swap"
        /\ ~IsSwapInput(a, policy[a], cs, 1) /\ IsSwapInput(a, policy[a], cs, 2)
    BY SuggestedCalls
  <1>2. Len(path) = 2
    <2>1. PICK x \in Assets, y \in Assets : path = <<x, y>>
      BY PairsAreOfAssets
    <2> QED BY <2>1
  <1> HIDE DEF cs
  <1>3. IsAllowed(a, policy[a], cs, 2)
    BY <1>1 DEF IsAllowed
  <1>4. IsAllowed(a, policy[a], cs, 1) <=> check_swap(a, policy[a], cs[1])
    BY <1>1 DEF IsAllowed
  <1>5. check_contexts(a, policy[a], cs) <=> check_swap(a, policy[a], cs[1])
    BY <1>1, <1>3, <1>4 DEF check_contexts
  <1>6. check_swap(a, policy[a], cs[1]) <=>
                 /\ path \in policy[a].pairs
                 /\ amountIn > 0 /\ minOut > 0
                 /\ path[1] = policy[a].asset => amountIn <= policy[a].per_tx_cap
                 /\ policy[a].dex_factory # NoOne
    BY <1>1, <1>2 DEF check_swap
  <1> QED BY <1>5, <1>6 DEF cs

\* What __check_auth says of a suggested swap, in the terms of the preview.
LEMMA SuggestedPermits ==
    ASSUME NEW a \in Accounts, policy[a].asset = usdc,
           NEW path \in DOMAIN pairOf, NEW amountIn \in Nat, NEW minOut
    PROVE  Permits(a, policy[a].agent_key, Suggested(a, path, amountIn, minOut)) <=>
             /\ ~frozen[a] /\ ledger <= policy[a].expires_ledger
             /\ path \in policy[a].pairs
             /\ amountIn > 0 /\ minOut > 0
             /\ path[1] = usdc => amountIn <= policy[a].per_tx_cap
             /\ policy[a].dex_factory # NoOne
             /\ counted(path, amountIn) > 0 =>
                   current_spent(a).amount + counted(path, amountIn) <= policy[a].daily_cap
  <1>1. outflow(a, policy[a], Suggested(a, path, amountIn, minOut)) = counted(path, amountIn)
    BY SuggestedOutflow
  <1>2. check_contexts(a, policy[a], Suggested(a, path, amountIn, minOut)) <=>
             /\ path \in policy[a].pairs
             /\ amountIn > 0 /\ minOut > 0
             /\ path[1] = usdc => amountIn <= policy[a].per_tx_cap
             /\ policy[a].dex_factory # NoOne
    BY SuggestedChecks
  <1> QED BY <1>1, <1>2 DEF Permits

\* Preview and account agree in every state of the account that is well typed.
LEMMA VerdictsAgree ==
    ASSUME TypeOK
    PROVE  VerdictAgrees
  <1> SUFFICES ASSUME NEW a \in Accounts, Ordinary(policy[a]), NEW path \in DOMAIN pairOf,
                      NEW amountIn \in Orders, NEW minOut \in {0, 1}, NEW r \in Reads(a)
               PROVE  /\ Allowed(a, r, path, amountIn, minOut) /\ Complete(a, r)
                           => Permitted(a, path, amountIn, minOut)
                      /\ ~Allowed(a, r, path, amountIn, minOut) /\ Permitted(a, path, amountIn, minOut)
                           => path[1] # usdc /\ ~DayCapLeft(policy[a], r, 0)
    BY DEF VerdictAgrees
  <1> DEFINE p == policy[a]
             n == counted(path, amountIn)
             s == current_spent(a).amount
  <1>1. /\ p \in Policies
        /\ p.asset = usdc /\ p.per_tx_cap \in Int /\ p.per_tx_cap >= 0 /\ p.daily_cap \in Int
        /\ p.dex_router # NoOne => p.dex_factory # NoOne
        /\ p.expires_ledger \in Nat \ {0}
    BY PoliciesAreNumbers DEF TypeOK, Ordinary
  <1>2. amountIn \in Nat /\ n \in Nat /\ (path[1] = usdc => n = amountIn) /\ (path[1] # usdc => n = 0)
    BY OrdersAreNat DEF counted
  <1>3. ledger \in Nat /\ s \in Nat
    BY LedgersAreNat DEF TypeOK, current_spent, OfToday
  <1>4. r.spentToday \in {s, 0} /\ r.frozen \in {frozen[a], FALSE} /\ r.ledger \in {ledger, 0}
    BY DEF Reads
  <1>5. Permitted(a, path, amountIn, minOut) <=>
             /\ p.dex_router # NoOne
             /\ ~frozen[a] /\ ledger <= p.expires_ledger
             /\ path \in p.pairs
             /\ amountIn > 0 /\ minOut > 0
             /\ path[1] = usdc => amountIn <= p.per_tx_cap
             /\ p.dex_factory # NoOne
             /\ n > 0 => s + n <= p.daily_cap
    BY <1>1, <1>2, SuggestedPermits DEF Permitted
  <1>6. Allowed(a, r, path, amountIn, minOut) <=>
             /\ ~r.frozen
             /\ p.dex_router # NoOne
             /\ path \in p.pairs
             /\ minOut > 0 /\ amountIn > 0
             /\ ~(r.ledger # 0 /\ r.ledger > p.expires_ledger)
             /\ n <= p.per_tx_cap
             /\ r.spentToday + n <= p.daily_cap
    BY <1>1 DEF Allowed, DayCapLeft
  <1>7. Complete(a, r) => r.spentToday = s /\ r.frozen = frozen[a] /\ r.ledger = ledger
    BY DEF Complete
  <1>8. DayCapLeft(p, r, 0) <=> r.spentToday + 0 <= p.daily_cap
    BY DEF DayCapLeft
  <1> HIDE DEF p, n, s
  <1>9. ASSUME Allowed(a, r, path, amountIn, minOut), Complete(a, r)
        PROVE  Permitted(a, path, amountIn, minOut)
    BY <1>1, <1>2, <1>3, <1>5, <1>6, <1>7, <1>9
  <1>10. ASSUME ~Allowed(a, r, path, amountIn, minOut), Permitted(a, path, amountIn, minOut)
         PROVE  path[1] # usdc /\ ~DayCapLeft(p, r, 0)
    <2>1. ~(r.ledger # 0 /\ r.ledger > p.expires_ledger)
      BY <1>1, <1>3, <1>4, <1>5, <1>10
    <2>2. ~r.frozen
      <3>1. ~frozen[a]
        BY <1>5, <1>10
      <3>2. r.frozen = frozen[a] \/ r.frozen = FALSE
        BY <1>4
      <3> QED BY <3>1, <3>2, Zenon
    <2>3. n <= p.per_tx_cap
      BY <1>1, <1>2, <1>5, <1>10
    <2>4. ~(r.spentToday + n <= p.daily_cap)
      BY <2>2, <2>1, <2>3, <1>5, <1>6, <1>10
    <2>5. r.spentToday <= s /\ r.spentToday \in Nat
      BY <1>3, <1>4
    <2>6. n = 0
      BY <2>4, <2>5, <1>1, <1>2, <1>3, <1>5, <1>10
    <2>7. path[1] # usdc
      BY <2>6, <1>2, <1>5, <1>10
    <2> QED BY <2>4, <2>5, <2>6, <2>7, <1>1, <1>8
  <1> QED BY <1>9, <1>10 DEF p

\* Whatever owners, agents and controllers have done, what the preview refuses the account
\* refuses, and what it allows on a complete reading the account lets its agent do: for every
\* policy, amount and pair (dex.service.ts:83-115 against lib.rs:240-280).
THEOREM PreviewTellsTheTruth == Spec => []VerdictAgrees
<1>1. QED
      BY TypeCorrect, VerdictsAgree, PTL

=============================================================================
