-------------------------- MODULE CreditPoolProofs --------------------------
(***************************************************************************)
(* What holds of the pool and its accounts for every set of holders,       *)
(* accounts, policies, prices and amounts:                                 *)
(*  - a line can always be ended, because its account is under the pool's  *)
(*    control for good;                                                    *)
(*  - the books balance: totals are the sums of what they stand for, and   *)
(*    nothing is overdrawn;                                                *)
(*  - no rounding and no order of calls costs the holders of shares;       *)
(*  - the tokens of a line reach only whom they may reach;                 *)
(*  - what the backend hands out of a price, of the pool or of a freeze is *)
(*    no older than its caches allow.                                      *)
(*                                                                         *)
(* What an account does is taken from ReinkeyAccountProofs, instantiated   *)
(* with the pool's variables (Proved).                                     *)
(***************************************************************************)
EXTENDS CreditPool, ChainReadings, Sums

Proved == INSTANCE ReinkeyAccountProofs WITH Orders <- {}

\* The governing variables and the lines are functions on the accounts.
Shapes ==
    /\ policy \in [Accounts -> Policies]
    /\ frozen \in [Accounts -> BOOLEAN]
    /\ controller \in [Accounts -> Controllers \cup {NoOne}]
    /\ DOMAIN line = Accounts

\* The inductive invariant.
Inv == Shapes /\ LinesAreControlled

LEMMA InitEstablishes == Init => Inv
  BY DEF Init, Inv, Shapes, LinesAreControlled, Account!Init, NoLine

\* Shares, prices and payments touch neither lines nor governance (deposit, withdraw,
\* transfer, set_price_sources, PricesMove).
LEMMA SharesKeepLines ==
    ASSUME \/ \E x \in Investors, n \in Amounts : deposit(x, n)
           \/ \E x \in Investors, m \in 1..totalShares : withdraw(x, m)
           \/ \E x \in Investors, y \in Investors, m \in 1..totalShares : transfer(x, y, m)
           \/ \E c \in SourceChoices : set_price_sources(c)
           \/ PricesMove
    PROVE  UNCHANGED <<policy, frozen, controller, line>>
  BY DEF deposit, withdraw, transfer, set_price_sources, PricesMove

\* The agent, the owner's and other payments and time do not either (AgentCalls, OwnerPays,
\* recall, Pays, LedgerCloses of the account).
LEMMA SpendingKeepsLines ==
    ASSUME UNCHANGED poolVars,
           \/ \E a \in Accounts : Account!AgentStep(a)
           \/ \E a \in Accounts, s \in Assets, to \in Others, n \in Amounts :
                 Account!OwnerPays(a, s, to, n)
           \/ \E a \in Accounts : \E c \in (Controllers \cup {a}) \ {Pool} :
                 \E s \in Assets, to \in Others, n \in Amounts : Account!recall(a, c, s, to, n)
           \/ \E x \in Payers, s \in Assets, y \in Accounts, n \in Amounts : Account!Pays(x, s, y, n)
           \/ Account!LedgerCloses
    PROVE  UNCHANGED <<policy, frozen, controller, line>>
  BY DEF poolVars, Account!AgentStep, Account!AgentCalls, Account!OwnerPays, Account!recall,
         Account!Pays, Account!LedgerCloses

LEMMA UnchangedKeeps ==
    ASSUME Inv, UNCHANGED <<policy, frozen, controller, line>>
    PROVE  Inv'
  BY DEF Inv, Shapes, LinesAreControlled, NoLine

\* A new line is under the pool's control (the check of get_controller in open_line).
LEMMA OpenLineKeeps ==
    ASSUME Inv, NEW a \in Accounts, NEW n \in Limits, NEW x \in Beneficiaries, open_line(a, n, x)
    PROVE  Inv'
<1>1. Shapes'
      BY DEF Inv, Shapes, open_line
<1>2. controller'[a] = Pool /\ line'[a].open
      BY DEF Inv, Shapes, open_line
<1>3. ASSUME NEW b \in Accounts, b # a
      PROVE  line'[b] = line[b] /\ controller'[b] = controller[b] /\ frozen'[b] = frozen[b]
      BY <1>3 DEF Inv, Shapes, open_line
<1>4. QED
      BY <1>1, <1>2, <1>3 DEF Inv, LinesAreControlled, NoLine

\* A line that ends leaves its account frozen (liquidate, close_line).
LEMMA EndLineKeeps ==
    ASSUME Inv, NEW a \in Accounts, line[a].open, EndLine(a)
    PROVE  Inv'
<1>1. Shapes'
      BY DEF Inv, Shapes, EndLine
<1>2. controller'[a] = Pool
      BY DEF Inv, LinesAreControlled, EndLine, NoLine
<1>3. frozen'[a]
      BY DEF Inv, Shapes, EndLine
<1>4. ASSUME NEW b \in Accounts, b # a
      PROVE  line'[b] = line[b] /\ controller'[b] = controller[b] /\ frozen'[b] = frozen[b]
      BY <1>4 DEF Inv, Shapes, EndLine
<1>5. QED
      BY <1>1, <1>2, <1>3, <1>4 DEF Inv, LinesAreControlled, NoLine

\* An account that its owner, or a controller other than the pool, can still govern has no
\* line (OwnerSigns, admin_auth).
LEMMA OthersGovernNoLine ==
    ASSUME Inv, NEW a \in Accounts, NEW c,
           \/ Account!OwnerSigns(a)
           \/ c # Pool /\ Account!admin_auth(a, c)
    PROVE  line[a] = NoLine
  BY PoolIsAController DEF Inv, LinesAreControlled, Account!OwnerSigns, Account!admin_auth

\* What the owner or another controller does to the governance of an account (set_controller,
\* set_policy, freeze, unfreeze).
LEMMA GovernanceKeeps ==
    ASSUME Inv, UNCHANGED poolVars, NEW a \in Accounts,
           \/ \E c \in Controllers : Account!set_controller(a, c)
           \/ \E c \in (Controllers \cup {a}) \ {Pool}, p \in Policies : Account!set_policy(a, c, p)
           \/ \E c \in (Controllers \cup {a}) \ {Pool}, to \in BOOLEAN : Account!SetFrozen(a, c, to)
    PROVE  Inv'
<1>1. line[a] = NoLine
  <2>1. CASE \E c \in Controllers : Account!set_controller(a, c)
        BY <2>1, OthersGovernNoLine DEF Account!set_controller
  <2>2. CASE \E c \in (Controllers \cup {a}) \ {Pool}, p \in Policies : Account!set_policy(a, c, p)
        BY <2>2, OthersGovernNoLine DEF Account!set_policy
  <2>3. CASE \E c \in (Controllers \cup {a}) \ {Pool}, to \in BOOLEAN : Account!SetFrozen(a, c, to)
        BY <2>3, OthersGovernNoLine DEF Account!SetFrozen
  <2>4. QED
        BY <2>1, <2>2, <2>3
<1>2. line' = line
      BY DEF poolVars
<1>3. Shapes'
      BY <1>2 DEF Inv, Shapes, Account!set_controller, Account!set_policy, Account!SetFrozen
<1>4. ASSUME NEW b \in Accounts, b # a
      PROVE  controller'[b] = controller[b] /\ frozen'[b] = frozen[b]
      BY <1>4 DEF Inv, Shapes, Account!set_controller, Account!set_policy, Account!SetFrozen
<1>5. QED
      BY <1>1, <1>2, <1>3, <1>4 DEF Inv, LinesAreControlled, NoLine

LEMMA PoolStepKeeps == Inv /\ PoolStep => Inv'
<1> SUFFICES ASSUME Inv, PoolStep
             PROVE  Inv'
    OBVIOUS
<1>1. CASE \E a \in Accounts, n \in Limits, x \in Beneficiaries : open_line(a, n, x)
      BY <1>1, OpenLineKeeps
<1>2. CASE \E a \in Accounts : liquidate(a)
      BY <1>2, EndLineKeeps DEF liquidate
<1>3. CASE \E a \in Accounts, x \in Beneficiaries \cup {Admin} : close_line(x, a)
      BY <1>3, EndLineKeeps DEF close_line
<1>4. QED
      BY <1>1, <1>2, <1>3, SharesKeepLines, UnchangedKeeps DEF PoolStep

LEMMA AccountStepKeeps == Inv /\ AccountStep => Inv'
<1> SUFFICES ASSUME Inv, AccountStep
             PROVE  Inv'
    OBVIOUS
<1>1. UNCHANGED poolVars
      BY DEF AccountStep
<1>2. CASE \E a \in Accounts : Account!AgentStep(a)
      BY <1>1, <1>2, SpendingKeepsLines, UnchangedKeeps
<1>3. ASSUME NEW a \in Accounts, Account!OwnerStep(a)
      PROVE  Inv'
      BY <1>1, <1>3, SpendingKeepsLines, UnchangedKeeps, GovernanceKeeps DEF Account!OwnerStep
<1>4. ASSUME NEW a \in Accounts, NEW c \in (Controllers \cup {a}) \ {Pool}, Account!ControllerStep(a, c)
      PROVE  Inv'
      BY <1>1, <1>4, SpendingKeepsLines, UnchangedKeeps, GovernanceKeeps
      DEF Account!ControllerStep, Account!freeze, Account!unfreeze
<1>5. CASE \/ \E x \in Payers, s \in Assets, y \in Accounts, n \in Amounts : Account!Pays(x, s, y, n)
           \/ Account!LedgerCloses
      BY <1>1, <1>5, SpendingKeepsLines, UnchangedKeeps
<1>6. QED
      BY <1>2, <1>3, <1>4, <1>5 DEF AccountStep

\* A line is always under the pool's control: its account's controller is the pool, which is
\* what freeze and recall ask for, and once it has ended the account is frozen for good,
\* whatever owners, agents, other controllers and prices do meanwhile.
THEOREM LinesStayControlled == Spec => []LinesAreControlled
<1>1. Inv /\ [Next]_vars => Inv'
  <2> SUFFICES ASSUME Inv, [Next]_vars
               PROVE  Inv'
      OBVIOUS
  <2>1. CASE PoolStep
        BY <2>1, PoolStepKeeps
  <2>2. CASE AccountStep
        BY <2>2, AccountStepKeeps
  <2>3. CASE PricesMove
        BY <2>3, SharesKeepLines, UnchangedKeeps
  <2>4. CASE UNCHANGED vars
        BY <2>4, UnchangedKeeps DEF vars, accountVars, poolVars
  <2>5. QED
        BY <2>1, <2>2, <2>3, <2>4 DEF Next
<1>2. Inv => LinesAreControlled
      BY DEF Inv
<1>3. QED
      BY <1>1, <1>2, InitEstablishes, PTL DEF Spec

-----------------------------------------------------------------------------
\* The accounts under the pool are the ones ReinkeyAccountProofs proves things about.
LEMMA SameType == (Account!TypeOK <=> Proved!TypeOK) /\ (Account!TypeOK <=> Proved!TypeOK)'
  BY DEF Account!TypeOK, Account!Addresses, Proved!TypeOK, Proved!Addresses

LEMMA SameTransfer ==
    \A s, x, y, n : Account!Transfer(s, x, y, n) <=> Proved!Transfer(s, x, y, n)
  BY DEF Account!Transfer, Proved!Transfer

LEMMA SameAuthority == \A a, c : Account!admin_auth(a, c) <=> Proved!admin_auth(a, c)
  BY DEF Account!admin_auth, Account!OwnerSigns, Proved!admin_auth, Proved!OwnerSigns

LEMMA SameOwnerStep == \A a : Account!OwnerStep(a) => Proved!OwnerStep(a)
  BY SameTransfer DEF Account!OwnerStep, Account!set_controller, Account!OwnerPays, Account!OwnerSigns,
         Proved!OwnerStep, Proved!set_controller, Proved!OwnerPays, Proved!OwnerSigns

LEMMA SameControllerStep == \A a, c : Account!ControllerStep(a, c) => Proved!ControllerStep(a, c)
  BY SameTransfer, SameAuthority
  DEF Account!ControllerStep, Account!set_policy, Account!freeze, Account!unfreeze,
      Account!SetFrozen, Account!recall, Proved!ControllerStep, Proved!set_policy,
      Proved!freeze, Proved!unfreeze, Proved!SetFrozen, Proved!recall

LEMMA SameChecks ==
    /\ \A p, c : Account!IsSwap(p, c) <=> Proved!IsSwap(p, c)
    /\ \A a, p, c : Account!check_swap(a, p, c) <=> Proved!check_swap(a, p, c)
    /\ \A t, c : Account!IsInputOf(t, c) <=> Proved!IsInputOf(t, c)
    /\ \A p, cs : Account!has_channel_call(p, cs) <=> Proved!has_channel_call(p, cs)
  BY DEF Account!IsSwap, Account!check_swap, Account!IsInputOf, Account!has_channel_call,
         Proved!IsSwap, Proved!check_swap, Proved!IsInputOf, Proved!has_channel_call

\* What the library computes is the same in both.
LEMMA SameLibrary ==
    /\ \A S : Account!Cardinality(S) = Proved!Cardinality(S)
    /\ \A S : Account!IsFiniteSet(S) <=> Proved!IsFiniteSet(S)
    /\ \A f, S : Account!SumFunctionOnSet(f, S) = Proved!SumFunctionOnSet(f, S)
    /\ \A f : Account!SumFunction(f) = Proved!SumFunction(f)
<1>1. \A f, S : Account!SumFunctionOnSet(f, S) = Proved!SumFunctionOnSet(f, S)
      BY DEF Account!SumFunctionOnSet, Account!FoldFunctionOnSet, Account!MapThenFoldSet,
             Proved!SumFunctionOnSet, Proved!FoldFunctionOnSet, Proved!MapThenFoldSet
<1>2. QED
      BY <1>1 DEF Account!Cardinality, Account!IsFiniteSet, Account!SumFunction,
                  Proved!Cardinality, Proved!IsFiniteSet, Proved!SumFunction

LEMMA SameInput ==
    \A a, p, cs, i : Account!IsSwapInput(a, p, cs, i) <=> Proved!IsSwapInput(a, p, cs, i)
<1>1. SUFFICES ASSUME NEW a, NEW p, NEW cs, NEW i
               PROVE  Account!IsSwapInput(a, p, cs, i) <=> Proved!IsSwapInput(a, p, cs, i)
      OBVIOUS
<1>2. {j \in DOMAIN cs : Account!IsSwap(p, cs[j]) /\ Account!IsInputOf(cs[i], cs[j])}
        = {j \in DOMAIN cs : Proved!IsSwap(p, cs[j]) /\ Proved!IsInputOf(cs[i], cs[j])}
      BY SameChecks
<1>3. QED
      BY <1>2, SameLibrary DEF Account!IsSwapInput, Proved!IsSwapInput

LEMMA SameAllowed ==
    \A a, p, cs, i : Account!IsAllowed(a, p, cs, i) <=> Proved!IsAllowed(a, p, cs, i)
  BY SameChecks, SameInput DEF Account!IsAllowed, Proved!IsAllowed

LEMMA SameOutflow == \A a, p, cs : Account!outflow(a, p, cs) = Proved!outflow(a, p, cs)
<1>1. SUFFICES ASSUME NEW a, NEW p, NEW cs
               PROVE  Account!outflow(a, p, cs) = Proved!outflow(a, p, cs)
      OBVIOUS
<1>2. ASSUME NEW i
      PROVE  Account!Outflow(a, p, cs, i) = Proved!Outflow(a, p, cs, i)
      BY SameChecks, SameInput DEF Account!Outflow, Proved!Outflow
<1>3. [i \in DOMAIN cs |-> Account!Outflow(a, p, cs, i)] = [i \in DOMAIN cs |-> Proved!Outflow(a, p, cs, i)]
      BY <1>2
<1>4. QED
      BY <1>3, SameLibrary DEF Account!outflow, Proved!outflow

LEMMA SameTransfers ==
    /\ \A cs : Account!Transfers(cs) = Proved!Transfers(cs)
    /\ \A cs, calls : Account!Amount(cs, calls) = Proved!Amount(cs, calls)
    /\ \A a, cs, done : Account!Transferred(a, cs, done) <=> Proved!Transferred(a, cs, done)
<1>1. \A cs, calls : Account!Amount(cs, calls) = Proved!Amount(cs, calls)
      BY SameLibrary DEF Account!Amount, Proved!Amount
<1>2. \A a, cs, done : Account!Moved(a, cs, done) = Proved!Moved(a, cs, done)
      BY <1>1 DEF Account!Moved, Account!Addresses, Proved!Moved, Proved!Addresses
<1>3. QED
      BY <1>1, <1>2 DEF Account!Transfers, Account!Transferred, Account!Addresses,
                        Proved!Transfers, Proved!Transferred, Proved!Addresses

LEMMA SameDay ==
    /\ Account!today = Proved!today
    /\ \A s : Account!OfToday(s) = Proved!OfToday(s)
    /\ \A a : Account!current_spent(a) = Proved!current_spent(a)
  BY DEF Account!today, Account!OfToday, Account!current_spent,
         Proved!today, Proved!OfToday, Proved!current_spent

LEMMA SameAuth == \A a, k, cs : Account!check_auth(a, k, cs) <=> Proved!check_auth(a, k, cs)
  BY SameOutflow, SameDay, SameAllowed
  DEF Account!check_auth, Account!Permits, Account!check_contexts,
      Proved!check_auth, Proved!Permits, Proved!check_contexts

LEMMA SameAgentStep == \A a : Account!AgentStep(a) => Proved!AgentStep(a)
<1>1. ASSUME NEW a, NEW k, NEW cs, Account!AgentCalls(a, k, cs)
      PROVE  Proved!AgentCalls(a, k, cs)
  <2>1. PICK done \in SUBSET Account!Transfers(cs) :
           /\ Account!Transferred(a, cs, done)
           /\ LET out == Account!Amount(cs, {i \in done : cs[i].contract = policy[a].asset}) IN
              left' = [left EXCEPT ![a] =
                         IF out > 0 THEN [day |-> Account!today, amount |-> Account!OfToday(@).amount + out]
                         ELSE @]
        BY <1>1 DEF Account!AgentCalls
  <2>2. Proved!check_auth(a, k, cs)
        BY <1>1, SameAuth DEF Account!AgentCalls
  <2>3. done \in SUBSET Proved!Transfers(cs) /\ Proved!Transferred(a, cs, done)
        BY <2>1, SameTransfers
  <2>4. LET out == Proved!Amount(cs, {i \in done : cs[i].contract = policy[a].asset}) IN
        left' = [left EXCEPT ![a] =
                   IF out > 0 THEN [day |-> Proved!today, amount |-> Proved!OfToday(@).amount + out]
                   ELSE @]
        BY <2>1, SameTransfers, SameDay
  <2>5. by' = k /\ UNCHANGED <<policy, frozen, controller, ledger>>
        BY <1>1 DEF Account!AgentCalls
  <2>6. QED
        BY <2>2, <2>3, <2>4, <2>5 DEF Proved!AgentCalls
<1>2. QED
      BY <1>1 DEF Account!AgentStep, Proved!AgentStep

LEMMA SamePays == \A x, s, y, n : Account!Pays(x, s, y, n) => Proved!Pays(x, s, y, n)
  BY SameTransfer DEF Account!Pays, Proved!Pays

LEMMA SameAssumptions ==
    /\ Proved!NoOneIsNoAddress /\ Proved!PayersAreOthers /\ Proved!KeysAreNoAddresses
    /\ Proved!DayIsPositive /\ Proved!LedgersAreNat
    /\ Proved!TotalsAreNat /\ Proved!PaymentsAreNat
    /\ Proved!CallsAreWellFormed /\ Proved!PoliciesAreNumbers
    /\ Proved!PairsAreOfAssets /\ Proved!OrdersAreNat
<1>1. /\ Proved!NoOneIsNoAddress /\ Proved!PayersAreOthers /\ Proved!KeysAreNoAddresses
      /\ Proved!DayIsPositive /\ Proved!LedgersAreNat
      /\ Proved!TotalsAreNat /\ Proved!PaymentsAreNat
      BY AccountsAreSound
      DEF Account!NoOneIsNoAddress, Account!PayersAreOthers, Account!KeysAreNoAddresses,
          Account!DayIsPositive, Account!LedgersAreNat, Account!TotalsAreNat,
          Account!PaymentsAreNat, Account!Addresses,
          Proved!NoOneIsNoAddress, Proved!PayersAreOthers, Proved!KeysAreNoAddresses,
          Proved!DayIsPositive, Proved!LedgersAreNat, Proved!TotalsAreNat,
          Proved!PaymentsAreNat, Proved!Addresses
<1>2. /\ Proved!CallsAreWellFormed /\ Proved!PoliciesAreNumbers
      /\ Proved!PairsAreOfAssets /\ Proved!OrdersAreNat
      BY AccountsAreSound, SameLibrary
      DEF Account!CallsAreWellFormed, Account!PoliciesAreNumbers, Account!PairsAreOfAssets,
          Proved!CallsAreWellFormed, Proved!PoliciesAreNumbers, Proved!PairsAreOfAssets,
          Proved!OrdersAreNat
<1>3. QED
      BY <1>1, <1>2

\* What happens to the accounts between the pool's calls is a step of theirs.
LEMMA AccountNext == AccountStep => Proved!Next
<1>1. Account!LedgerCloses => Proved!LedgerCloses
      BY DEF Account!LedgerCloses, Proved!LedgerCloses
<1>2. QED
      BY <1>1, SameOwnerStep, SameControllerStep, SameAgentStep, SamePays DEF AccountStep, Proved!Next

\* It keeps the types, and takes nothing from the pool.
LEMMA AccountsKeepType ==
    ASSUME Account!TypeOK, AccountStep
    PROVE  /\ Account!TypeOK'
           /\ \A s \in Assets : balance'[s][Pool] >= balance[s][Pool]
<1>1. Proved!TypeOK /\ [Proved!Next]_(Proved!vars)
      BY SameType, AccountNext
<1>2. Proved!TypeOK'
      BY <1>1, SameAssumptions, Proved!TypeStep
<1>3. \A s \in Assets : balance'[s][Pool] >= balance[s][Pool]
      BY <1>1, SameAssumptions, PoolIsAController, Proved!OthersKeepTokens
<1>4. QED
      BY <1>2, <1>3, SameType

-----------------------------------------------------------------------------
\* Transfers, prices and rounding.

LEMMA AfterMoves ==
    ASSUME NEW b \in [Assets -> [Account!Addresses -> Nat]], NEW s \in Assets,
           NEW x \in Account!Addresses, NEW y, NEW n \in Nat, n <= b[s][x]
    PROVE  /\ After(b, s, x, y, n) \in [Assets -> [Account!Addresses -> Nat]]
           /\ \A t \in Assets \ {s} : After(b, s, x, y, n)[t] = b[t]
           /\ \A z \in Account!Addresses \ {x, y} : After(b, s, x, y, n)[s][z] = b[s][z]
           /\ After(b, s, x, y, n)[s][x] = IF x = y THEN b[s][x] ELSE b[s][x] - n
           /\ y \in Account!Addresses /\ x # y => After(b, s, x, y, n)[s][y] = b[s][y] + n
<1> DEFINE c == [b EXCEPT ![s][x] = @ - n]
<1>1. b[s] \in [Account!Addresses -> Nat] /\ b[s][x] - n \in Nat
      OBVIOUS
<1>2. /\ c \in [Assets -> [Account!Addresses -> Nat]] /\ c[s][x] = b[s][x] - n
      /\ \A t \in Assets \ {s} : c[t] = b[t]
      /\ \A z \in Account!Addresses \ {x} : c[s][z] = b[s][z]
      BY <1>1
<1>3. After(b, s, x, y, n) = [c EXCEPT ![s][y] = @ + n]
      BY DEF After
<1> HIDE DEF c
<1> DEFINE d == [c EXCEPT ![s][y] = @ + n]
<1>4. /\ d \in [Assets -> [Account!Addresses -> Nat]]
      /\ \A t \in Assets \ {s} : d[t] = c[t]
      /\ \A z \in Account!Addresses \ {y} : d[s][z] = c[s][z]
      /\ y \in Account!Addresses => d[s][y] = c[s][y] + n
  <2>1. c[s] \in [Account!Addresses -> Nat]
        BY <1>2
  <2>2. CASE y \in Account!Addresses
        BY <1>2, <2>1, <2>2
  <2>3. CASE y \notin Account!Addresses
        BY <1>2, <2>1, <2>3
  <2>4. QED
        BY <2>2, <2>3
<1> HIDE DEF d
<1>5. QED
      BY <1>1, <1>2, <1>3, <1>4 DEF d

\* Nobody but the payer loses by a transfer, and nobody but the receiver gains.
LEMMA OneLosesOneGains ==
    ASSUME NEW b \in [Assets -> [Account!Addresses -> Nat]], NEW s \in Assets,
           NEW x \in Account!Addresses, NEW y, NEW n \in Nat, n <= b[s][x],
           NEW t \in Assets, NEW z \in Account!Addresses
    PROVE  /\ z # x => After(b, s, x, y, n)[t][z] >= b[t][z]
           /\ z # y => After(b, s, x, y, n)[t][z] <= b[t][z]
<1>1. b[t][z] \in Nat
      OBVIOUS
<1>2. /\ t # s => After(b, s, x, y, n)[t][z] = b[t][z]
      /\ z \notin {x, y} => After(b, s, x, y, n)[s][z] = b[s][z]
      /\ After(b, s, x, y, n)[s][x] = IF x = y THEN b[s][x] ELSE b[s][x] - n
      /\ y \in Account!Addresses /\ x # y => After(b, s, x, y, n)[s][y] = b[s][y] + n
      BY AfterMoves
<1> DEFINE m == After(b, s, x, y, n)[t][z]
<1>3. t # s => m = b[t][z]
      BY <1>2
<1>4. t = s /\ z \notin {x, y} => m = b[t][z]
      BY <1>2
<1>5. t = s /\ z = x => m = IF x = y THEN b[t][z] ELSE b[t][z] - n
      BY <1>2
<1>6. t = s /\ z = y /\ x # y => m = b[t][z] + n
      BY <1>2
<1> HIDE DEF m
<1>7. /\ z # x => m >= b[t][z]
      /\ z # y => m <= b[t][z]
      BY <1>1, <1>3, <1>4, <1>5, <1>6
<1>8. QED
      BY <1>7 DEF m

LEMMA PoolIsAddress == /\ Pool \in Account!Addresses /\ Pool \notin Accounts
                       /\ Accounts \subseteq Account!Addresses
  BY PoolIsAController, AccountsAreSound DEF Account!PayersAreOthers, Account!Addresses

LEMMA DivBounds ==
    ASSUME NEW n \in Nat, NEW d \in Nat \ {0}
    PROVE  n \div d \in Nat /\ (n \div d) * d <= n
  OBVIOUS

\* The price is one that some source quotes (price).
LEMMA PriceIsNat ==
    ASSUME TypeOK, known # {}
    PROVE  price \in Nat
<1>1. known \subseteq Nat
      BY PricesAreNat DEF TypeOK, known
<1>2. known \subseteq {quotes["oracle"], quotes["pair"]}
      BY PricesAreNat DEF TypeOK, known
<1>3. \E x \in known : \A y \in known : x <= y
  <2>1. ASSUME NEW p, NEW q, NEW k \in SUBSET Nat, k # {}, k \subseteq {p, q}
        PROVE  \E x \in k : \A y \in k : x <= y
    <3>1. CASE p \in k /\ q \in k
      <4>1. p \in Nat /\ q \in Nat /\ (p <= q \/ q <= p)
            BY <2>1, <3>1
      <4>2. QED
            BY <2>1, <3>1, <4>1
    <3>2. CASE ~(p \in k /\ q \in k)
      <4>1. PICK z \in k : TRUE
            BY <2>1
      <4>2. k = {z} /\ z \in Nat
            BY <2>1, <3>2
      <4>3. QED
            BY <4>2
    <3>3. QED
          BY <3>1, <3>2
  <2>2. QED
        BY <1>1, <1>2, <2>1
<1>4. QED
      BY <1>1, <1>3 DEF price, Min

\* What the pool has, of balances b and with d owed to it, at price p.
Worth(b, d, p) == b[usdc][Pool] + d + (b[xlm][Pool] * p) \div SCALE

LEMMA AssetsAreNat ==
    ASSUME TypeOK
    PROVE  /\ AssetsKnown => total_assets \in Nat
           /\ known # {} => total_assets = Worth(balance, totalDebt, price) /\ AssetsKnown
<1>1. balance[usdc][Pool] \in Nat /\ balance[xlm][Pool] \in Nat /\ totalDebt \in Nat
      BY PoolIsAddress, TokensDiffer DEF TypeOK, Account!TypeOK
<1>2. CASE known # {}
  <2>1. price \in Nat
        BY <1>2, PriceIsNat
  <2>2. balance[xlm][Pool] * price \in Nat
        BY <1>1, <2>1
  <2>3. (balance[xlm][Pool] * price) \div SCALE \in Nat
        BY <2>2, DivBounds DEF SCALE
  <2>4. balance[xlm][Pool] = 0 => (balance[xlm][Pool] * price) \div SCALE = 0
        BY <2>1 DEF SCALE
  <2>5. QED
        BY <1>1, <1>2, <2>3, <2>4 DEF total_assets, Worth, xlm_value, AssetsKnown
<1>3. CASE known = {}
      BY <1>1, <1>3 DEF total_assets, AssetsKnown
<1>4. QED
      BY <1>2, <1>3

-----------------------------------------------------------------------------
\* The books.

LEMMA AccountsTyped ==
    ASSUME Account!TypeOK, balance' \in [Assets -> [Account!Addresses -> Nat]],
           frozen' \in [Accounts -> BOOLEAN], UNCHANGED <<policy, spent, controller, ledger, left>>
    PROVE  Account!TypeOK'
  BY DEF Account!TypeOK

\* A change to the shares of x is a change to their sum.
LEMMA SharesSum ==
    ASSUME TypeOK, shares' \in [Investors -> Nat], NEW x \in Investors,
           \A y \in Investors \ {x} : shares'[y] = shares[y]
    PROVE  SumFunctionOnSet(shares, Investors)' =
              SumFunctionOnSet(shares, Investors) + shares'[x] - shares[x]
  BY SumChanges, HoldersAreAddresses DEF TypeOK

LEMMA DepositKeeps ==
    ASSUME BooksBalance, NEW x \in Investors, NEW n \in Amounts, deposit(x, n)
    PROVE  BooksBalance'
<1>1. n \in Nat /\ x \in Account!Addresses /\ TypeOK
      BY AccountsAreSound, HoldersAreAddresses DEF Account!PaymentsAreNat, BooksBalance
<1>2. balance' \in [Assets -> [Account!Addresses -> Nat]]
      BY <1>1, AfterMoves, TokensDiffer DEF deposit, TypeOK, Account!TypeOK
<1>3. minted(n) \in Nat
  <2>1. total_assets \in Nat /\ totalShares \in Nat
        BY <1>1, AssetsAreNat DEF deposit, TypeOK
  <2>2. n * totalShares \in Nat
        BY <1>1, <2>1
  <2>3. total_assets # 0 => (n * totalShares) \div total_assets \in Nat
        BY <2>1, <2>2, DivBounds
  <2>4. QED
        BY <1>1, <2>3 DEF minted
<1>4. shares' \in [Investors -> Nat] /\ shares'[x] = shares[x] + minted(n)
      BY <1>1, <1>3 DEF deposit, TypeOK
<1>5. TypeOK'
  <2>1. Account!TypeOK'
        BY <1>1, <1>2, AccountsTyped DEF deposit, TypeOK, Account!TypeOK
  <2>2. QED
        BY <1>1, <1>3, <1>4, <2>1 DEF deposit, TypeOK
<1>6. totalShares' = SumFunctionOnSet(shares, Investors)'
  <2>1. SumFunctionOnSet(shares, Investors)' =
              SumFunctionOnSet(shares, Investors) + shares'[x] - shares[x]
        BY <1>1, <1>4, SharesSum DEF deposit, TypeOK
  <2>2. QED
        BY <1>1, <1>3, <1>4, <2>1 DEF deposit, TypeOK, BooksBalance
<1>7. QED
      BY <1>5, <1>6 DEF deposit, BooksBalance

\* Nobody has more shares than there are, so that there are some to withdraw.
LEMMA WithdrawKeeps ==
    ASSUME BooksBalance, NEW x \in Investors, NEW m \in 1..totalShares, withdraw(x, m)
    PROVE  BooksBalance'
<1>1. /\ m \in Nat /\ x \in Account!Addresses /\ TypeOK /\ m <= shares[x] /\ m > 0
      /\ shares \in [Investors -> Nat] /\ totalShares \in Nat
      BY HoldersAreAddresses DEF BooksBalance, TypeOK, withdraw
<1>2. shares[x] <= totalShares
      BY <1>1, SumBoundsEach, HoldersAreAddresses DEF BooksBalance
<1>3. redeemed(m) \in Nat
  <2>1. total_assets \in Nat
        BY <1>1, AssetsAreNat DEF withdraw
  <2>2. m * total_assets \in Nat /\ totalShares \in Nat \ {0}
        BY <1>1, <1>2, <2>1
  <2>3. QED
        BY <2>2, DivBounds DEF redeemed
<1>4. balance' \in [Assets -> [Account!Addresses -> Nat]]
      BY <1>1, <1>3, AfterMoves, TokensDiffer, PoolIsAddress DEF withdraw, TypeOK, Account!TypeOK
<1>5. shares' \in [Investors -> Nat] /\ shares'[x] = shares[x] - m
      BY <1>1 DEF withdraw
<1>6. TypeOK'
  <2>1. Account!TypeOK'
        BY <1>1, <1>4, AccountsTyped DEF withdraw, TypeOK, Account!TypeOK
  <2>2. QED
        BY <1>1, <1>2, <1>5, <2>1 DEF withdraw, TypeOK
<1>7. totalShares' = SumFunctionOnSet(shares, Investors)'
  <2>1. SumFunctionOnSet(shares, Investors)' =
              SumFunctionOnSet(shares, Investors) + shares'[x] - shares[x]
        BY <1>1, <1>5, SharesSum DEF withdraw
  <2>2. QED
        BY <1>1, <1>5, <2>1 DEF withdraw, BooksBalance
<1>8. QED
      BY <1>6, <1>7 DEF withdraw, BooksBalance

LEMMA TransferKeeps ==
    ASSUME BooksBalance, NEW x \in Investors, NEW y \in Investors, NEW m \in 1..totalShares,
           transfer(x, y, m)
    PROVE  BooksBalance'
<1>1. /\ m \in Nat /\ TypeOK /\ m <= shares[x]
      /\ shares \in [Investors -> Nat] /\ totalShares \in Nat
      BY DEF BooksBalance, TypeOK, transfer
<1> DEFINE mid == [shares EXCEPT ![x] = @ - m]
<1>2. /\ mid \in [Investors -> Nat] /\ mid[x] = shares[x] - m
      /\ \A z \in Investors \ {x} : mid[z] = shares[z]
      BY <1>1
<1>3. /\ shares' \in [Investors -> Nat] /\ shares'[y] = mid[y] + m
      /\ \A z \in Investors \ {y} : shares'[z] = mid[z]
  <2>1. shares' = [mid EXCEPT ![y] = @ + m]
        BY DEF transfer
  <2> HIDE DEF mid
  <2>2. QED
        BY <1>1, <1>2, <2>1
<1> HIDE DEF mid
<1>4. SumFunctionOnSet(mid, Investors) = SumFunctionOnSet(shares, Investors) + mid[x] - shares[x]
      BY <1>1, <1>2, SumChanges, HoldersAreAddresses
<1>5. SumFunctionOnSet(shares', Investors) = SumFunctionOnSet(mid, Investors) + shares'[y] - mid[y]
      BY <1>2, <1>3, SumChanges, HoldersAreAddresses
<1>6. totalShares' = SumFunctionOnSet(shares, Investors)'
  <2>1. mid[y] \in Nat /\ totalShares = SumFunctionOnSet(shares, Investors) /\ totalShares' = totalShares
        BY <1>2 DEF transfer, BooksBalance
  <2>2. QED
        BY <1>1, <1>2, <1>3, <1>4, <1>5, <2>1
<1>7. TypeOK'
  <2>1. Account!TypeOK'
        BY <1>1 DEF transfer, TypeOK, Account!TypeOK
  <2>2. QED
        BY <1>1, <1>3, <2>1 DEF transfer, TypeOK
<1>8. QED
      BY <1>6, <1>7 DEF transfer, BooksBalance

LEMMA PricesKeep ==
    ASSUME BooksBalance, PricesMove \/ \E c \in SourceChoices : set_price_sources(c)
    PROVE  BooksBalance'
<1>1. Account!TypeOK'
      BY DEF PricesMove, set_price_sources, BooksBalance, TypeOK, Account!TypeOK
<1>2. QED
      BY <1>1 DEF PricesMove, set_price_sources, BooksBalance, TypeOK

LEMMA AccountStepKeepsBooks ==
    ASSUME BooksBalance, AccountStep
    PROVE  BooksBalance'
<1>1. Account!TypeOK'
      BY AccountsKeepType DEF BooksBalance, TypeOK
<1>2. UNCHANGED poolVars
      BY DEF AccountStep
<1>3. QED
      BY <1>1, <1>2 DEF poolVars, BooksBalance, TypeOK

\* A change to the debt of a is a change to the sum of debts, which are no less than its debt.
LEMMA DebtsSum ==
    ASSUME BooksBalance, NEW a \in Accounts, NEW d \in Nat,
           DOMAIN line' = Accounts, line'[a].debt = d,
           \A b \in Accounts \ {a} : line'[b] = line[b]
    PROVE  /\ SumFunctionOnSet([b \in Accounts |-> line[b].debt], Accounts)' = totalDebt + d - line[a].debt
           /\ line[a].debt <= totalDebt /\ line[a].debt \in Nat
<1> DEFINE f == [b \in Accounts |-> line[b].debt]
           g == [b \in Accounts |-> line'[b].debt]
<1>1. \A b \in Accounts : f[b] \in Nat /\ g[b] \in Nat
      BY DEF BooksBalance, TypeOK
<1>2. \A b \in Accounts \ {a} : g[b] = f[b]
      OBVIOUS
<1>3. totalDebt = SumFunctionOnSet(f, Accounts) /\ f[a] = line[a].debt /\ g[a] = d
      BY DEF BooksBalance
<1> HIDE DEF f, g
<1>4. SumFunctionOnSet(g, Accounts) = SumFunctionOnSet(f, Accounts) + g[a] - f[a]
      BY <1>1, <1>2, SumChanges, HoldersAreAddresses
<1>5. f[a] <= SumFunctionOnSet(f, Accounts)
      BY <1>1, SumBoundsEach, HoldersAreAddresses
<1>6. QED
      BY <1>1, <1>3, <1>4, <1>5 DEF g

LEMMA OpenLineKeepsBooks ==
    ASSUME BooksBalance, NEW a \in Accounts, NEW n \in Limits, NEW x \in Beneficiaries,
           open_line(a, n, x)
    PROVE  BooksBalance'
<1>1. n \in Nat \ {0} /\ TypeOK /\ line[a].debt = 0
  <2>1. n \in Nat \ {0} /\ TypeOK /\ ~line[a].open
        BY RatesAreNat DEF open_line, BooksBalance
  <2>2. line[a].debt \in Nat /\ (line[a].open <=> line[a].debt > 0)
        BY DEF BooksBalance, TypeOK
  <2>3. QED
        BY <2>1, <2>2
<1>2. balance' \in [Assets -> [Account!Addresses -> Nat]]
      BY <1>1, AfterMoves, TokensDiffer, PoolIsAddress DEF open_line, TypeOK, Account!TypeOK
<1>3. Account!TypeOK'
      BY <1>1, <1>2, AccountsTyped DEF open_line, TypeOK, Account!TypeOK
<1>4. /\ line' \in [Accounts -> [debt : Nat, beneficiary : Beneficiaries \cup {NoOne}, open : BOOLEAN]]
      /\ line'[a].debt = n /\ line'[a].open
      /\ \A b \in Accounts \ {a} : line'[b] = line[b]
      BY <1>1 DEF open_line, TypeOK
<1>5. SumFunctionOnSet([b \in Accounts |-> line[b].debt], Accounts)' = totalDebt + n
  <2>1. SumFunctionOnSet([b \in Accounts |-> line[b].debt], Accounts)' = totalDebt + n - line[a].debt
        BY <1>1, <1>4, DebtsSum
  <2>2. QED
        BY <1>1, <2>1 DEF TypeOK
<1>6. QED
      BY <1>1, <1>3, <1>4, <1>5 DEF open_line, BooksBalance, TypeOK

\* The debt of a line that ends is taken out of the total.
LEMMA EndLineKeepsBooks ==
    ASSUME BooksBalance, NEW a \in Accounts, EndLine(a),
           balance' \in [Assets -> [Account!Addresses -> Nat]]
    PROVE  BooksBalance'
<1>1. TypeOK
      BY DEF BooksBalance
<1>2. Account!TypeOK'
      BY <1>1, AccountsTyped DEF EndLine, TypeOK, Account!TypeOK
<1>3. /\ line' \in [Accounts -> [debt : Nat, beneficiary : Beneficiaries \cup {NoOne}, open : BOOLEAN]]
      /\ line'[a].debt = 0 /\ line'[a].open = FALSE
      /\ \A b \in Accounts \ {a} : line'[b] = line[b]
      BY <1>1 DEF EndLine, TypeOK
<1>4. /\ SumFunctionOnSet([b \in Accounts |-> line[b].debt], Accounts)' = totalDebt + 0 - line[a].debt
      /\ line[a].debt <= totalDebt /\ line[a].debt \in Nat
      BY <1>1, <1>3, DebtsSum
<1>5. QED
      BY <1>1, <1>2, <1>3, <1>4 DEF EndLine, BooksBalance, TypeOK

\* All of an account's tokens can be moved.
LEMMA LiquidateMoves ==
    ASSUME BooksBalance, NEW a \in Accounts, liquidate(a)
    PROVE  /\ balance' \in [Assets -> [Account!Addresses -> Nat]]
           /\ balance'[usdc][Pool] = balance[usdc][Pool] + balance[usdc][a]
           /\ balance'[xlm][Pool] = balance[xlm][Pool] + balance[xlm][a]
           /\ \A s \in Assets, x \in Account!Addresses \ {a, Pool} : balance'[s][x] = balance[s][x]
           /\ balance'[usdc][a] = 0 /\ balance'[xlm][a] = 0
<1>1. /\ balance \in [Assets -> [Account!Addresses -> Nat]]
      /\ a \in Account!Addresses /\ a # Pool /\ Pool \in Account!Addresses
      BY PoolIsAddress DEF BooksBalance, TypeOK, Account!TypeOK
<1> DEFINE mid == After(balance, usdc, a, Pool, balance[usdc][a])
<1>2. /\ mid \in [Assets -> [Account!Addresses -> Nat]]
      /\ \A t \in Assets \ {usdc} : mid[t] = balance[t]
      /\ \A z \in Account!Addresses \ {a, Pool} : mid[usdc][z] = balance[usdc][z]
      /\ mid[usdc][a] = balance[usdc][a] - balance[usdc][a]
      /\ mid[usdc][Pool] = balance[usdc][Pool] + balance[usdc][a]
      BY <1>1, AfterMoves, TokensDiffer
<1>3. balance' = After(mid, xlm, a, Pool, balance[xlm][a])
      BY DEF liquidate
<1> HIDE DEF mid
<1>4. /\ balance' \in [Assets -> [Account!Addresses -> Nat]]
      /\ \A t \in Assets \ {xlm} : balance'[t] = mid[t]
      /\ \A z \in Account!Addresses \ {a, Pool} : balance'[xlm][z] = mid[xlm][z]
      /\ balance'[xlm][a] = mid[xlm][a] - balance[xlm][a]
      /\ balance'[xlm][Pool] = mid[xlm][Pool] + balance[xlm][a]
      BY <1>1, <1>2, <1>3, AfterMoves, TokensDiffer
<1>5. mid[xlm] = balance[xlm] /\ balance'[usdc] = mid[usdc]
      BY <1>2, <1>4, TokensDiffer
<1>6. QED
      BY <1>1, <1>2, <1>4, <1>5, TokensDiffer

\* The pool is paid its debt and its fee, and only then the beneficiary what is left.
LEMMA CloseLineMoves ==
    ASSUME BooksBalance, NEW caller, NEW a \in Accounts, close_line(caller, a)
    PROVE  /\ balance' \in [Assets -> [Account!Addresses -> Nat]]
           /\ fee(a) \in Nat
           /\ balance'[usdc][Pool] >= balance[usdc][Pool] + line[a].debt + fee(a)
           /\ balance'[xlm][Pool] >= balance[xlm][Pool]
           /\ \A s \in Assets, x \in Account!Addresses \ {a, Pool, line[a].beneficiary} :
                 balance'[s][x] = balance[s][x]
           /\ \A s \in Assets, x \in Account!Addresses \ {a} : balance'[s][x] >= balance[s][x]
<1>1. /\ balance \in [Assets -> [Account!Addresses -> Nat]]
      /\ a \in Account!Addresses /\ a # Pool /\ Pool \in Account!Addresses
      BY PoolIsAddress DEF BooksBalance, TypeOK, Account!TypeOK
<1>2. line[a].debt \in Nat
      BY DEF BooksBalance, TypeOK
<1>3. profit(a) \in Nat /\ profit(a) = balance[usdc][a] - line[a].debt
      BY <1>1, <1>2, TokensDiffer DEF close_line, profit
<1>4. fee(a) \in Nat
  <2>1. profit(a) * profit_share_bps \in Nat
        BY <1>3, RatesAreNat
  <2>2. QED
        BY <2>1, DivBounds DEF fee, BPS
<1> DEFINE f == fee(a)
           r == repayment(a)
           y == line[a].beneficiary
           n == profit(a) - fee(a)
           repaid == After(balance, usdc, a, Pool, r)
           shared == After(repaid, usdc, a, y, n)
<1>5. /\ r = line[a].debt + f /\ r \in Nat /\ r <= balance[usdc][a]
      /\ n = balance[usdc][a] - r /\ n \in Nat
      BY <1>1, <1>2, <1>3, <1>4, TokensDiffer DEF close_line, repayment
<1>6. balance' = After(shared, xlm, a, y, balance[xlm][a])
      BY DEF close_line
<1> HIDE DEF n, r, y, f
<1>7. /\ repaid \in [Assets -> [Account!Addresses -> Nat]]
      /\ \A t \in Assets \ {usdc} : repaid[t] = balance[t]
      /\ \A z \in Account!Addresses \ {a, Pool} : repaid[usdc][z] = balance[usdc][z]
      /\ repaid[usdc][a] = balance[usdc][a] - r
      /\ repaid[usdc][Pool] = balance[usdc][Pool] + r
      BY <1>1, <1>5, AfterMoves, TokensDiffer
<1> HIDE DEF repaid
<1>8. /\ shared \in [Assets -> [Account!Addresses -> Nat]]
      /\ \A t \in Assets \ {usdc} : shared[t] = repaid[t]
      /\ \A z \in Account!Addresses \ {a, y} : shared[usdc][z] = repaid[usdc][z]
      /\ y \in Account!Addresses /\ a # y => shared[usdc][y] = repaid[usdc][y] + n
      BY <1>1, <1>5, <1>7, AfterMoves, TokensDiffer
<1> HIDE DEF shared
<1>9. shared[xlm] = balance[xlm]
      BY <1>7, <1>8, TokensDiffer
<1>10. /\ balance' \in [Assets -> [Account!Addresses -> Nat]]
       /\ \A t \in Assets \ {xlm} : balance'[t] = shared[t]
       /\ \A z \in Account!Addresses \ {a, y} : balance'[xlm][z] = shared[xlm][z]
       /\ y \in Account!Addresses /\ a # y => balance'[xlm][y] = shared[xlm][y] + balance[xlm][a]
       BY <1>1, <1>6, <1>8, <1>9, AfterMoves, TokensDiffer
<1>11. balance'[usdc] = shared[usdc]
       BY <1>10, TokensDiffer
<1>12. balance'[usdc][Pool] >= balance[usdc][Pool] + r
  <2>1. CASE y = Pool
        BY <1>1, <1>5, <1>7, <1>8, <1>11, <2>1, TokensDiffer
  <2>2. CASE y # Pool
        BY <1>1, <1>5, <1>7, <1>8, <1>11, <2>2, TokensDiffer
  <2>3. QED
        BY <2>1, <2>2
<1>13. balance'[xlm][Pool] >= balance[xlm][Pool]
  <2>1. balance[xlm][a] \in Nat /\ balance[xlm][Pool] \in Nat
        BY <1>1, TokensDiffer
  <2>2. CASE y = Pool
        BY <1>1, <1>9, <1>10, <2>1, <2>2
  <2>3. CASE y # Pool
        BY <1>1, <1>9, <1>10, <2>1, <2>3
  <2>4. QED
        BY <2>2, <2>3
<1>14. ASSUME NEW s \in Assets, NEW x \in Account!Addresses \ {a, Pool, y}
       PROVE  balance'[s][x] = balance[s][x]
  <2>1. CASE s = usdc
        BY <1>7, <1>8, <1>11, <2>1
  <2>2. CASE s = xlm
        BY <1>9, <1>10, <2>2
  <2>3. CASE s # usdc /\ s # xlm
        BY <1>7, <1>8, <1>10, <2>3
  <2>4. QED
        BY <2>1, <2>2, <2>3
<1>15. balance[usdc][Pool] \in Nat
       BY <1>1, TokensDiffer
<1>16. ASSUME NEW s \in Assets, NEW x \in Account!Addresses \ {a}
       PROVE  balance'[s][x] >= balance[s][x]
  <2>1. balance[s][x] \in Nat /\ repaid[s][x] \in Nat /\ shared[s][x] \in Nat
        BY <1>1, <1>7, <1>8
  <2>2. repaid[s][x] >= balance[s][x]
        BY <1>1, <1>5, OneLosesOneGains, TokensDiffer DEF repaid
  <2>3. shared[s][x] >= repaid[s][x]
    <3>1. n <= repaid[usdc][a]
          BY <1>1, <1>5, <1>7, TokensDiffer
    <3>2. QED
          BY <1>1, <1>5, <1>7, <3>1, OneLosesOneGains, TokensDiffer DEF shared
  <2>4. balance'[s][x] >= shared[s][x]
    <3>1. balance[xlm][a] \in Nat /\ balance[xlm][a] <= shared[xlm][a]
          BY <1>1, <1>9, TokensDiffer
    <3>2. QED
          BY <1>1, <1>6, <1>8, <3>1, OneLosesOneGains, TokensDiffer
  <2>5. balance'[s][x] \in Nat
        BY <1>10
  <2>6. QED
        BY <2>1, <2>2, <2>3, <2>4, <2>5
<1>17. QED
       BY <1>2, <1>4, <1>5, <1>10, <1>12, <1>13, <1>14, <1>15, <1>16 DEF y, f

\* The totals are always the sums of what they stand for, no balance, share or debt is ever
\* negative, and a line owes something exactly as long as it is open, over any number of
\* holders, accounts and lines and whatever the accounts do between the pool's calls.
THEOREM BooksAlwaysBalance == Spec => []BooksBalance
<1>1. Init => BooksBalance
  <2> SUFFICES ASSUME Init
               PROVE  BooksBalance
      OBVIOUS
  <2>1. Account!TypeOK
        BY AccountsAreSound DEF Init, Account!Init, Account!TypeOK, Account!LedgersAreNat, Account!TotalsAreNat
  <2>2. TypeOK
        BY <2>1 DEF Init, TypeOK, NoLine
  <2>3. SumFunctionOnSet(shares, Investors) = 0
        BY SumOfZeros, HoldersAreAddresses DEF Init
  <2>4. SumFunctionOnSet([a \in Accounts |-> line[a].debt], Accounts) = 0
    <3> DEFINE f == [a \in Accounts |-> line[a].debt]
    <3>1. \A a \in Accounts : f[a] = 0
          BY DEF Init, NoLine
    <3> HIDE DEF f
    <3>2. SumFunctionOnSet(f, Accounts) = 0
          BY <3>1, SumOfZeros, HoldersAreAddresses
    <3>3. QED
          BY <3>2 DEF f
  <2>5. QED
        BY <2>2, <2>3, <2>4 DEF Init, BooksBalance, NoLine
<1>2. BooksBalance /\ [Next]_vars => BooksBalance'
  <2> SUFFICES ASSUME BooksBalance, [Next]_vars
               PROVE  BooksBalance'
      OBVIOUS
  <2>1. CASE \E x \in Investors, n \in Amounts : deposit(x, n)
        BY <2>1, DepositKeeps
  <2>2. CASE \E x \in Investors, m \in 1..totalShares : withdraw(x, m)
        BY <2>2, WithdrawKeeps
  <2>3. CASE \E x \in Investors, y \in Investors, m \in 1..totalShares : transfer(x, y, m)
        BY <2>3, TransferKeeps
  <2>4. CASE \E a \in Accounts, n \in Limits, x \in Beneficiaries : open_line(a, n, x)
        BY <2>4, OpenLineKeepsBooks
  <2>5. CASE \E a \in Accounts : liquidate(a)
        BY <2>5, LiquidateMoves, EndLineKeepsBooks DEF liquidate
  <2>6. CASE \E a \in Accounts, x \in Beneficiaries \cup {Admin} : close_line(x, a)
        BY <2>6, CloseLineMoves, EndLineKeepsBooks DEF close_line
  <2>7. CASE AccountStep
        BY <2>7, AccountStepKeepsBooks
  <2>8. CASE UNCHANGED vars
    <3>1. Account!TypeOK'
          BY <2>8 DEF vars, accountVars, BooksBalance, TypeOK, Account!TypeOK
    <3>2. QED
          BY <2>8, <3>1 DEF vars, poolVars, BooksBalance, TypeOK
  <2>9. QED
        BY <2>1, <2>2, <2>3, <2>4, <2>5, <2>6, <2>7, <2>8, PricesKeep DEF Next, PoolStep
<1>3. QED
      BY <1>1, <1>2, PTL DEF Spec

-----------------------------------------------------------------------------
\* The price of a share.

LEMMA WorthIsNat ==
    ASSUME NEW b \in [Assets -> [Account!Addresses -> Nat]], NEW d \in Nat, NEW p \in Nat
    PROVE  /\ Worth(b, d, p) \in Nat
           /\ Worth(b, d, p) = b[usdc][Pool] + d
                 + (IF b[xlm][Pool] > 0 THEN (b[xlm][Pool] * p) \div SCALE ELSE 0)
<1>1. b[usdc][Pool] \in Nat /\ b[xlm][Pool] \in Nat
      BY PoolIsAddress, TokensDiffer
<1>2. b[xlm][Pool] * p \in Nat
      BY <1>1
<1>3. (b[xlm][Pool] * p) \div SCALE \in Nat
      BY <1>2, DivBounds DEF SCALE
<1>4. b[xlm][Pool] = 0 => (b[xlm][Pool] * p) \div SCALE = 0
      BY DEF SCALE
<1>5. QED
      BY <1>1, <1>3, <1>4 DEF Worth

\* What the shares are worth before and after a step that leaves the price alone.
LEMMA WorthOfStep ==
    ASSUME BooksBalance, BooksBalance', known # {}, UNCHANGED <<sources, quotes>>
    PROVE  /\ price \in Nat
           /\ total_assets \in Nat /\ total_assets = Worth(balance, totalDebt, price)
           /\ total_assets' \in Nat /\ total_assets' = Worth(balance', totalDebt', price)
<1>1. price \in Nat
      BY PriceIsNat DEF BooksBalance
<1>2. price' = price
      BY DEF price, known
<1>3. total_assets = Worth(balance, totalDebt, price) /\ total_assets \in Nat
      BY AssetsAreNat DEF BooksBalance
<1>4. balance' \in [Assets -> [Account!Addresses -> Nat]] /\ totalDebt' \in Nat
      BY DEF BooksBalance, TypeOK, Account!TypeOK
<1>5. /\ Worth(balance', totalDebt', price) \in Nat
      /\ Worth(balance', totalDebt', price) = balance'[usdc][Pool] + totalDebt'
            + (IF balance'[xlm][Pool] > 0 THEN (balance'[xlm][Pool] * price) \div SCALE ELSE 0)
  <2>1. \A p \in Nat : /\ Worth(balance', totalDebt', p) \in Nat
                       /\ Worth(balance', totalDebt', p) = balance'[usdc][Pool] + totalDebt'
                             + (IF balance'[xlm][Pool] > 0 THEN (balance'[xlm][Pool] * p) \div SCALE ELSE 0)
        BY <1>4, WorthIsNat
  <2>2. QED
        BY <1>1, <2>1
<1>6. total_assets' = Worth(balance', totalDebt', price)
      BY <1>2, <1>5 DEF total_assets, xlm_value
<1>7. QED
      BY <1>1, <1>3, <1>5, <1>6

\* More tokens at the same price are worth more, by what each part is worth alone.
LEMMA WorthAdds ==
    ASSUME NEW m \in Nat, NEW n \in Nat, NEW p \in Nat
    PROVE  /\ ((m + n) * p) \div SCALE >= (m * p) \div SCALE + (n * p) \div SCALE
           /\ (m * p) \div SCALE \in Nat /\ (n * p) \div SCALE \in Nat
<1>1. m * p \in Nat /\ n * p \in Nat /\ (m + n) * p = m * p + n * p
      OBVIOUS
<1>2. \A x, y \in Nat : (x + y) \div SCALE >= x \div SCALE + y \div SCALE
      BY DEF SCALE
<1>3. QED
      BY <1>1, <1>2, DivBounds DEF SCALE

\* Whoever has no less is worth no less.
LEMMA WorthIsMonotonic ==
    ASSUME NEW b \in [Assets -> [Account!Addresses -> Nat]],
           NEW c \in [Assets -> [Account!Addresses -> Nat]],
           NEW d \in Nat, NEW e \in Nat, NEW p \in Nat,
           c[usdc][Pool] + e >= b[usdc][Pool] + d, c[xlm][Pool] >= b[xlm][Pool]
    PROVE  Worth(c, e, p) >= Worth(b, d, p)
<1>1. /\ b[usdc][Pool] \in Nat /\ b[xlm][Pool] \in Nat
      /\ c[usdc][Pool] \in Nat /\ c[xlm][Pool] \in Nat
      BY PoolIsAddress, TokensDiffer
<1> DEFINE x == b[xlm][Pool]
           n == c[xlm][Pool] - b[xlm][Pool]
<1>2. x \in Nat /\ n \in Nat /\ c[xlm][Pool] = x + n
      BY <1>1
<1> HIDE DEF n
<1>3. /\ ((x + n) * p) \div SCALE >= (x * p) \div SCALE + (n * p) \div SCALE
      /\ (x * p) \div SCALE \in Nat /\ (n * p) \div SCALE \in Nat
      BY <1>2, WorthAdds
<1>4. ((x + n) * p) \div SCALE \in Nat
  <2>1. (x + n) * p \in Nat
        BY <1>2
  <2>2. QED
        BY <2>1, DivBounds DEF SCALE
<1>5. QED
      BY <1>1, <1>2, <1>3, <1>4 DEF Worth

LEMMA NothingWrittenOff ==
    ASSUME \A a \in Accounts : line[a].open /\ ~line'[a].open => ~(value_of(a) < line[a].debt)
    PROVE  WrittenOff = 0
<1>1. {a \in Accounts : line[a].open /\ ~line'[a].open /\ value_of(a) < line[a].debt} = {}
      OBVIOUS
<1>2. QED
      BY <1>1, SumOfNone DEF WrittenOff

\* What the holders of the shares from before the step lose by it: nothing but what is written off.
FairStep == (total_assets' + WrittenOff) * totalShares >= total_assets * totalShares'

\* Shares are minted rounded down ...
LEMMA MintingIsFair ==
    ASSUME NEW n \in Nat, NEW T \in Nat, NEW V \in Nat \ {0}
    PROVE  (V + n) * T >= V * (T + (n * T) \div V)
  OBVIOUS

\* ... and redeemed rounded down.
LEMMA RedeemingIsFair ==
    ASSUME NEW m \in Nat, NEW T \in Nat \ {0}, NEW V \in Nat
    PROVE  (V - (m * V) \div T) * T >= V * (T - m)
  OBVIOUS

LEMMA DepositIsFair ==
    ASSUME BooksBalance, known # {}, UNCHANGED <<sources, quotes>>, totalShares > 0,
           NEW x \in Investors, NEW n \in Amounts, deposit(x, n)
    PROVE  FairStep
<1>1. BooksBalance'
      BY DepositKeeps
<1>2. /\ price \in Nat /\ total_assets \in Nat /\ total_assets = Worth(balance, totalDebt, price)
      /\ total_assets' = Worth(balance', totalDebt', price)
      BY <1>1, WorthOfStep
<1>3. /\ n \in Nat /\ x \in Account!Addresses \ {Pool}
      /\ balance \in [Assets -> [Account!Addresses -> Nat]] /\ n <= balance[usdc][x]
      /\ totalShares \in Nat /\ totalDebt \in Nat
      BY AccountsAreSound, HoldersAreAddresses
      DEF Account!PaymentsAreNat, BooksBalance, TypeOK, Account!TypeOK, deposit
<1>4. balance'[usdc][Pool] = balance[usdc][Pool] + n /\ balance'[xlm][Pool] = balance[xlm][Pool]
      BY <1>3, AfterMoves, TokensDiffer, PoolIsAddress DEF deposit
<1>5. total_assets' = total_assets + n
  <2>1. balance[usdc][Pool] \in Nat /\ totalDebt' = totalDebt
        BY <1>3, TokensDiffer, PoolIsAddress DEF deposit
  <2>2. (balance[xlm][Pool] * price) \div SCALE \in Nat
        BY <1>2, <1>3, WorthAdds, TokensDiffer, PoolIsAddress
  <2>3. QED
        BY <1>2, <1>3, <1>4, <2>1, <2>2 DEF Worth
<1>6. WrittenOff = 0
      BY NothingWrittenOff DEF deposit
<1>7. totalShares' = totalShares + minted(n)
      BY DEF deposit
<1>8. CASE total_assets = 0
  <2>1. total_assets * totalShares' = 0
    <3>1. totalShares' \in Nat
          BY <1>1 DEF BooksBalance, TypeOK
    <3>2. \A k \in Nat : total_assets * k = 0
          BY <1>8
    <3>3. QED
          BY <3>1, <3>2
  <2>2. (total_assets' + WrittenOff) * totalShares \in Nat
        BY <1>3, <1>5, <1>6, <1>2
  <2>3. \A k, l \in Int : k >= 0 /\ l = 0 => k >= l
        OBVIOUS
  <2>4. QED
        BY <2>1, <2>2, <2>3 DEF FairStep
<1>9. CASE total_assets # 0
  <2>1. minted(n) = (n * totalShares) \div total_assets
        BY <1>9 DEF minted
  <2>2. total_assets' + WrittenOff = total_assets + n
        BY <1>2, <1>3, <1>5, <1>6
  <2>3. (total_assets + n) * totalShares >= total_assets * (totalShares + (n * totalShares) \div total_assets)
        BY <1>2, <1>3, <1>9, MintingIsFair
  <2>4. QED
        BY <1>7, <2>1, <2>2, <2>3 DEF FairStep
<1>10. QED
       BY <1>8, <1>9

LEMMA WithdrawIsFair ==
    ASSUME BooksBalance, known # {}, UNCHANGED <<sources, quotes>>, totalShares > 0,
           NEW x \in Investors, NEW m \in 1..totalShares, withdraw(x, m)
    PROVE  FairStep
<1>1. BooksBalance'
      BY WithdrawKeeps
<1>2. /\ price \in Nat /\ total_assets \in Nat /\ total_assets = Worth(balance, totalDebt, price)
      /\ total_assets' = Worth(balance', totalDebt', price)
      BY <1>1, WorthOfStep
<1>3. /\ m \in Nat /\ x \in Account!Addresses \ {Pool}
      /\ balance \in [Assets -> [Account!Addresses -> Nat]]
      /\ totalShares \in Nat \ {0} /\ totalDebt \in Nat
      BY HoldersAreAddresses DEF BooksBalance, TypeOK, Account!TypeOK
<1>4. redeemed(m) \in Nat /\ redeemed(m) <= balance[usdc][Pool]
  <2>1. m * total_assets \in Nat
        BY <1>2, <1>3
  <2>2. QED
        BY <1>3, <2>1, DivBounds DEF redeemed, withdraw
<1>5. balance'[usdc][Pool] = balance[usdc][Pool] - redeemed(m) /\ balance'[xlm][Pool] = balance[xlm][Pool]
      BY <1>3, <1>4, AfterMoves, TokensDiffer, PoolIsAddress DEF withdraw
<1>6. total_assets' = total_assets - redeemed(m)
  <2>1. balance[usdc][Pool] \in Nat /\ totalDebt' = totalDebt
        BY <1>3, TokensDiffer, PoolIsAddress DEF withdraw
  <2>2. (balance[xlm][Pool] * price) \div SCALE \in Nat
        BY <1>2, <1>3, WorthAdds, TokensDiffer, PoolIsAddress
  <2>3. QED
        BY <1>2, <1>3, <1>4, <1>5, <2>1, <2>2 DEF Worth
<1>7. WrittenOff = 0
      BY NothingWrittenOff DEF withdraw
<1>8. totalShares' = totalShares - m
      BY DEF withdraw
<1>9. (total_assets - (m * total_assets) \div totalShares) * totalShares >= total_assets * (totalShares - m)
      BY <1>2, <1>3, RedeemingIsFair
<1>10. total_assets' + WrittenOff = total_assets - (m * total_assets) \div totalShares
       BY <1>2, <1>4, <1>6, <1>7 DEF redeemed
<1>11. QED
       BY <1>8, <1>9, <1>10 DEF FairStep

LEMMA TimesIsMonotonic ==
    ASSUME NEW k \in Int, NEW l \in Int, k >= l, NEW t \in Nat
    PROVE  k * t >= l * t
  OBVIOUS

\* Who leaves the shares alone must not lower what they are worth.
LEMMA KeptSharesAreFair ==
    ASSUME BooksBalance, BooksBalance', known # {}, UNCHANGED <<sources, quotes>>,
           totalShares' = totalShares, WrittenOff \in Int,
           total_assets' + WrittenOff >= total_assets
    PROVE  FairStep
<1>1. total_assets \in Nat /\ total_assets' \in Nat
      BY WorthOfStep
<1>2. totalShares \in Nat
      BY DEF BooksBalance, TypeOK
<1>3. total_assets' + WrittenOff \in Int
      BY <1>1
<1>4. PICK k \in Int : k = total_assets' + WrittenOff
      BY <1>3
<1>5. PICK l \in Int : l = total_assets
      BY <1>1
<1>6. k * totalShares >= l * totalShares
  <2>1. k >= l
        BY <1>4, <1>5
  <2>2. QED
        BY <1>2, <2>1, TimesIsMonotonic
<1>7. QED
      BY <1>4, <1>5, <1>6 DEF FairStep

\* Nothing is lost where the pool's USDC and loans together, and its XLM, do not fall.
LEMMA KeptWorthIsFair ==
    ASSUME BooksBalance, BooksBalance', known # {}, UNCHANGED <<sources, quotes>>,
           totalShares' = totalShares, WrittenOff = 0,
           balance'[usdc][Pool] + totalDebt' >= balance[usdc][Pool] + totalDebt,
           balance'[xlm][Pool] >= balance[xlm][Pool]
    PROVE  FairStep
<1>1. /\ price \in Nat /\ total_assets \in Nat /\ total_assets = Worth(balance, totalDebt, price)
      /\ total_assets' \in Nat /\ total_assets' = Worth(balance', totalDebt', price)
      BY WorthOfStep
<1>2. /\ balance \in [Assets -> [Account!Addresses -> Nat]] /\ totalDebt \in Nat
      /\ balance' \in [Assets -> [Account!Addresses -> Nat]] /\ totalDebt' \in Nat
      BY DEF BooksBalance, TypeOK, Account!TypeOK
<1>3. Worth(balance', totalDebt', price) >= Worth(balance, totalDebt, price)
  <2>1. \A p \in Nat : Worth(balance', totalDebt', p) >= Worth(balance, totalDebt, p)
        BY <1>2, WorthIsMonotonic
  <2>2. QED
        BY <1>1, <2>1
<1>4. total_assets' + WrittenOff >= total_assets
      BY <1>1, <1>3
<1>5. QED
      BY <1>4, KeptSharesAreFair

LEMMA OpenLineIsFair ==
    ASSUME BooksBalance, known # {}, UNCHANGED <<sources, quotes>>,
           NEW a \in Accounts, NEW n \in Limits, NEW x \in Beneficiaries, open_line(a, n, x)
    PROVE  FairStep
<1>1. BooksBalance'
      BY OpenLineKeepsBooks
<1>2. /\ n \in Nat /\ a \in Account!Addresses \ {Pool}
      /\ balance \in [Assets -> [Account!Addresses -> Nat]] /\ n <= balance[usdc][Pool]
      /\ totalDebt \in Nat
      BY RatesAreNat, PoolIsAddress DEF BooksBalance, TypeOK, Account!TypeOK, open_line
<1>3. balance'[usdc][Pool] = balance[usdc][Pool] - n /\ balance'[xlm][Pool] = balance[xlm][Pool]
      BY <1>2, AfterMoves, TokensDiffer, PoolIsAddress DEF open_line
<1>4. balance'[usdc][Pool] + totalDebt' >= balance[usdc][Pool] + totalDebt
  <2>1. balance[usdc][Pool] \in Nat /\ totalDebt' = totalDebt + n
        BY <1>2, TokensDiffer, PoolIsAddress DEF open_line
  <2>2. QED
        BY <1>2, <1>3, <2>1
<1>5. balance'[xlm][Pool] >= balance[xlm][Pool]
      BY <1>2, <1>3, TokensDiffer, PoolIsAddress
<1>6. WrittenOff = 0
  <2>1. ASSUME NEW b \in Accounts, line[b].open
        PROVE  line'[b].open
        BY <2>1 DEF open_line, BooksBalance, TypeOK
  <2>2. QED
        BY <2>1, NothingWrittenOff
<1>7. QED
      BY <1>1, <1>4, <1>5, <1>6, KeptWorthIsFair DEF open_line

\* What a liquidation brings and what it writes off make up for the debt.
LEMMA LiquidateIsFair ==
    ASSUME BooksBalance, known # {}, UNCHANGED <<sources, quotes>>,
           NEW a \in Accounts, liquidate(a)
    PROVE  FairStep
<1>1. BooksBalance'
      BY LiquidateMoves, EndLineKeepsBooks DEF liquidate
<1>2. /\ price \in Nat /\ total_assets \in Nat /\ total_assets = Worth(balance, totalDebt, price)
      /\ total_assets' \in Nat /\ total_assets' = Worth(balance', totalDebt', price)
      BY <1>1, WorthOfStep
<1>3. /\ balance[usdc][Pool] \in Nat /\ balance[xlm][Pool] \in Nat
      /\ balance[usdc][a] \in Nat /\ balance[xlm][a] \in Nat
      /\ totalDebt \in Nat /\ line[a].debt \in Nat
      BY TokensDiffer, PoolIsAddress DEF BooksBalance, TypeOK, Account!TypeOK
<1>4. /\ balance'[usdc][Pool] = balance[usdc][Pool] + balance[usdc][a]
      /\ balance'[xlm][Pool] = balance[xlm][Pool] + balance[xlm][a]
      /\ totalDebt' = totalDebt - line[a].debt
      BY LiquidateMoves DEF liquidate, EndLine
<1> DEFINE u == balance[usdc][Pool]
           x == balance[xlm][Pool]
           v == balance[usdc][a]
           y == balance[xlm][a]
           d == line[a].debt
           X(n) == (n * price) \div SCALE
<1>5. /\ X(x + y) >= X(x) + X(y) /\ X(x) \in Nat /\ X(y) \in Nat
      BY <1>2, <1>3, WorthAdds
<1>6. value_of(a) = v + X(y)
      BY DEF value_of, xlm_value
<1>7. /\ total_assets = u + totalDebt + X(x)
      /\ total_assets' = u + v + (totalDebt - d) + X(x + y)
  <2>1. /\ total_assets = balance[usdc][Pool] + totalDebt + X(balance[xlm][Pool])
        /\ total_assets' = balance'[usdc][Pool] + totalDebt' + X(balance'[xlm][Pool])
        BY <1>2 DEF Worth
  <2> HIDE DEF X
  <2>2. QED
        BY <1>4, <2>1
<1>8. WrittenOff = IF v + X(y) < d THEN d - (v + X(y)) ELSE 0
  <2> DEFINE f == [b \in Accounts |-> line[b].debt - value_of(b)]
             S == {b \in Accounts : line[b].open /\ ~line'[b].open /\ value_of(b) < line[b].debt}
  <2>1. /\ line[a].open /\ ~line'[a].open
        /\ \A b \in Accounts \ {a} : line'[b] = line[b]
        BY DEF liquidate, EndLine, BooksBalance, TypeOK
  <2>2. S = IF value_of(a) < d THEN {a} ELSE {}
        BY <2>1
  <2>3. f[a] = d - (v + X(y)) /\ f[a] \in Int
        BY <1>3, <1>5, <1>6
  <2>4. WrittenOff = SumFunctionOnSet(f, S)
        BY DEF WrittenOff
  <2> HIDE DEF f, S, X
  <2>5. SumFunctionOnSet(f, {a}) = f[a] /\ SumFunctionOnSet(f, {}) = 0
        BY <2>3, SumOfOne, SumOfNone
  <2>6. QED
        BY <1>6, <2>2, <2>3, <2>4, <2>5
<1>9. X(x + y) \in Nat
  <2>1. (x + y) * price \in Nat
        BY <1>2, <1>3
  <2>2. QED
        BY <2>1, DivBounds DEF SCALE
<1> HIDE DEF X
<1>10. WrittenOff \in Int /\ total_assets' + WrittenOff >= total_assets
       BY <1>3, <1>5, <1>7, <1>8, <1>9
<1>11. QED
       BY <1>1, <1>10, KeptSharesAreFair DEF liquidate, EndLine

LEMMA CloseLineIsFair ==
    ASSUME BooksBalance, known # {}, UNCHANGED <<sources, quotes>>,
           NEW caller, NEW a \in Accounts, close_line(caller, a)
    PROVE  FairStep
<1>1. BooksBalance'
      BY CloseLineMoves, EndLineKeepsBooks DEF close_line
<1>2. /\ balance[usdc][Pool] \in Nat /\ balance[xlm][Pool] \in Nat
      /\ balance[usdc][a] \in Nat /\ balance[xlm][a] \in Nat
      /\ balance'[usdc][Pool] \in Nat
      /\ totalDebt \in Nat /\ line[a].debt \in Nat
      BY <1>1, TokensDiffer, PoolIsAddress DEF BooksBalance, TypeOK, Account!TypeOK
<1>3. /\ fee(a) \in Nat /\ totalDebt' = totalDebt - line[a].debt
      /\ balance'[usdc][Pool] >= balance[usdc][Pool] + line[a].debt + fee(a)
      /\ balance'[xlm][Pool] >= balance[xlm][Pool]
      BY CloseLineMoves DEF close_line, EndLine
<1>4. balance'[usdc][Pool] + totalDebt' >= balance[usdc][Pool] + totalDebt
      BY <1>2, <1>3
<1>5. ~(value_of(a) < line[a].debt)
  <2>1. price \in Nat
        BY PriceIsNat DEF BooksBalance
  <2>2. (balance[xlm][a] * price) \div SCALE \in Nat
        BY <1>2, <2>1, WorthAdds
  <2>3. balance[usdc][a] >= line[a].debt
        BY <1>2 DEF close_line, profit
  <2>4. QED
        BY <1>2, <2>2, <2>3 DEF value_of, xlm_value
<1>6. WrittenOff = 0
  <2>1. \A b \in Accounts \ {a} : line'[b] = line[b]
        BY DEF close_line, EndLine, BooksBalance, TypeOK
  <2>2. QED
        BY <1>5, <2>1, NothingWrittenOff
<1>7. QED
      BY <1>1, <1>3, <1>4, <1>6, KeptWorthIsFair DEF close_line, EndLine

\* What happens between the pool's calls leaves its shares, its loans and its tokens alone.
LEMMA RestIsFair ==
    ASSUME BooksBalance, BooksBalance', known # {}, UNCHANGED <<sources, quotes>>,
           UNCHANGED <<totalShares, totalDebt, line>>,
           \A s \in Assets : balance'[s][Pool] >= balance[s][Pool]
    PROVE  FairStep
<1>1. WrittenOff = 0
      BY NothingWrittenOff
<1>2. /\ balance[usdc][Pool] \in Nat /\ balance'[usdc][Pool] \in Nat /\ totalDebt \in Nat
      BY TokensDiffer, PoolIsAddress DEF BooksBalance, TypeOK, Account!TypeOK
<1>3. QED
      BY <1>1, <1>2, KeptWorthIsFair, TokensDiffer

\* At constant prices no step costs the holders of shares anything but what a line that ends
\* is short of its debt: for any amounts, prices and rates, any number of holders and lines,
\* and however mints, redemptions, fees and the value of XLM are rounded.
THEOREM HoldersLoseNothing == Spec => SharePriceHolds
<1>1. ASSUME BooksBalance, BooksBalance', [Next]_vars, totalShares > 0, known # {},
             UNCHANGED <<sources, quotes>>
      PROVE  FairStep
  <2>1. CASE \E x \in Investors, n \in Amounts : deposit(x, n)
        BY <1>1, <2>1, DepositIsFair
  <2>2. CASE \E x \in Investors, m \in 1..totalShares : withdraw(x, m)
        BY <1>1, <2>2, WithdrawIsFair
  <2>3. CASE \E a \in Accounts, n \in Limits, x \in Beneficiaries : open_line(a, n, x)
        BY <1>1, <2>3, OpenLineIsFair
  <2>4. CASE \E a \in Accounts : liquidate(a)
        BY <1>1, <2>4, LiquidateIsFair
  <2>5. CASE \E a \in Accounts, x \in Beneficiaries \cup {Admin} : close_line(x, a)
        BY <1>1, <2>5, CloseLineIsFair
  <2>6. \A s \in Assets : balance[s][Pool] \in Nat
        BY <1>1, PoolIsAddress DEF BooksBalance, TypeOK, Account!TypeOK
  <2>7. CASE \/ \E x \in Investors, y \in Investors, m \in 1..totalShares : transfer(x, y, m)
             \/ \E c \in SourceChoices : set_price_sources(c)
             \/ PricesMove
             \/ UNCHANGED vars
    <3>1. UNCHANGED <<totalShares, totalDebt, line>> /\ balance' = balance
          BY <2>7 DEF transfer, set_price_sources, PricesMove, vars, accountVars, poolVars
    <3>2. \A s \in Assets : balance'[s][Pool] >= balance[s][Pool]
          BY <2>6, <3>1
    <3>3. QED
          BY <1>1, <3>1, <3>2, RestIsFair
  <2>8. CASE AccountStep
    <3>1. UNCHANGED <<totalShares, totalDebt, line>>
          BY <2>8 DEF AccountStep, poolVars
    <3>2. \A s \in Assets : balance'[s][Pool] >= balance[s][Pool]
          BY <1>1, <2>8, AccountsKeepType DEF BooksBalance, TypeOK
    <3>3. QED
          BY <1>1, <3>1, <3>2, RestIsFair
  <2>9. QED
        BY <1>1, <2>1, <2>2, <2>3, <2>4, <2>5, <2>7, <2>8 DEF Next, PoolStep
<1>2. ASSUME BooksBalance, BooksBalance', [Next]_vars
      PROVE  [totalShares > 0 /\ known # {} /\ UNCHANGED <<sources, quotes>> =>
                (total_assets' + WrittenOff) * totalShares >= total_assets * totalShares']_vars
      BY <1>1, <1>2 DEF FairStep
<1>3. QED
      BY <1>2, BooksAlwaysBalance, PTL DEF Spec, SharePriceHolds

-----------------------------------------------------------------------------
\* Where credit can go.

\* An account under the pool's control loses tokens between the pool's calls only by its own
\* agent, to whom the policy lists.
LEMMA AgentPays ==
    ASSUME BooksBalance, AccountStep, NEW a \in Accounts, controller[a] = Pool, NEW s \in Assets,
           NEW x \in Account!Addresses \ {a},
           balance'[s][a] < balance[s][a], balance'[s][x] > balance[s][x]
    PROVE  \/ x \in {policy[a].channel} \cup policy[a].payees
           \/ \E q \in policy[a].pairs : x = pairOf[q]
<1>1. Proved!TypeOK /\ [Proved!Next]_(Proved!vars)
      BY SameType, AccountNext DEF BooksBalance, TypeOK
<1>2. /\ controller[a] # NoOne => by' = controller[a] \/ (by' = policy[a].agent_key /\ ~frozen[a])
      /\ \A z \in Proved!Addresses \ {a} :
            by' = policy[a].agent_key /\ balance'[s][z] > balance[s][z]
              => \/ s = policy[a].asset /\ z \in policy[a].payees \cup {policy[a].channel}
                 \/ \E q \in policy[a].pairs \cap DOMAIN pairOf : q[1] = s /\ z = pairOf[q]
      BY <1>1, SameAssumptions, Proved!StepIsAllowed
<1>3. by' # Pool
  <2>1. ASSUME NEW b \in Accounts, Account!AgentStep(b)
        PROVE  by' # Pool
    <3>1. by' = policy[b].agent_key /\ policy[b] \in Policies
          BY <2>1 DEF Account!AgentStep, Account!AgentCalls, Account!check_auth, Account!Permits,
                      BooksBalance, TypeOK, Account!TypeOK
    <3>2. QED
          BY <3>1, PoolIsAController, AccountsAreSound DEF Account!KeysAreNoAddresses
  <2>2. ASSUME NEW b \in Accounts, Account!OwnerStep(b)
        PROVE  by' # Pool
        BY <2>2, PoolIsAddress DEF Account!OwnerStep, Account!set_controller, Account!OwnerPays
  <2>3. ASSUME NEW b \in Accounts, NEW c \in (Controllers \cup {b}) \ {Pool}, Account!ControllerStep(b, c)
        PROVE  by' # Pool
        BY <2>3 DEF Account!ControllerStep, Account!set_policy, Account!freeze, Account!unfreeze,
                    Account!SetFrozen, Account!recall
  <2>4. ASSUME NEW z \in Payers, NEW t \in Assets, NEW y \in Accounts, NEW n \in Amounts,
               Account!Pays(z, t, y, n)
        PROVE  by' # Pool
        BY <2>4, PoolIsAController DEF Account!Pays
  <2>5. CASE Account!LedgerCloses
        BY <2>5, PoolIsAController DEF Account!LedgerCloses
  <2>6. QED
        BY <2>1, <2>2, <2>3, <2>4, <2>5 DEF AccountStep
<1>4. by' = policy[a].agent_key
      BY <1>2, <1>3, PoolIsAController
<1>5. x \in Proved!Addresses \ {a}
      BY DEF Proved!Addresses, Account!Addresses
<1>6. QED
      BY <1>2, <1>4, <1>5

\* The same of a whole step.
LEMMA CreditMoves ==
    ASSUME BooksBalance, BooksBalance', LinesAreControlled, [Next]_vars,
           NEW a \in Accounts, NEW s \in Assets, NEW x \in Account!Addresses,
           x # a, line[a].open, balance'[s][a] < balance[s][a], balance'[s][x] > balance[s][x]
    PROVE  \/ x \in {Pool, policy[a].channel} \cup policy[a].payees
           \/ \E q \in policy[a].pairs : x = pairOf[q]
           \/ /\ x = line[a].beneficiary /\ ~line'[a].open
              /\ balance'[usdc][Pool] >= balance[usdc][Pool] + line[a].debt
<1>1. /\ balance \in [Assets -> [Account!Addresses -> Nat]]
      /\ a \in Account!Addresses \ {Pool} /\ Pool \in Account!Addresses
      BY PoolIsAddress DEF BooksBalance, TypeOK, Account!TypeOK
<1>2. controller[a] = Pool
      BY DEF LinesAreControlled, NoLine
<1>3. balance' \in [Assets -> [Account!Addresses -> Nat]]
       BY DEF BooksBalance, TypeOK, Account!TypeOK
<1>4. ASSUME NEW y \in Investors, NEW n \in Amounts, deposit(y, n)
      PROVE  x = Pool
  <2>1. n \in Nat /\ y \in Account!Addresses /\ n <= balance[usdc][y]
        BY <1>4, AccountsAreSound, HoldersAreAddresses, TokensDiffer
        DEF Account!PaymentsAreNat, deposit
  <2>2. balance' = After(balance, usdc, y, Pool, n)
        BY <1>4 DEF deposit
  <2>3. x # Pool => balance'[s][x] <= balance[s][x]
        BY <1>1, <2>1, <2>2, OneLosesOneGains, TokensDiffer
  <2>4. balance'[s][x] \in Nat /\ balance[s][x] \in Nat
        BY <1>1, <1>3
  <2>5. QED
        BY <2>3, <2>4
<1>5. ASSUME NEW y, NEW n \in Nat, n <= balance[usdc][Pool], balance' = After(balance, usdc, Pool, y, n)
      PROVE  FALSE
  <2>1. balance'[s][a] >= balance[s][a]
        BY <1>1, <1>5, OneLosesOneGains, TokensDiffer
  <2>2. balance'[s][a] \in Nat /\ balance[s][a] \in Nat
        BY <1>1, <1>3
  <2>3. QED
        BY <2>1, <2>2
<1>6. ASSUME NEW y \in Investors, NEW m \in 1..totalShares, withdraw(y, m)
      PROVE  FALSE
  <2>1. redeemed(m) \in Nat
    <3>1. m \in Nat /\ totalShares \in Nat \ {0} /\ total_assets \in Nat
          BY <1>6, AssetsAreNat DEF BooksBalance, TypeOK, withdraw
    <3>2. m * total_assets \in Nat
          BY <3>1
    <3>3. QED
          BY <3>1, <3>2, DivBounds DEF redeemed
  <2>2. QED
        BY <1>5, <1>6, <2>1 DEF withdraw
<1>7. ASSUME NEW b \in Accounts, NEW n \in Limits, NEW y \in Beneficiaries, open_line(b, n, y)
      PROVE  FALSE
      BY <1>5, <1>7, RatesAreNat DEF open_line
<1>8. ASSUME NEW b \in Accounts, liquidate(b)
      PROVE  x = Pool
  <2>1. \A z \in Account!Addresses \ {b, Pool} : balance'[s][z] = balance[s][z]
        BY <1>8, LiquidateMoves
  <2>2. x \in {b, Pool} /\ a = b
        BY <1>1, <2>1
  <2>3. QED
        BY <2>2
<1>9. ASSUME NEW caller, NEW b \in Accounts, close_line(caller, b)
      PROVE  \/ x = Pool
             \/ /\ x = line[a].beneficiary /\ ~line'[a].open
                /\ balance'[usdc][Pool] >= balance[usdc][Pool] + line[a].debt
  <2>1. /\ \A z \in Account!Addresses \ {b, Pool, line[b].beneficiary} : balance'[s][z] = balance[s][z]
        /\ balance'[usdc][Pool] >= balance[usdc][Pool] + line[b].debt + fee(b)
        /\ fee(b) \in Nat
        BY <1>9, CloseLineMoves
  <2>2. a = b
    <3>1. a # b => balance'[s][a] >= balance[s][a]
          BY <1>1, <1>9, CloseLineMoves
    <3>2. balance'[s][a] \in Nat /\ balance[s][a] \in Nat
          BY <1>1, <1>3
    <3>3. QED
          BY <3>1, <3>2
  <2>3. x \in {Pool, line[b].beneficiary}
    <3>1. x \notin {b, Pool, line[b].beneficiary} => balance'[s][x] = balance[s][x]
          BY <2>1
    <3>2. balance'[s][x] \in Nat /\ balance[s][x] \in Nat
          BY <1>1, <1>3
    <3>3. QED
          BY <2>2, <3>1, <3>2
  <2>4. ~line'[a].open
        BY <1>9, <2>2 DEF close_line, EndLine, BooksBalance, TypeOK
  <2>5. line[a].debt \in Nat /\ balance[usdc][Pool] \in Nat /\ balance'[usdc][Pool] \in Nat
        BY <1>1, <1>3, TokensDiffer DEF BooksBalance, TypeOK
  <2>6. QED
        BY <2>1, <2>2, <2>3, <2>4, <2>5
<1>10. CASE AccountStep
      BY <1>2, <1>10, AgentPays
<1>11. CASE \/ \E y \in Investors, z \in Investors, m \in 1..totalShares : transfer(y, z, m)
            \/ \E c \in SourceChoices : set_price_sources(c)
            \/ PricesMove
            \/ UNCHANGED vars
  <2>1. balance' = balance
        BY <1>11 DEF transfer, set_price_sources, PricesMove, vars, accountVars
  <2>2. QED
        BY <1>1, <2>1
<1>12. QED
       BY <1>4, <1>6, <1>7, <1>8, <1>9, <1>10, <1>11 DEF Next, PoolStep

\* The tokens of an account with an open line reach only the pool, what the policy of its
\* agent lists, and at the end of the line its beneficiary, after the pool has its debt back,
\* whatever policies, keys, owners, caps and prices there are.
THEOREM CreditNeverEscapes == Spec => CreditStaysInside
<1>1. ASSUME BooksBalance, BooksBalance', LinesAreControlled, [Next]_vars
      PROVE  [\A a \in Accounts, s \in Assets, x \in Account!Addresses :
                /\ x # a /\ line[a].open
                /\ balance'[s][a] < balance[s][a] /\ balance'[s][x] > balance[s][x]
                => \/ x \in {Pool, policy[a].channel} \cup policy[a].payees
                   \/ \E q \in policy[a].pairs : x = pairOf[q]
                   \/ /\ x = line[a].beneficiary /\ ~line'[a].open
                      /\ balance'[usdc][Pool] >= balance[usdc][Pool] + line[a].debt]_vars
      BY <1>1, CreditMoves
<1>2. QED
      BY <1>1, BooksAlwaysBalance, LinesStayControlled, PTL DEF Spec, CreditStaysInside

-----------------------------------------------------------------------------
\* What the backend reads of the chain.

\* A version of the chain that was the latest one at time t, or became it later.
InForce(v, t) ==
    /\ v \in 0..world
    /\ v # world => lasted[v] >= t

WorldTyped ==
    /\ clock \in Nat /\ world \in 0..MaxWorld
    /\ lasted \in [0..MaxWorld -> Nat]

\* An RPC call under way has not taken too long, and what it has got was so since it began.
UnderWay(r, fields) ==
    /\ r \in [since : Nat, got : [fields -> Nat \cup {Unknown}]]
    /\ r.since <= clock /\ clock <= r.since + Latency
    /\ \A f \in fields : r.got[f] # Unknown => InForce(r.got[f], r.since)

\* PriceService: the quote kept was so when its reading began, and who waits has asked since
\* the reading under way began.
PriceInv ==
    /\ last # Unknown =>
          /\ last \in [version : Nat, at : Nat] /\ last.at <= clock
          /\ InForce(last.version, last.at - Latency)
    /\ fetching # Unknown => UnderWay(fetching, {"reserves"})
    /\ asking \in [Readers -> Nat \cup {Unknown}]
    /\ \A r \in WhoWait(asking) :
          fetching # Unknown /\ fetching.since <= asking[r] /\ asking[r] <= clock

\* FloatService: the same of the summary, whose lines are read last.
SummaryInv ==
    /\ cache # Unknown =>
          /\ cache \in [at : Nat, got : [PoolFields -> Nat]] /\ cache.at <= clock
          /\ \A f \in PoolFields : InForce(cache.got[f], cache.at - Latency)
    /\ loading # Unknown =>
          /\ UnderWay(loading, PoolFields)
          /\ loading.got["lines"] # Unknown => loading.got["summary"] # Unknown
    /\ WhoWait(waiting) # {} => loading # Unknown

\* FrozenRegistry: one reading at a time; what it says is right unless the reading was not
\* whole; and it does not grow old without being read again.
RegistryInv ==
    /\ state # Unknown =>
          /\ state \in [version : Nat, frozen : BOOLEAN, at : Nat] /\ state.at <= clock
          /\ InForce(state.version, state.at - Latency)
          /\ IF unread THEN state.frozen => Frozen(state.version)
                       ELSE state.frozen = Frozen(state.version)
    /\ refreshing # Unknown => UnderWay(refreshing, {"account"})
    /\ unread \in BOOLEAN /\ busy \in BOOLEAN
    /\ busy <=> refreshing # Unknown
    /\ state # Unknown /\ ~unread =>
          \/ clock <= state.at + LEARN + 1
          \/ refreshing # Unknown /\ refreshing.since <= state.at + LEARN + 1

\* The calls of chain.setFrozen wait in their queue; the first one may be on the chain.
QueueInv ==
    /\ freezes \in Seq([frozen : BOOLEAN, done : Nat \cup {Unknown}])
    /\ \A i \in DOMAIN freezes \ {1} : freezes[i].done = Unknown
    /\ freezes # <<>> /\ freezes[1].done # Unknown =>
          InForce(freezes[1].done, clock) /\ freezes[1].frozen = Frozen(freezes[1].done)

\* What is handed out in a step is not older than ReadingsAreFresh wants.
Fresh(h) ==
    /\ h.what = "quote" => \/ h.age <= REFRESH - 1 + Latency
                           \/ h.failed /\ h.age <= STALE - 1 + 2 * Latency
    /\ h.what = "pool" => h.age <= CACHE - 1 + Latency
    /\ h.what = "frozen" => h.failed \/ h.age <= LEARN + 1 + 2 * Latency

HandedFresh == \A h \in ages : Fresh(h)

ReadingsInv == WorldTyped /\ PriceInv /\ SummaryInv /\ RegistryInv /\ QueueInv /\ HandedFresh

-----------------------------------------------------------------------------
\* Time.

LEMMA IntervalsAreNat ==
    /\ REFRESH \in Nat /\ STALE \in Nat /\ CACHE \in Nat /\ LEARN \in Nat /\ Latency \in Nat
    /\ MaxWorld \in Nat /\ Unknown \notin Nat
  BY ReadingsAssumption

\* A version in force at t was replaced no longer ago than that.
LEMMA AgeOfInForce ==
    ASSUME WorldTyped, NEW v, NEW t \in Int, t <= clock, InForce(v, t)
    PROVE  Age(v) \in Int /\ Age(v) <= clock - t
  BY ReadingsAssumption DEF WorldTyped, InForce, Age

\* What is in force stays so: a version ends now or later.
LEMMA StaysInForce ==
    ASSUME WorldTyped, WorldMoves \/ UNCHANGED <<world, lasted>>,
           NEW v, NEW t \in Int, t <= clock, InForce(v, t)
    PROVE  InForce(v, t)'
<1>1. clock \in Nat /\ world \in Nat /\ MaxWorld \in Nat /\ world <= MaxWorld
      /\ lasted \in [0..MaxWorld -> Nat]
      BY ReadingsAssumption DEF WorldTyped
<1>2. v \in 0..world /\ (v # world => lasted[v] >= t)
      BY DEF InForce
<1>3. CASE UNCHANGED <<world, lasted>>
      BY <1>2, <1>3 DEF InForce
<1>4. CASE WorldMoves
  <2>1. world' = world + 1 /\ lasted' = [lasted EXCEPT ![world] = clock]
        BY <1>4 DEF WorldMoves
  <2>2. v \in 0..world' /\ v \in 0..MaxWorld
        BY <1>1, <1>2, <2>1
  <2>3. lasted'[v] >= t
        BY <1>1, <1>2, <2>1, <2>2
  <2>4. QED
        BY <2>2, <2>3 DEF InForce
<1>5. QED
      BY <1>3, <1>4

\* The latest version is in force at any time, and an earlier time is easier.
LEMMA NowInForce ==
    ASSUME WorldTyped, NEW t \in Int
    PROVE  InForce(world, t) /\ world \in Nat
  BY ReadingsAssumption DEF WorldTyped, InForce

LEMMA EarlierInForce ==
    ASSUME WorldTyped, NEW v, NEW t \in Int, NEW s \in Int, s <= t, InForce(v, t)
    PROVE  InForce(v, s) /\ v \in Nat
  BY ReadingsAssumption DEF WorldTyped, InForce

LEMMA WorldStaysTyped ==
    ASSUME WorldTyped, clock' \in {clock, clock + 1}, WorldMoves \/ UNCHANGED <<world, lasted>>
    PROVE  WorldTyped'
  <1>1. clock' \in Nat
    BY DEF WorldTyped
  <1>2. CASE WorldMoves
    BY <1>1, <1>2, IntervalsAreNat DEF WorldTyped, WorldMoves
  <1>3. CASE UNCHANGED <<world, lasted>>
    BY <1>1, <1>3 DEF WorldTyped
  <1> QED BY <1>2, <1>3

-----------------------------------------------------------------------------
\* Readings under way.

\* What the three services read.
Read == {{"reserves"}, {"account"}, PoolFields}

LEMMA ReadingBegins ==
    ASSUME WorldTyped, NEW fields \in Read,
           NEW r, r = Reading(fields)
    PROVE  /\ r # Unknown /\ UnderWay(r, fields)
           /\ r.since = clock /\ \A f \in fields : r.got[f] = Unknown
  <1>1. r \in [since : Nat, got : [fields -> Nat \cup {Unknown}]]
    BY DEF Reading, WorldTyped
  <1>2. r # Unknown
    BY <1>1, ReadingsAssumption DEF Read, PoolFields
  <1>3. r.since = clock /\ \A f \in fields : r.got[f] = Unknown
    BY DEF Reading
  <1>4. r.since <= clock /\ clock <= r.since + Latency
    BY <1>3, IntervalsAreNat DEF WorldTyped
  <1>5. \A f \in fields : r.got[f] # Unknown => InForce(r.got[f], r.since)
    BY <1>3
  <1>6. UnderWay(r, fields)
    BY <1>1, <1>4, <1>5 DEF UnderWay
  <1> QED BY <1>2, <1>3, <1>6

LEMMA ReadingGets ==
    ASSUME WorldTyped, NEW fields \in Read, NEW f \in fields,
           NEW q, UnderWay(q, fields), NEW r, r = Reads(q, f)
    PROVE  /\ r # Unknown /\ UnderWay(r, fields)
           /\ r.since = q.since /\ r.got[f] # Unknown
           /\ \A g \in fields \ {f} : r.got[g] = q.got[g]
  <1>1. q \in [since : Nat, got : [fields -> Nat \cup {Unknown}]]
    BY DEF UnderWay
  <1>2. /\ r \in [since : Nat, got : [fields -> Nat \cup {Unknown}]]
        /\ r.since = q.since
        /\ r.got[f] = world
        /\ \A g \in fields \ {f} : r.got[g] = q.got[g]
    BY <1>1, NowInForce DEF Reads
  <1>3. r # Unknown
    BY <1>2, ReadingsAssumption DEF Read, PoolFields
  <1>4. world \in Nat /\ InForce(world, q.since) /\ world # Unknown
    BY <1>1, NowInForce, ReadingsAssumption
  <1>5. \A g \in fields : r.got[g] # Unknown => InForce(r.got[g], r.since)
    BY <1>2, <1>4 DEF UnderWay
  <1> QED BY <1>2, <1>3, <1>4, <1>5 DEF UnderWay

\* A reading under way is still one after a step in which the chain moves or a tick passes.
LEMMA ReadingGoesOn ==
    ASSUME WorldTyped, WorldMoves \/ UNCHANGED <<world, lasted>>,
           NEW fields, NEW r, UnderWay(r, fields),
           \/ clock' = clock
           \/ clock' = clock + 1 /\ clock < r.since + Latency
    PROVE  UnderWay(r, fields)'
  <1>1. r \in [since : Nat, got : [fields -> Nat \cup {Unknown}]] /\ r.since <= clock
    BY DEF UnderWay
  <1>2. r.since <= clock' /\ clock' <= r.since + Latency
    BY <1>1, ReadingsAssumption DEF UnderWay, WorldTyped
  <1>3. \A f \in fields : r.got[f] # Unknown => InForce(r.got[f], r.since)'
    BY <1>1, StaysInForce DEF UnderWay
  <1> QED BY <1>1, <1>2, <1>3 DEF UnderWay

-----------------------------------------------------------------------------
\* What is not touched by a step stays right while the chain moves and time passes.

LEMMA QuoteStays ==
    ASSUME WorldTyped, PriceInv, UNCHANGED priceVars, WorldMoves \/ UNCHANGED <<world, lasted>>,
           \/ clock' = clock
           \/ clock' = clock + 1 /\ InTime(fetching)
    PROVE  PriceInv'
  <1>1. UNCHANGED <<last, fetching, asking>> /\ clock' >= clock /\ clock' \in Nat /\ clock \in Nat
    BY DEF priceVars, WorldTyped
  <1>2. ASSUME last # Unknown
        PROVE  /\ last \in [version : Nat, at : Nat] /\ last.at <= clock'
               /\ InForce(last.version, last.at - Latency)'
    <2>1. /\ last \in [version : Nat, at : Nat] /\ last.at <= clock
          /\ InForce(last.version, last.at - Latency)
      BY <1>2 DEF PriceInv
    <2>2. last.at - Latency \in Int /\ last.at - Latency <= clock /\ last.at <= clock'
      BY <1>1, <2>1, IntervalsAreNat
    <2>3. InForce(last.version, last.at - Latency)'
      BY <1>1, <2>1, <2>2, StaysInForce, IntervalsAreNat
    <2> QED BY <2>1, <2>2, <2>3
  <1>3. ASSUME fetching # Unknown
        PROVE  UnderWay(fetching, {"reserves"})'
    <2>1. UnderWay(fetching, {"reserves"})
      BY <1>3 DEF PriceInv
    <2>2. clock' = clock \/ (clock' = clock + 1 /\ clock < fetching.since + Latency)
      BY <1>3 DEF InTime
    <2> QED BY <1>1, <2>1, <2>2, ReadingGoesOn
  <1>4. asking \in [Readers -> Nat \cup {Unknown}]
    BY DEF PriceInv
  <1>5. ASSUME NEW r \in Readers, asking[r] # Unknown
        PROVE  fetching # Unknown /\ fetching.since <= asking[r] /\ asking[r] <= clock'
    <2>1. fetching # Unknown /\ fetching.since <= asking[r] /\ asking[r] <= clock
      BY <1>5 DEF PriceInv, WhoWait
    <2>2. asking[r] \in Nat
      BY <1>4, <1>5
    <2> QED BY <1>1, <2>1, <2>2
  <1> QED BY <1>1, <1>2, <1>3, <1>4, <1>5 DEF PriceInv, WhoWait

LEMMA SummaryStays ==
    ASSUME WorldTyped, SummaryInv, UNCHANGED summaryVars, WorldMoves \/ UNCHANGED <<world, lasted>>,
           \/ clock' = clock
           \/ clock' = clock + 1 /\ InTime(loading)
    PROVE  SummaryInv'
  <1>1. UNCHANGED <<cache, loading, waiting>> /\ clock' >= clock /\ clock' \in Nat /\ clock \in Nat
    BY DEF summaryVars, WorldTyped
  <1>2. ASSUME cache # Unknown
        PROVE  /\ cache \in [at : Nat, got : [PoolFields -> Nat]] /\ cache.at <= clock'
               /\ \A f \in PoolFields : InForce(cache.got[f], cache.at - Latency)'
    <2>1. /\ cache \in [at : Nat, got : [PoolFields -> Nat]] /\ cache.at <= clock
          /\ \A f \in PoolFields : InForce(cache.got[f], cache.at - Latency)
      BY <1>2 DEF SummaryInv
    <2>2. cache.at - Latency \in Int /\ cache.at - Latency <= clock /\ cache.at <= clock'
      BY <1>1, <2>1, IntervalsAreNat
    <2>3. \A f \in PoolFields : InForce(cache.got[f], cache.at - Latency)'
      BY <1>1, <2>1, <2>2, StaysInForce, IntervalsAreNat
    <2> QED BY <2>1, <2>2, <2>3
  <1>3. ASSUME loading # Unknown
        PROVE  UnderWay(loading, PoolFields)'
    <2>1. UnderWay(loading, PoolFields)
      BY <1>3 DEF SummaryInv
    <2>2. clock' = clock \/ (clock' = clock + 1 /\ clock < loading.since + Latency)
      BY <1>3 DEF InTime
    <2> QED BY <1>1, <2>1, <2>2, ReadingGoesOn
  <1>4. WhoWait(waiting)' = WhoWait(waiting)
    BY <1>1 DEF WhoWait
  <1> QED BY <1>1, <1>2, <1>3, <1>4 DEF SummaryInv

\* The account is asked for in every tick, so that what the registry says cannot grow old
\* without a reading under way (FrozenRegistry, verifier.service.ts).
LEMMA RegistryStays ==
    ASSUME WorldTyped, RegistryInv, UNCHANGED <<state, refreshing, busy, unread>>,
           WorldMoves \/ UNCHANGED <<world, lasted>>,
           \/ clock' = clock
           \/ /\ clock' = clock + 1 /\ InTime(refreshing)
              /\ StateOld => busy \/ unread \/ state = Unknown
    PROVE  RegistryInv'
  <1>1. /\ UNCHANGED <<state, refreshing, busy, unread>>
        /\ clock' >= clock /\ clock' \in Nat /\ clock \in Nat
    BY DEF WorldTyped
  <1>2. ASSUME state # Unknown
        PROVE  /\ state \in [version : Nat, frozen : BOOLEAN, at : Nat] /\ state.at <= clock'
               /\ InForce(state.version, state.at - Latency)'
    <2>1. /\ state \in [version : Nat, frozen : BOOLEAN, at : Nat] /\ state.at <= clock
          /\ InForce(state.version, state.at - Latency)
      BY <1>2 DEF RegistryInv
    <2>2. state.at - Latency \in Int /\ state.at - Latency <= clock /\ state.at <= clock'
      BY <1>1, <2>1, IntervalsAreNat
    <2>3. InForce(state.version, state.at - Latency)'
      BY <1>1, <2>1, <2>2, StaysInForce, IntervalsAreNat
    <2> QED BY <2>1, <2>2, <2>3
  <1>3. ASSUME refreshing # Unknown
        PROVE  UnderWay(refreshing, {"account"})'
    <2>1. UnderWay(refreshing, {"account"})
      BY <1>3 DEF RegistryInv
    <2>2. clock' = clock \/ (clock' = clock + 1 /\ clock < refreshing.since + Latency)
      BY <1>3 DEF InTime
    <2> QED BY <1>1, <2>1, <2>2, ReadingGoesOn
  <1>4. ASSUME state # Unknown, ~unread
        PROVE  \/ clock' <= state.at + LEARN + 1
               \/ refreshing # Unknown /\ refreshing.since <= state.at + LEARN + 1
    <2>1. state.at \in Nat /\ state.at + LEARN + 1 \in Nat
      BY <1>2, <1>4, IntervalsAreNat
    <2>2. \/ clock <= state.at + LEARN + 1
          \/ refreshing # Unknown /\ refreshing.since <= state.at + LEARN + 1
      BY <1>4 DEF RegistryInv
    <2>3. CASE clock' = clock
      BY <2>2, <2>3
    <2>4. CASE StateOld /\ clock' = clock + 1
      <3>1. refreshing # Unknown
        BY <1>4, <2>4 DEF RegistryInv
      <3>2. refreshing.since \in Nat /\ refreshing.since <= clock
        BY <3>1 DEF RegistryInv, UnderWay
      <3> QED BY <1>1, <2>1, <2>2, <3>1, <3>2
    <2>5. CASE ~StateOld /\ clock' = clock + 1
      <3>1. ~(clock - state.at > LEARN)
        BY <1>4, <2>5 DEF StateOld
      <3> QED BY <1>1, <2>1, <2>5, <3>1, IntervalsAreNat
    <2> QED BY <2>3, <2>4, <2>5
  <1>5. /\ state # Unknown => IF unread THEN state.frozen => Frozen(state.version)
                                        ELSE state.frozen = Frozen(state.version)
        /\ unread \in BOOLEAN /\ busy \in BOOLEAN
        /\ busy <=> refreshing # Unknown
    BY DEF RegistryInv
  <1> QED BY <1>1, <1>2, <1>3, <1>4, <1>5 DEF RegistryInv

LEMMA QueueStays ==
    ASSUME WorldTyped, QueueInv, UNCHANGED freezes, WorldMoves \/ UNCHANGED <<world, lasted>>,
           \/ clock' = clock
           \/ freezes # <<>> => freezes[1].done = Unknown
    PROVE  QueueInv'
  <1>1. clock \in Int /\ clock <= clock
    BY DEF WorldTyped
  <1>2. ASSUME clock' = clock, freezes # <<>>, freezes[1].done # Unknown
        PROVE  InForce(freezes[1].done, clock)'
    <2>1. InForce(freezes[1].done, clock)
      BY <1>2 DEF QueueInv
    <2>2. ASSUME NEW n, n = clock
          PROVE  InForce(freezes[1].done, n)'
      BY <1>1, <1>2, <2>1, <2>2, StaysInForce
    <2> QED BY <1>2, <2>2
  <1> QED BY <1>2 DEF QueueInv

-----------------------------------------------------------------------------
\* PriceService.

LEMMA FreshQuote ==
    ASSUME NEW n
    PROVE  /\ n <= REFRESH - 1 + Latency => Fresh(Hands("quote", FALSE, n))
           /\ n <= STALE - 1 + 2 * Latency => Fresh(Hands("quote", TRUE, n))
  <1>1. ASSUME NEW h, h = Hands("quote", FALSE, n), n <= REFRESH - 1 + Latency
        PROVE  Fresh(h)
    <2>1. h.what = "quote" /\ h.age = n
      BY <1>1 DEF Hands
    <2> QED BY <1>1, <2>1 DEF Fresh
  <1>2. ASSUME NEW h, h = Hands("quote", TRUE, n), n <= STALE - 1 + 2 * Latency
        PROVE  Fresh(h)
    <2>1. h.what = "quote" /\ h.failed /\ h.age = n
      BY <1>2 DEF Hands
    <2> QED BY <1>2, <2>1 DEF Fresh
  <1> QED BY <1>1, <1>2

LEMMA FreshSummary ==
    ASSUME NEW n, n <= CACHE - 1 + Latency
    PROVE  Fresh(Hands("pool", FALSE, n))
  <1>1. Hands("pool", FALSE, n).what = "pool" /\ Hands("pool", FALSE, n).age = n
    BY DEF Hands
  <1> QED BY <1>1 DEF Fresh

LEMMA FreshWord ==
    ASSUME NEW n, NEW failed \in BOOLEAN, failed = FALSE => n <= LEARN + 1 + 2 * Latency
    PROVE  Fresh(Hands("frozen", failed, n))
  <1>1. ASSUME NEW h, h = Hands("frozen", failed, n)
        PROVE  Fresh(h)
    <2>1. h.what = "frozen" /\ h.age = n
      BY <1>1 DEF Hands
    <2>2. CASE failed = TRUE
      <3>1. h.failed
        BY <1>1, <2>2 DEF Hands
      <3> QED BY <2>1, <3>1 DEF Fresh
    <2>3. CASE failed = FALSE
      BY <2>1, <2>3 DEF Fresh
    <2> QED BY <2>2, <2>3
  <1> QED BY <1>1

\* Who waits is released with the answer.
LEMMA NobodyWaits == Released \in [Readers -> Nat \cup {Unknown}] /\ WhoWait(Released) = {}
  BY DEF Released, WhoWait

\* The age of a quote that was kept for less than n.
LEMMA QuoteAge ==
    ASSUME WorldTyped, PriceInv, last # Unknown, NEW n \in Int, clock - last.at <= n
    PROVE  Age(last.version) \in Int /\ Age(last.version) <= n + Latency
  <1>1. /\ last.at \in Nat /\ last.at <= clock /\ clock \in Nat
        /\ InForce(last.version, last.at - Latency)
    BY DEF PriceInv, WorldTyped
  <1>2. last.at - Latency \in Int /\ last.at - Latency <= clock
    BY <1>1, IntervalsAreNat
  <1>3. Age(last.version) \in Int /\ Age(last.version) <= clock - (last.at - Latency)
    BY <1>1, <1>2, AgeOfInForce
  <1> QED BY <1>1, <1>3, IntervalsAreNat

LEMMA QuoteAskedKeeps ==
    ASSUME WorldTyped, PriceInv, NEW r \in Readers, QuoteAsked(r)
    PROVE  PriceInv' /\ HandedFresh'
  <1>1. UNCHANGED <<clock, world, lasted, last>> /\ clock \in Nat
    BY DEF QuoteAsked, worldVars, WorldTyped
  <1>2. CASE Recent(last)
    <2>1. UNCHANGED <<fetching, asking>> /\ ages' = {Hands("quote", FALSE, Age(last.version))}
      BY <1>2 DEF QuoteAsked
    <2>2. last # Unknown /\ clock - last.at <= REFRESH - 1 /\ REFRESH - 1 \in Int
      <3>1. last # Unknown /\ clock - last.at < REFRESH
        BY <1>2 DEF Recent
      <3>2. last.at \in Nat
        BY <3>1 DEF PriceInv
      <3> QED BY <1>1, <3>1, <3>2, IntervalsAreNat
    <2>3. Age(last.version) \in Int /\ Age(last.version) <= REFRESH - 1 + Latency
      BY <2>2, QuoteAge
    <2>4. HandedFresh'
      BY <2>1, <2>3, FreshQuote DEF HandedFresh
    <2>5. PriceInv'
      BY <1>1, <2>1, QuoteStays DEF priceVars
    <2> QED BY <2>4, <2>5
  <1>3. CASE ~Recent(last)
    <2> DEFINE new == Reading({"reserves"})
    <2>1. /\ fetching' = IF fetching = Unknown THEN new ELSE fetching
          /\ asking' = [asking EXCEPT ![r] = clock]
          /\ ages' = {} /\ asking[r] = Unknown
      BY <1>3 DEF QuoteAsked
    <2>2. new # Unknown /\ UnderWay(new, {"reserves"}) /\ new.since = clock
      BY ReadingBegins DEF Read
    <2> HIDE DEF new
    <2>3. fetching' # Unknown /\ UnderWay(fetching', {"reserves"}) /\ fetching'.since <= clock
      <3>1. CASE fetching = Unknown
        BY <1>1, <2>1, <2>2, <3>1
      <3>2. CASE fetching # Unknown
        BY <2>1, <3>2 DEF PriceInv, UnderWay
      <3> QED BY <3>1, <3>2
    <2>4. \A q \in WhoWait(asking) :
             fetching' = fetching /\ fetching.since <= asking[q] /\ asking[q] <= clock
      BY <2>1 DEF PriceInv
    <2>5. asking' \in [Readers -> Nat \cup {Unknown}]
      BY <1>1, <2>1 DEF PriceInv
    <2>6. \A q \in WhoWait(asking') :
             fetching' # Unknown /\ fetching'.since <= asking'[q] /\ asking'[q] <= clock'
      <3>1. ASSUME NEW q \in Readers, asking'[q] # Unknown
            PROVE  fetching'.since <= asking'[q] /\ asking'[q] <= clock
        <4>1. CASE q = r
          <5>1. asking'[q] = clock
            BY <2>1, <4>1 DEF PriceInv
          <5> QED BY <1>1, <2>3, <5>1
        <4>2. CASE q # r
          <5>1. asking'[q] = asking[q] /\ q \in WhoWait(asking)
            BY <2>1, <3>1, <4>2 DEF PriceInv, WhoWait
          <5> QED BY <2>4, <5>1
        <4> QED BY <4>1, <4>2
      <3> QED BY <1>1, <2>3, <3>1 DEF WhoWait
    <2>7. UnderWay(fetching, {"reserves"})'
      BY <1>1, <2>3 DEF UnderWay, InForce
    <2>8. last # Unknown =>
            /\ last \in [version : Nat, at : Nat] /\ last.at <= clock
            /\ InForce(last.version, last.at - Latency)
      BY DEF PriceInv
    <2>9. (last # Unknown =>
            /\ last \in [version : Nat, at : Nat] /\ last.at <= clock
            /\ InForce(last.version, last.at - Latency))'
      BY <1>1, <2>8 DEF InForce
    <2>10. PriceInv'
      BY <2>5, <2>6, <2>7, <2>9 DEF PriceInv, WhoWait
    <2>11. HandedFresh'
      BY <2>1 DEF HandedFresh
    <2> QED BY <2>10, <2>11
  <1> QED BY <1>2, <1>3

LEMMA PairReadKeeps ==
    ASSUME WorldTyped, PriceInv, PairRead
    PROVE  PriceInv' /\ HandedFresh'
  <1>1. /\ UNCHANGED <<clock, world, lasted, last, asking>> /\ ages' = {}
        /\ fetching # Unknown /\ fetching' = Reads(fetching, "reserves")
    BY DEF PairRead, worldVars
  <1>2. UnderWay(fetching, {"reserves"})
    BY <1>1 DEF PriceInv
  <1>3. fetching' # Unknown /\ UnderWay(fetching', {"reserves"}) /\ fetching'.since = fetching.since
    BY <1>1, <1>2, ReadingGets DEF Read
  <1>4. UnderWay(fetching, {"reserves"})'
    BY <1>1, <1>3 DEF UnderWay, InForce
  <1>5. (last # Unknown =>
            /\ last \in [version : Nat, at : Nat] /\ last.at <= clock
            /\ InForce(last.version, last.at - Latency))'
    BY <1>1 DEF PriceInv, InForce
  <1>6. asking' \in [Readers -> Nat \cup {Unknown}]
    BY <1>1 DEF PriceInv
  <1>7. \A r \in WhoWait(asking') :
           fetching' # Unknown /\ fetching'.since <= asking'[r] /\ asking'[r] <= clock'
    BY <1>1, <1>3 DEF PriceInv, WhoWait
  <1>8. PriceInv'
    BY <1>4, <1>5, <1>6, <1>7 DEF PriceInv, WhoWait
  <1>9. HandedFresh'
    BY <1>1 DEF HandedFresh
  <1> QED BY <1>8, <1>9

LEMMA QuoteAnsweredKeeps ==
    ASSUME WorldTyped, PriceInv, QuoteAnswered
    PROVE  PriceInv' /\ HandedFresh'
  <1> DEFINE v == fetching.got.reserves
  <1>1. /\ UNCHANGED <<clock, world, lasted>> /\ fetching # Unknown /\ v # Unknown
        /\ last' = [version |-> v, at |-> clock]
        /\ fetching' = Unknown /\ asking' = Released
        /\ ages' = {Hands("quote", FALSE, Age(v)) : r \in WhoWait(asking)}
    BY DEF QuoteAnswered, worldVars
  <1>2. /\ fetching.since \in Nat /\ fetching.since <= clock /\ clock <= fetching.since + Latency
        /\ InForce(v, fetching.since) /\ clock \in Nat
    BY <1>1 DEF PriceInv, UnderWay, WorldTyped
  <1> HIDE DEF v
  <1>3. clock - Latency \in Int /\ clock - Latency <= fetching.since /\ fetching.since \in Int
    BY <1>2, IntervalsAreNat
  <1>4. InForce(v, clock - Latency) /\ v \in Nat
    BY <1>2, <1>3, EarlierInForce
  <1>5. Age(v) \in Int /\ Age(v) <= clock - fetching.since
    BY <1>2, AgeOfInForce
  <1>6. Age(v) \in Int /\ Age(v) <= REFRESH - 1 + Latency
    <2>1. REFRESH \in Nat \ {0}
      BY ReadingsAssumption
    <2> QED BY <1>2, <1>5, <2>1, IntervalsAreNat
  <1>7. HandedFresh'
    BY <1>1, <1>6, FreshQuote DEF HandedFresh
  <1>8. /\ last' \in [version : Nat, at : Nat] /\ last'.at = clock /\ last'.version = v
    BY <1>1, <1>2, <1>4
  <1>9. InForce(last.version, last.at - Latency)' /\ last'.at <= clock'
    BY <1>1, <1>2, <1>4, <1>8 DEF InForce
  <1>10. PriceInv'
    BY <1>1, <1>8, <1>9, NobodyWaits DEF PriceInv, WhoWait
  <1> QED BY <1>7, <1>10

\* What was asked for when the last quote was not stale yet is answered with it, however long
\* the reading that failed took (price.service.ts:89).
LEMMA QuoteFailsKeeps ==
    ASSUME WorldTyped, PriceInv, QuoteFails
    PROVE  PriceInv' /\ HandedFresh'
  <1>1. /\ UNCHANGED <<clock, world, lasted, last>> /\ fetching # Unknown
        /\ fetching' = Unknown /\ asking' = Released
        /\ ages' = {Hands("quote", TRUE, Age(last.version)) : r \in {s \in WhoWait(asking) : StillGood(s)}}
    BY DEF QuoteFails, worldVars
  <1>2. ASSUME NEW r \in WhoWait(asking), StillGood(r)
        PROVE  Age(last.version) \in Int /\ Age(last.version) <= STALE - 1 + 2 * Latency
    <2>1. last # Unknown /\ asking[r] - last.at < STALE
      BY <1>2 DEF StillGood
    <2>2. /\ last.at \in Nat /\ asking[r] \in Nat /\ clock \in Nat
          /\ fetching.since \in Nat /\ fetching.since <= asking[r]
          /\ clock <= fetching.since + Latency
      BY <1>1, <2>1 DEF PriceInv, UnderWay, WorldTyped, WhoWait
    <2> DEFINE n == STALE + Latency - 1
    <2>3. n \in Int /\ clock - last.at <= n
      BY <2>1, <2>2, IntervalsAreNat
    <2> HIDE DEF n
    <2>4. Age(last.version) \in Int /\ Age(last.version) <= n + Latency
      BY <2>1, <2>3, QuoteAge
    <2> QED BY <2>4, IntervalsAreNat DEF n
  <1>3. HandedFresh'
    BY <1>1, <1>2, FreshQuote DEF HandedFresh
  <1>4. (last # Unknown =>
            /\ last \in [version : Nat, at : Nat] /\ last.at <= clock
            /\ InForce(last.version, last.at - Latency))'
    BY <1>1 DEF PriceInv, InForce
  <1>5. PriceInv'
    BY <1>1, <1>4, NobodyWaits DEF PriceInv, WhoWait
  <1> QED BY <1>3, <1>5

-----------------------------------------------------------------------------
\* FloatService.

\* The age of a summary that was kept for less than n.
LEMMA SummaryAge ==
    ASSUME WorldTyped, SummaryInv, cache # Unknown, NEW n \in Int, clock - cache.at <= n,
           NEW f \in PoolFields
    PROVE  Age(cache.got[f]) <= n + Latency
  <1>1. /\ cache.at \in Nat /\ cache.at <= clock /\ clock \in Nat
        /\ InForce(cache.got[f], cache.at - Latency)
    BY DEF SummaryInv, WorldTyped
  <1>2. cache.at - Latency \in Int /\ cache.at - Latency <= clock
    BY <1>1, IntervalsAreNat
  <1>3. Age(cache.got[f]) \in Int /\ Age(cache.got[f]) <= clock - (cache.at - Latency)
    BY <1>1, <1>2, AgeOfInForce
  <1> QED BY <1>1, <1>3, IntervalsAreNat

LEMMA CacheStays ==
    ASSUME SummaryInv, UNCHANGED <<clock, world, lasted, cache>>
    PROVE  (cache # Unknown =>
              /\ cache \in [at : Nat, got : [PoolFields -> Nat]] /\ cache.at <= clock
              /\ \A f \in PoolFields : InForce(cache.got[f], cache.at - Latency))'
  BY DEF SummaryInv, InForce

LEMMA SummaryAskedKeeps ==
    ASSUME WorldTyped, SummaryInv, NEW r \in Readers, SummaryAsked(r)
    PROVE  SummaryInv' /\ HandedFresh'
  <1>1. UNCHANGED <<clock, world, lasted, cache>> /\ clock \in Nat
    BY DEF SummaryAsked, worldVars, WorldTyped
  <1>2. CASE cache # Unknown /\ clock - cache.at < CACHE
    <2>1. /\ UNCHANGED <<loading, waiting>>
          /\ ages' = {Hands("pool", FALSE, Age(cache.got[f])) : f \in PoolFields}
      BY <1>2 DEF SummaryAsked
    <2>2. CACHE - 1 \in Int /\ clock - cache.at <= CACHE - 1
      BY <1>1, <1>2, IntervalsAreNat DEF SummaryInv
    <2>3. \A f \in PoolFields : Age(cache.got[f]) <= CACHE - 1 + Latency
      BY <1>2, <2>2, SummaryAge
    <2>4. HandedFresh'
      BY <2>1, <2>3, FreshSummary DEF HandedFresh
    <2>5. SummaryInv'
      BY <1>1, <2>1, SummaryStays DEF summaryVars
    <2> QED BY <2>4, <2>5
  <1>3. CASE ~(cache # Unknown /\ clock - cache.at < CACHE)
    <2> DEFINE new == Reading(PoolFields)
    <2>1. loading' = (IF loading = Unknown THEN new ELSE loading) /\ ages' = {}
      BY <1>3 DEF SummaryAsked
    <2>2. /\ new # Unknown /\ UnderWay(new, PoolFields)
          /\ new.got["lines"] = Unknown
      BY ReadingBegins DEF Read, PoolFields
    <2> HIDE DEF new
    <2>3. /\ loading' # Unknown /\ UnderWay(loading', PoolFields)
          /\ loading'.got["lines"] # Unknown => loading'.got["summary"] # Unknown
      BY <2>1, <2>2 DEF SummaryInv
    <2>4. UnderWay(loading, PoolFields)'
      BY <1>1, <2>3 DEF UnderWay, InForce
    <2>5. SummaryInv'
      BY <1>1, <2>3, <2>4, CacheStays DEF SummaryInv
    <2>6. HandedFresh'
      BY <2>1 DEF HandedFresh
    <2> QED BY <2>5, <2>6
  <1> QED BY <1>2, <1>3

LEMMA PoolReadKeeps ==
    ASSUME WorldTyped, SummaryInv, NEW f \in PoolFields, PoolRead(f)
    PROVE  SummaryInv' /\ HandedFresh'
  <1>1. /\ UNCHANGED <<clock, world, lasted, cache, waiting>> /\ ages' = {}
        /\ loading # Unknown /\ loading' = Reads(loading, f)
        /\ f = "lines" => loading.got["summary"] # Unknown
    BY DEF PoolRead, worldVars
  <1>2. UnderWay(loading, PoolFields)
    BY <1>1 DEF SummaryInv
  <1>3. /\ loading' # Unknown /\ UnderWay(loading', PoolFields)
        /\ loading'.got[f] # Unknown
        /\ \A g \in PoolFields \ {f} : loading'.got[g] = loading.got[g]
    <2>1. PoolFields \in Read
      BY DEF Read
    <2> QED BY <1>1, <1>2, <2>1, ReadingGets
  <1>4. UnderWay(loading, PoolFields)'
    BY <1>1, <1>3 DEF UnderWay, InForce
  <1>5. loading'.got["lines"] # Unknown => loading'.got["summary"] # Unknown
    <2>1. CASE f = "summary"
      BY <1>3, <2>1
    <2>2. CASE f = "lines"
      BY <1>1, <1>3, <2>2 DEF PoolFields
    <2> QED BY <2>1, <2>2 DEF PoolFields
  <1>6. SummaryInv'
    BY <1>1, <1>3, <1>4, <1>5, CacheStays DEF SummaryInv
  <1>7. HandedFresh'
    BY <1>1 DEF HandedFresh
  <1> QED BY <1>6, <1>7

LEMMA PoolLoadedKeeps ==
    ASSUME WorldTyped, SummaryInv, PoolLoaded
    PROVE  SummaryInv' /\ HandedFresh'
  <1> DEFINE got == loading.got
             since == loading.since
  <1>1. /\ UNCHANGED <<clock, world, lasted>> /\ loading # Unknown /\ got["lines"] # Unknown
        /\ cache' = [at |-> clock, got |-> got]
        /\ loading' = Unknown /\ waiting' = Released
        /\ ages' = {Hands("pool", FALSE, Age(got[f])) : f \in PoolFields}
    BY DEF PoolLoaded, worldVars
  <1>2. /\ got \in [PoolFields -> Nat \cup {Unknown}]
        /\ since \in Nat /\ since <= clock /\ clock <= since + Latency /\ clock \in Nat
        /\ \A f \in PoolFields : got[f] # Unknown => InForce(got[f], since)
        /\ got["summary"] # Unknown
    BY <1>1 DEF SummaryInv, UnderWay, WorldTyped
  <1> HIDE DEF got, since
  <1>3. \A f \in PoolFields : got[f] # Unknown
    BY <1>1, <1>2 DEF PoolFields
  <1>4. clock - Latency \in Int /\ clock - Latency <= since /\ since \in Int
    BY <1>2, IntervalsAreNat
  <1>5. \A f \in PoolFields : InForce(got[f], clock - Latency) /\ got[f] \in Nat
    BY <1>2, <1>3, <1>4, EarlierInForce
  <1>6. \A f \in PoolFields : Age(got[f]) <= CACHE - 1 + Latency
    <2>1. CACHE \in Nat \ {0}
      BY ReadingsAssumption
    <2>2. ASSUME NEW f \in PoolFields
          PROVE  Age(got[f]) <= CACHE - 1 + Latency
      <3>1. Age(got[f]) \in Int /\ Age(got[f]) <= clock - since
        BY <1>2, <1>3, <1>4, AgeOfInForce
      <3> QED BY <1>2, <2>1, <3>1, IntervalsAreNat
    <2> QED BY <2>2
  <1>7. HandedFresh'
    BY <1>1, <1>6, FreshSummary DEF HandedFresh
  <1>8. cache' \in [at : Nat, got : [PoolFields -> Nat]] /\ cache'.at = clock /\ cache'.got = got
    BY <1>1, <1>2, <1>5
  <1>9. \A f \in PoolFields : InForce(cache.got[f], cache.at - Latency)'
    BY <1>1, <1>5, <1>8 DEF InForce
  <1>10. SummaryInv'
    BY <1>1, <1>2, <1>8, <1>9, NobodyWaits DEF SummaryInv
  <1> QED BY <1>7, <1>10

LEMMA PoolFailsKeeps ==
    ASSUME WorldTyped, SummaryInv, PoolFails
    PROVE  SummaryInv' /\ HandedFresh'
  <1>1. /\ UNCHANGED <<clock, world, lasted, cache>>
        /\ loading' = Unknown /\ waiting' = Released /\ ages' = {}
    BY DEF PoolFails, worldVars
  <1> QED BY <1>1, CacheStays, NobodyWaits DEF SummaryInv, HandedFresh

-----------------------------------------------------------------------------
\* FrozenRegistry and the panel.

\* How old the registry's word is, if its last reading was whole: at most LEARN + 1 ticks pass
\* before the next reading, and each of the two takes Latency.
LEMMA WordAge ==
    ASSUME WorldTyped, RegistryInv, state # Unknown, unread = FALSE
    PROVE  Age(state.version) <= LEARN + 1 + 2 * Latency
  <1>1. /\ state.at \in Nat /\ state.at <= clock /\ clock \in Nat
        /\ InForce(state.version, state.at - Latency)
    BY DEF RegistryInv, WorldTyped
  <1>2. state.at - Latency \in Int /\ state.at - Latency <= clock
    BY <1>1, IntervalsAreNat
  <1>3. Age(state.version) \in Int /\ Age(state.version) <= clock - (state.at - Latency)
    BY <1>1, <1>2, AgeOfInForce
  <1>4. \/ clock <= state.at + LEARN + 1
        \/ refreshing # Unknown /\ refreshing.since <= state.at + LEARN + 1
    BY DEF RegistryInv
  <1>5. refreshing # Unknown => refreshing.since \in Nat /\ clock <= refreshing.since + Latency
    BY DEF RegistryInv, UnderWay
  <1>6. clock <= state.at + LEARN + 1 + Latency
    BY <1>1, <1>4, <1>5, IntervalsAreNat
  <1> QED BY <1>1, <1>3, <1>6, IntervalsAreNat

\* The registry is told a version that was in force a reading ago, and whether that is frozen.
LEMMA LearnsKeeps ==
    ASSUME WorldTyped, RegistryInv, UNCHANGED worldVars,
           NEW v, NEW to \in BOOLEAN, Learns(v, to), InForce(v, clock - Latency),
           unread' \in BOOLEAN,
           IF unread' THEN to => Frozen(v) ELSE to = Frozen(v),
           \/ UNCHANGED <<refreshing, busy>>
           \/ refreshing' = Unknown /\ busy' = FALSE
    PROVE  RegistryInv'
  <1>1. UNCHANGED <<clock, world, lasted>> /\ clock \in Nat
    BY DEF worldVars, WorldTyped
  <1>2. v \in Nat
    <2>1. clock - Latency \in Int /\ clock - Latency <= clock - Latency
      BY <1>1, IntervalsAreNat
    <2> QED BY <2>1, EarlierInForce
  <1>3. /\ state' \in [version : Nat, frozen : BOOLEAN, at : Nat]
        /\ state'.version = v /\ state'.frozen = to /\ state'.at = clock
    BY <1>1, <1>2 DEF Learns
  <1>4. InForce(state.version, state.at - Latency)'
    BY <1>1, <1>3 DEF InForce
  <1>5. ASSUME refreshing' # Unknown
        PROVE  UnderWay(refreshing, {"account"})'
    <2>1. refreshing' = refreshing
      BY <1>5
    <2>2. UnderWay(refreshing, {"account"})
      BY <1>5, <2>1 DEF RegistryInv
    <2> QED BY <1>1, <2>1, <2>2 DEF UnderWay, InForce
  <1>6. busy' \in BOOLEAN /\ (busy' <=> refreshing' # Unknown)
    <2>1. busy \in BOOLEAN /\ (busy <=> refreshing # Unknown)
      BY DEF RegistryInv
    <2>2. CASE busy' = busy /\ refreshing' = refreshing
      BY <2>1, <2>2
    <2>3. CASE busy' = FALSE /\ refreshing' = Unknown
      BY <2>3
    <2> QED BY <2>2, <2>3
  <1>7. clock' <= state'.at + LEARN + 1
    BY <1>1, <1>3, IntervalsAreNat
  <1>8. IF unread' THEN state'.frozen => Frozen(state'.version)
                   ELSE state'.frozen = Frozen(state'.version)
    BY <1>3
  <1> QED BY <1>1, <1>3, <1>4, <1>5, <1>6, <1>7, <1>8 DEF RegistryInv

LEMMA FrozenAskedKeeps ==
    ASSUME WorldTyped, RegistryInv, IsFrozenAsked
    PROVE  RegistryInv' /\ HandedFresh'
  <1>1. /\ UNCHANGED <<clock, world, lasted, state, unread>>
        /\ ages' = IF state = Unknown THEN {}
                   ELSE {Hands("frozen", unread, Age(state.version))}
    BY DEF IsFrozenAsked, worldVars
  <1>2. HandedFresh'
    <2>1. CASE state = Unknown
      BY <1>1, <2>1 DEF HandedFresh
    <2>2. CASE state # Unknown
      <3>1. unread \in BOOLEAN
        BY DEF RegistryInv
      <3>2. Fresh(Hands("frozen", unread, Age(state.version)))
        BY <2>2, <3>1, WordAge, FreshWord
      <3> QED BY <1>1, <2>2, <3>2 DEF HandedFresh
    <2> QED BY <2>1, <2>2
  <1>3. RegistryInv'
    <2>1. CASE UNCHANGED <<busy, refreshing>>
      BY <1>1, <2>1, RegistryStays
    <2>2. CASE StateOld /\ ~busy /\ busy' = TRUE /\ refreshing' = Reading({"account"})
      <3>1. /\ refreshing' # Unknown /\ UnderWay(refreshing', {"account"})
        BY <2>2, ReadingBegins DEF Read
      <3>2. UnderWay(refreshing, {"account"})'
        BY <1>1, <3>1 DEF UnderWay, InForce
      <3>3. refreshing = Unknown
        BY <2>2 DEF RegistryInv
      <3>4. (state # Unknown =>
                /\ state \in [version : Nat, frozen : BOOLEAN, at : Nat] /\ state.at <= clock
                /\ InForce(state.version, state.at - Latency)
                /\ IF unread THEN state.frozen => Frozen(state.version)
                             ELSE state.frozen = Frozen(state.version))'
        BY <1>1 DEF RegistryInv, InForce
      <3>5. (state # Unknown /\ ~unread => clock <= state.at + LEARN + 1)'
        BY <1>1, <3>3 DEF RegistryInv
      <3>6. unread' \in BOOLEAN
        BY <1>1 DEF RegistryInv
      <3> QED BY <2>2, <3>1, <3>2, <3>4, <3>5, <3>6 DEF RegistryInv
    <2> QED BY <2>1, <2>2 DEF IsFrozenAsked
  <1> QED BY <1>2, <1>3

LEMMA AccountReadKeeps ==
    ASSUME WorldTyped, RegistryInv, AccountRead
    PROVE  RegistryInv' /\ HandedFresh'
  <1>1. /\ UNCHANGED <<clock, world, lasted, state, unread, busy>> /\ ages' = {}
        /\ refreshing # Unknown /\ refreshing' = Reads(refreshing, "account")
    BY DEF AccountRead, worldVars
  <1>2. UnderWay(refreshing, {"account"})
    BY <1>1 DEF RegistryInv
  <1>3. /\ refreshing' # Unknown /\ UnderWay(refreshing', {"account"})
        /\ refreshing'.since = refreshing.since
    BY <1>1, <1>2, ReadingGets DEF Read
  <1>4. UnderWay(refreshing, {"account"})'
    BY <1>1, <1>3 DEF UnderWay, InForce
  <1>5. (state # Unknown =>
            /\ state \in [version : Nat, frozen : BOOLEAN, at : Nat] /\ state.at <= clock
            /\ InForce(state.version, state.at - Latency)
            /\ IF unread THEN state.frozen => Frozen(state.version)
                         ELSE state.frozen = Frozen(state.version))'
    BY <1>1 DEF RegistryInv, InForce
  <1>6. (state # Unknown /\ ~unread =>
            \/ clock <= state.at + LEARN + 1
            \/ refreshing # Unknown /\ refreshing.since <= state.at + LEARN + 1)'
    BY <1>1, <1>3 DEF RegistryInv
  <1>7. unread' \in BOOLEAN /\ busy' \in BOOLEAN /\ (busy' <=> refreshing' # Unknown)
    BY <1>1, <1>3 DEF RegistryInv
  <1>8. RegistryInv'
    BY <1>4, <1>5, <1>6, <1>7 DEF RegistryInv
  <1> QED BY <1>1, <1>8 DEF HandedFresh

LEMMA AccountAnsweredKeeps ==
    ASSUME WorldTyped, RegistryInv, AccountAnswered
    PROVE  RegistryInv' /\ HandedFresh'
  <1> DEFINE v == refreshing.got.account
  <1>1. /\ UNCHANGED worldVars /\ ages' = {} /\ refreshing # Unknown /\ v # Unknown
        /\ refreshing' = Unknown /\ busy' = FALSE
    BY DEF AccountAnswered
  <1>2. PICK all \in BOOLEAN : Learns(v, all /\ Frozen(v)) /\ unread' = ~all
    BY DEF AccountAnswered
  <1>3. /\ refreshing.since \in Nat /\ clock <= refreshing.since + Latency /\ clock \in Nat
        /\ InForce(v, refreshing.since)
    BY <1>1 DEF RegistryInv, UnderWay, WorldTyped
  <1> HIDE DEF v
  <1>4. InForce(v, clock - Latency)
    <2>1. clock - Latency \in Int /\ refreshing.since \in Int /\ clock - Latency <= refreshing.since
      BY <1>3, IntervalsAreNat
    <2> QED BY <1>3, <2>1, EarlierInForce
  <1>5. Frozen(v) \in BOOLEAN
    BY DEF Frozen
  <1>6. CASE all = TRUE
    <2>1. Learns(v, Frozen(v)) /\ unread' = FALSE
      BY <1>2, <1>5, <1>6
    <2> QED BY <1>1, <1>4, <1>5, <2>1, LearnsKeeps DEF HandedFresh
  <1>7. CASE all = FALSE
    <2>1. Learns(v, FALSE) /\ unread' = TRUE
      BY <1>2, <1>5, <1>7
    <2> QED BY <1>1, <1>4, <2>1, LearnsKeeps DEF HandedFresh
  <1> QED BY <1>6, <1>7

LEMMA AccountFailsKeeps ==
    ASSUME WorldTyped, RegistryInv, AccountFails
    PROVE  RegistryInv' /\ HandedFresh'
  <1>1. /\ UNCHANGED <<clock, world, lasted, state>> /\ ages' = {}
        /\ refreshing' = Unknown /\ busy' = FALSE /\ unread' = TRUE
    BY DEF AccountFails, worldVars
  <1>2. (state # Unknown =>
            /\ state \in [version : Nat, frozen : BOOLEAN, at : Nat] /\ state.at <= clock
            /\ InForce(state.version, state.at - Latency))'
    BY <1>1 DEF RegistryInv, InForce
  <1>3. state # Unknown => (state.frozen => Frozen(state.version))
    BY DEF RegistryInv
  <1> QED BY <1>1, <1>2, <1>3 DEF RegistryInv, HandedFresh

LEMMA FreezeAskedKeeps ==
    ASSUME WorldTyped, QueueInv, NEW to \in BOOLEAN, FreezeAsked(to)
    PROVE  QueueInv' /\ HandedFresh'
  <1> DEFINE e == [frozen |-> to, done |-> Unknown]
             T == [frozen : BOOLEAN, done : Nat \cup {Unknown}]
  <1>1. UNCHANGED <<clock, world, lasted>> /\ ages' = {} /\ freezes' = Append(freezes, e)
    BY DEF FreezeAsked, worldVars
  <1>2. e \in T /\ e.done = Unknown
    OBVIOUS
  <1>3. freezes \in Seq(T) /\ \A i \in DOMAIN freezes \ {1} : freezes[i].done = Unknown
    BY DEF QueueInv
  <1> HIDE DEF e, T
  <1>4. /\ freezes' \in Seq(T) /\ Len(freezes') = Len(freezes) + 1
        /\ freezes'[Len(freezes) + 1] = e
        /\ \A i \in 1..Len(freezes) : freezes'[i] = freezes[i]
    BY <1>1, <1>2, <1>3
  <1>5. \A i \in DOMAIN freezes' \ {1} : freezes'[i].done = Unknown
    BY <1>2, <1>3, <1>4
  <1>6. ASSUME freezes' # <<>>, freezes'[1].done # Unknown
        PROVE  InForce(freezes[1].done, clock)' /\ freezes'[1].frozen = Frozen(freezes'[1].done)
    <2>1. Len(freezes) \in Nat
      BY <1>3
    <2>2. Len(freezes) # 0
      BY <1>2, <1>4, <1>6, <2>1
    <2>3. freezes # <<>> /\ freezes'[1] = freezes[1]
      BY <1>3, <1>4, <2>1, <2>2
    <2>4. InForce(freezes[1].done, clock) /\ freezes[1].frozen = Frozen(freezes[1].done)
      BY <1>6, <2>3 DEF QueueInv
    <2> QED BY <1>1, <2>3, <2>4 DEF InForce
  <1> QED BY <1>1, <1>4, <1>5, <1>6 DEF QueueInv, HandedFresh, T

\* The chain has the freeze, now or already, and its version says so.
LEMMA FreezeAppliedKeeps ==
    ASSUME WorldTyped, QueueInv, FreezeApplied
    PROVE  QueueInv' /\ HandedFresh' /\ (WorldMoves \/ UNCHANGED <<world, lasted>>)
  <1> DEFINE T == [frozen : BOOLEAN, done : Nat \cup {Unknown}]
  <1>1. /\ clock' = clock /\ ages' = {} /\ freezes # <<>>
        /\ freezes' = [freezes EXCEPT ![1].done = world']
        /\ WorldMoves \/ UNCHANGED <<world, lasted>>
    BY DEF FreezeApplied
  <1>2. freezes \in Seq(T) /\ \A i \in DOMAIN freezes \ {1} : freezes[i].done = Unknown
    BY DEF QueueInv
  <1>3. freezes[1] \in T /\ 1 \in DOMAIN freezes
    <2> HIDE DEF T
    <2>1. freezes \in Seq(T) /\ freezes # <<>>
      BY <1>1, <1>2
    <2> QED BY <2>1
  <1>4. WorldTyped'
    BY <1>1, WorldStaysTyped
  <1>5. world' \in Nat /\ world' \in 0..world' /\ clock \in Nat
    BY <1>4, IntervalsAreNat DEF WorldTyped
  <1>6. Frozen(world') = freezes[1].frozen
    <2>1. Head(freezes) = freezes[1]
      BY <1>1, <1>2
    <2>2. CASE Frozen(world) = freezes[1].frozen
      <3>1. world' = world
        BY <2>1, <2>2 DEF FreezeApplied
      <3> QED BY <2>2, <3>1
    <2>3. CASE Frozen(world) # freezes[1].frozen
      <3>1. world' = world + 1
        BY <2>1, <2>3 DEF FreezeApplied, WorldMoves
      <3>2. world \in Nat
        BY DEF WorldTyped
      <3>3. Frozen(world) = (world % 2 = 1) /\ Frozen(world') = (world' % 2 = 1)
        BY DEF Frozen
      <3>4. (world' % 2 = 1) = ~(world % 2 = 1)
        BY <3>1, <3>2
      <3>5. freezes[1].frozen \in BOOLEAN
        BY <1>3
      <3> QED BY <2>3, <3>3, <3>4, <3>5
    <2> QED BY <2>2, <2>3
  <1> DEFINE e == [freezes[1] EXCEPT !.done = world']
  <1>7. freezes' = [freezes EXCEPT ![1] = e]
    BY <1>1
  <1>8. e \in T /\ e.done = world' /\ e.frozen = freezes[1].frozen
    BY <1>3, <1>5
  <1> HIDE DEF e, T
  <1>9. /\ freezes' \in Seq(T) /\ freezes'[1] = e
        /\ \A i \in DOMAIN freezes' \ {1} : freezes'[i].done = Unknown
    BY <1>2, <1>3, <1>7, <1>8
  <1>10. InForce(freezes[1].done, clock)'
    BY <1>4, <1>5, <1>8, <1>9 DEF InForce
  <1>11. freezes'[1].frozen = Frozen(freezes'[1].done)
    BY <1>6, <1>8, <1>9
  <1> QED BY <1>1, <1>9, <1>10, <1>11 DEF QueueInv, HandedFresh, T

\* The rest of the queue has not been sent yet.
LEMMA QueueShrinks ==
    ASSUME QueueInv, freezes # <<>>, freezes' = Tail(freezes)
    PROVE  QueueInv'
  <1> DEFINE T == [frozen : BOOLEAN, done : Nat \cup {Unknown}]
  <1>1. freezes \in Seq(T) /\ \A i \in DOMAIN freezes \ {1} : freezes[i].done = Unknown
    BY DEF QueueInv
  <1> HIDE DEF T
  <1>2. /\ freezes' \in Seq(T) /\ Len(freezes') = Len(freezes) - 1
        /\ \A i \in 1..(Len(freezes) - 1) : freezes'[i] = freezes[i + 1]
    BY <1>1
  <1>3. \A i \in DOMAIN freezes' : freezes'[i].done = Unknown
    BY <1>1, <1>2
  <1>4. freezes' # <<>> => 1 \in DOMAIN freezes'
    BY <1>2
  <1> QED BY <1>2, <1>3, <1>4 DEF QueueInv, T

LEMMA FreezeReturnsKeeps ==
    ASSUME WorldTyped, QueueInv, RegistryInv, FreezeReturns
    PROVE  QueueInv' /\ RegistryInv' /\ HandedFresh'
  <1> DEFINE v == freezes[1].done
             to == freezes[1].frozen
  <1>1. /\ UNCHANGED worldVars /\ ages' = {} /\ freezes # <<>> /\ v # Unknown
        /\ Learns(v, to) /\ freezes' = Tail(freezes)
        /\ UNCHANGED <<refreshing, busy, unread>>
    BY DEF FreezeReturns, QueueInv
  <1>2. InForce(v, clock) /\ to = Frozen(v) /\ to \in BOOLEAN
    <2>1. InForce(v, clock) /\ to = Frozen(v)
      BY <1>1 DEF QueueInv
    <2>2. Frozen(v) \in BOOLEAN
      BY DEF Frozen
    <2> HIDE DEF v, to
    <2> QED BY <2>1, <2>2
  <1> HIDE DEF v, to
  <1>3. InForce(v, clock - Latency)
    <2>1. clock \in Int /\ clock - Latency \in Int /\ clock - Latency <= clock
      BY IntervalsAreNat DEF WorldTyped
    <2> QED BY <1>2, <2>1, EarlierInForce
  <1>4. unread' \in BOOLEAN /\ IF unread' THEN to => Frozen(v) ELSE to = Frozen(v)
    BY <1>1, <1>2 DEF RegistryInv
  <1>5. RegistryInv'
    BY <1>1, <1>2, <1>3, <1>4, LearnsKeeps
  <1>6. QueueInv'
    BY <1>1, QueueShrinks
  <1> QED BY <1>1, <1>5, <1>6 DEF HandedFresh

-----------------------------------------------------------------------------
\* All together.

\* A step of one service in which the chain stands still leaves the others as they are.
LEMMA ServicesKeep ==
    ASSUME ReadingsInv, PriceNext \/ PoolNext \/ RegistryNext
    PROVE  ReadingsInv'
  <1>1. WorldTyped /\ PriceInv /\ SummaryInv /\ RegistryInv /\ QueueInv
    BY DEF ReadingsInv
  <1>2. ASSUME PriceNext PROVE ReadingsInv'
    <2>1. PriceInv' /\ HandedFresh'
      BY <1>1, <1>2, QuoteAskedKeeps, PairReadKeeps, QuoteAnsweredKeeps, QuoteFailsKeeps
         DEF PriceNext
    <2>2. UNCHANGED <<worldVars, summaryVars, registryVars>>
      BY <1>2 DEF PriceNext, QuoteAsked, PairRead, QuoteAnswered, QuoteFails
    <2> QED BY <1>1, <2>1, <2>2, WorldStaysTyped, SummaryStays, RegistryStays, QueueStays
            DEF ReadingsInv, worldVars, registryVars
  <1>3. ASSUME PoolNext PROVE ReadingsInv'
    <2>1. SummaryInv' /\ HandedFresh'
      BY <1>1, <1>3, SummaryAskedKeeps, PoolReadKeeps, PoolLoadedKeeps, PoolFailsKeeps DEF PoolNext
    <2>2. UNCHANGED <<worldVars, priceVars, registryVars>>
      BY <1>3 DEF PoolNext, SummaryAsked, PoolRead, PoolLoaded, PoolFails
    <2> QED BY <1>1, <2>1, <2>2, WorldStaysTyped, QuoteStays, RegistryStays, QueueStays
            DEF ReadingsInv, worldVars, registryVars
  <1>4. ASSUME RegistryNext PROVE ReadingsInv'
    <2>1. UNCHANGED <<clock, priceVars, summaryVars>>
      BY <1>4 DEF RegistryNext, IsFrozenAsked, AccountRead, AccountAnswered, AccountFails,
                  FreezeAsked, FreezeApplied, FreezeReturns, FreezeFails, worldVars
    <2>2. ASSUME WorldMoves \/ UNCHANGED <<world, lasted>>
          PROVE  WorldTyped' /\ PriceInv' /\ SummaryInv'
      BY <1>1, <2>1, <2>2, WorldStaysTyped, QuoteStays, SummaryStays
    <2>3. CASE IsFrozenAsked \/ AccountRead \/ AccountAnswered \/ AccountFails
      <3>1. RegistryInv' /\ HandedFresh'
        BY <1>1, <2>3, FrozenAskedKeeps, AccountReadKeeps, AccountAnsweredKeeps, AccountFailsKeeps
      <3>2. UNCHANGED <<worldVars, freezes>>
        BY <2>3 DEF IsFrozenAsked, AccountRead, AccountAnswered, AccountFails
      <3> QED BY <1>1, <2>2, <3>1, <3>2, QueueStays DEF ReadingsInv, worldVars
    <2>4. ASSUME NEW to \in BOOLEAN, FreezeAsked(to)
          PROVE  ReadingsInv'
      <3>1. QueueInv' /\ HandedFresh'
        BY <1>1, <2>4, FreezeAskedKeeps
      <3>2. UNCHANGED <<worldVars, state, refreshing, busy, unread>>
        BY <2>4 DEF FreezeAsked
      <3> QED BY <1>1, <2>2, <3>1, <3>2, RegistryStays DEF ReadingsInv, worldVars
    <2>5. CASE FreezeApplied
      <3>1. QueueInv' /\ HandedFresh' /\ (WorldMoves \/ UNCHANGED <<world, lasted>>)
        BY <1>1, <2>5, FreezeAppliedKeeps
      <3>2. UNCHANGED <<clock, state, refreshing, busy, unread>>
        BY <2>5 DEF FreezeApplied
      <3> QED BY <1>1, <2>2, <3>1, <3>2, RegistryStays DEF ReadingsInv
    <2>6. CASE FreezeReturns
      <3>1. QueueInv' /\ RegistryInv' /\ HandedFresh'
        BY <1>1, <2>6, FreezeReturnsKeeps
      <3>2. UNCHANGED worldVars
        BY <2>6 DEF FreezeReturns
      <3> QED BY <2>2, <3>1, <3>2 DEF ReadingsInv, worldVars
    <2>7. CASE FreezeFails
      <3>1. /\ UNCHANGED <<worldVars, state, refreshing, busy, unread>> /\ ages' = {}
            /\ freezes # <<>> /\ freezes' = Tail(freezes)
        BY <2>7 DEF FreezeFails
      <3>2. QueueInv'
        BY <1>1, <3>1, QueueShrinks
      <3>3. HandedFresh'
        BY <3>1 DEF HandedFresh
      <3> QED BY <1>1, <2>2, <3>1, <3>2, <3>3, RegistryStays DEF ReadingsInv, worldVars
    <2> QED BY <1>4, <2>3, <2>4, <2>5, <2>6, <2>7 DEF RegistryNext
  <1> QED BY <1>2, <1>3, <1>4

LEMMA WorldKeeps ==
    ASSUME ReadingsInv, OthersMove \/ ReadingTicks
    PROVE  ReadingsInv'
  <1>1. WorldTyped /\ PriceInv /\ SummaryInv /\ RegistryInv /\ QueueInv
    BY DEF ReadingsInv
  <1>2. CASE OthersMove
    <2>1. WorldMoves /\ UNCHANGED <<clock, priceVars, summaryVars, registryVars>> /\ ages' = {}
      BY <1>2 DEF OthersMove
    <2>2. UNCHANGED <<state, refreshing, busy, unread, freezes>> /\ HandedFresh'
      BY <2>1 DEF registryVars, HandedFresh
    <2> QED BY <1>1, <2>1, <2>2, WorldStaysTyped, QuoteStays, SummaryStays, RegistryStays, QueueStays
            DEF ReadingsInv
  <1>3. CASE ReadingTicks
    <2>1. /\ InTime(fetching) /\ InTime(loading) /\ InTime(refreshing)
          /\ StateOld => busy \/ unread \/ state = Unknown
          /\ freezes # <<>> => Head(freezes).done = Unknown
          /\ clock' = clock + 1 /\ ages' = {}
          /\ UNCHANGED <<world, lasted, priceVars, summaryVars, state, refreshing, busy, freezes,
                         unread>>
      BY <1>3 DEF ReadingTicks
    <2>2. freezes # <<>> => freezes[1].done = Unknown
      BY <1>1, <2>1 DEF QueueInv
    <2>3. WorldTyped' /\ PriceInv' /\ SummaryInv'
      BY <1>1, <2>1, WorldStaysTyped, QuoteStays, SummaryStays
    <2>4. RegistryInv'
      BY <1>1, <2>1, RegistryStays
    <2>5. QueueInv'
      BY <1>1, <2>1, <2>2, QueueStays
    <2> QED BY <2>1, <2>3, <2>4, <2>5 DEF ReadingsInv, HandedFresh
  <1> QED BY <1>2, <1>3

LEMMA ReadingsStutter ==
    ASSUME ReadingsInv, UNCHANGED readingVars
    PROVE  ReadingsInv'
  <1>1. UNCHANGED <<clock, world, lasted, last, fetching, asking, cache, loading, waiting,
                    state, refreshing, busy, freezes, unread, ages>>
    BY DEF readingVars, worldVars, priceVars, summaryVars, registryVars
  <1> QED BY <1>1 DEF ReadingsInv, WorldTyped, PriceInv, SummaryInv, RegistryInv, QueueInv,
                      HandedFresh, UnderWay, InForce, WhoWait

LEMMA ReadingsBegin ==
    ASSUME ReadingsInit
    PROVE  ReadingsInv
  <1>1. WorldTyped
    BY IntervalsAreNat DEF ReadingsInit, WorldTyped
  <1>2. PriceInv /\ SummaryInv
    BY NobodyWaits DEF ReadingsInit, PriceInv, SummaryInv
  <1>3. RegistryInv
    BY DEF ReadingsInit, RegistryInv
  <1>4. QueueInv
    <2>1. freezes = <<>>
      BY DEF ReadingsInit
    <2> QED BY <2>1 DEF QueueInv
  <1> QED BY <1>1, <1>2, <1>3, <1>4 DEF ReadingsInit, ReadingsInv, HandedFresh

\* What the backend hands out of the chain's state was so not long ago, for any intervals, any
\* number of requests, any duration of a call and whatever fails; the registry is right about
\* the version it read; and nobody waits for a reading that is not under way.
THEOREM AlwaysFresh == ReadingsSpec => []ReadingsAreFresh
<1>1. ReadingsInv /\ [ReadingsNext]_readingVars => ReadingsInv'
  BY ServicesKeep, WorldKeeps, ReadingsStutter DEF ReadingsNext
<1>2. ReadingsInv => ReadingsAreFresh
  <2> SUFFICES ASSUME ReadingsInv PROVE ReadingsAreFresh
    OBVIOUS
  <2>1. \A h \in ages : Fresh(h)
    BY DEF ReadingsInv, HandedFresh
  <2>2. /\ state # Unknown => IF unread THEN state.frozen => Frozen(state.version)
                              ELSE state.frozen = Frozen(state.version)
        /\ busy <=> refreshing # Unknown
    BY DEF ReadingsInv, RegistryInv
  <2>3. /\ WhoWait(asking) # {} => fetching # Unknown
        /\ WhoWait(waiting) # {} => loading # Unknown
    BY DEF ReadingsInv, PriceInv, SummaryInv
  <2> QED BY <2>1, <2>2, <2>3 DEF ReadingsAreFresh, Fresh
<1>3. QED
  BY <1>1, <1>2, ReadingsBegin, PTL DEF ReadingsSpec

=============================================================================
