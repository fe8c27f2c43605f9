--------------------------------- MODULE Sums ---------------------------------
(***************************************************************************)
(* SumFunctionOnSet, the sum of a function over a finite set, for proofs:  *)
(* the recursive function it is defined by exists, and an element may be   *)
(* taken out or put in, or a value changed, anywhere.                      *)
(*                                                                         *)
(* Each proof by induction takes a smallest set that is an exception.      *)
(***************************************************************************)
EXTENDS Functions, FiniteSetTheorems, TLAPS

Picked(s) == CHOOSE x \in s : TRUE

Unpicked(s) == s \ {Picked(s)}

(* it is the sum of f over every subset of S.                               *)
SumsUp(f, S, it) ==
    it = [s \in SUBSET S |-> IF s = {} THEN 0 ELSE f[Picked(s)] + it[Unpicked(s)]]

SumsOf(f, S) == CHOOSE it : SumsUp(f, S, it)

LEMMA SumUnfolds ==
    ASSUME NEW f, NEW S
    PROVE  SumFunctionOnSet(f, S) = SumsOf(f, S)[S]
  BY DEF SumFunctionOnSet, FoldFunctionOnSet, MapThenFoldSet, SumsOf, SumsUp, Picked, Unpicked

LEMMA PickedIsIn ==
    ASSUME NEW s, s # {}
    PROVE  Picked(s) \in s /\ Unpicked(s) # s /\ Unpicked(s) \subseteq s
  BY DEF Picked, Unpicked

(* Of the finite sets in a non-empty collection one has no part in it.      *)
LEMMA SmallestSet ==
    ASSUME NEW S, IsFiniteSet(S), NEW B, B \subseteq SUBSET S, B # {}
    PROVE  \E T \in B : \A U \in SUBSET T : U # T => U \notin B
  <1>1. SUBSET S \subseteq FiniteSubsetsOf(S)
    BY FS_Subset DEF FiniteSubsetsOf
  <1>2. IsWellFoundedOn(StrictSubsetOrdering(S), FiniteSubsetsOf(S))
    BY FS_StrictSubsetOrderingWellFounded
  <1>3. B \subseteq FiniteSubsetsOf(S)
    BY <1>1
  <1>4. \E T \in B : \A U \in B : ~(<<U, T>> \in StrictSubsetOrdering(S))
    BY <1>2, <1>3, WFMin
  <1>5. PICK T \in B : \A U \in B : ~(<<U, T>> \in StrictSubsetOrdering(S))
    BY <1>4
  <1>6. ASSUME NEW U \in SUBSET T, U # T, U \in B
        PROVE  FALSE
    BY <1>5, <1>6 DEF StrictSubsetOrdering
  <1> QED BY <1>5, <1>6

(* Of a set of numbers that is not empty there is a least.                  *)
LEMMA LeastOf ==
    ASSUME NEW S \in SUBSET Nat, S # {}
    PROVE  \E m \in S : \A k \in S : m <= k
<1>1. PICK k \in S : k \in Nat
      OBVIOUS
<1> DEFINE B == {0..m : m \in {j \in S : j <= k}}
<1>2. IsFiniteSet(0..k)
      BY <1>1, FS_Interval
<1>3. B \subseteq SUBSET (0..k) /\ B # {}
  <2>1. \A j \in S : j <= k => (0..j) \subseteq 0..k
        BY <1>1
  <2>2. 0..k \in B
        BY <1>1
  <2>3. QED
        BY <2>1, <2>2
<1> HIDE DEF B
<1>4. PICK T \in B : \A U \in SUBSET T : U # T => U \notin B
      BY <1>2, <1>3, SmallestSet
<1>5. PICK m \in S : m <= k /\ T = 0..m
      BY <1>4 DEF B
<1>6. ASSUME NEW j \in S, j < m PROVE FALSE
  <2>1. m \in Nat /\ j \in Nat /\ j <= k
        BY <1>1, <1>5, <1>6
  <2>2. 0..j \in B
        BY <2>1 DEF B
  <2>3. 0..j \in SUBSET T /\ 0..j # T
    <3>1. m \in 0..m /\ m \notin 0..j /\ (0..j) \subseteq 0..m
          BY <1>6, <2>1
    <3>2. QED
          BY <1>5, <3>1
  <2>4. QED
        BY <1>4, <2>2, <2>3
<1>7. \A j \in S : m <= j
  <2>1. \A j \in S : j \in Nat /\ m \in Nat /\ ~(j < m)
        BY <1>5, <1>6
  <2>2. QED
        BY <2>1
<1>8. QED
      BY <1>5, <1>7

(* Two tables of sums agree where both have a value.                        *)
LEMMA SumsAgree ==
    ASSUME NEW f, NEW S, IsFiniteSet(S), NEW T \in SUBSET S,
           NEW i, SumsUp(f, S, i), NEW j, SumsUp(f, T, j)
    PROVE  \A s \in SUBSET T : i[s] = j[s]
  <1> DEFINE B == {s \in SUBSET T : i[s] # j[s]}
  <1> SUFFICES ASSUME B # {} PROVE FALSE
    OBVIOUS
  <1>1. PICK s \in B : \A u \in SUBSET s : u # s => u \notin B
    <2>1. B \subseteq SUBSET S
      OBVIOUS
    <2> HIDE DEF B
    <2> QED BY <2>1, SmallestSet
  <1>2. s \in SUBSET S /\ s \in SUBSET T
    OBVIOUS
  <1>3. /\ i[s] = IF s = {} THEN 0 ELSE f[Picked(s)] + i[Unpicked(s)]
        /\ j[s] = IF s = {} THEN 0 ELSE f[Picked(s)] + j[Unpicked(s)]
    BY <1>2 DEF SumsUp
  <1>4. s # {}
    BY <1>1, <1>3
  <1>5. i[Unpicked(s)] = j[Unpicked(s)]
    BY <1>1, <1>4, PickedIsIn
  <1> QED BY <1>1, <1>3, <1>5

(* The recursion of the sum is well founded: there is a table of sums.      *)
LEMMA SumsExist ==
    ASSUME NEW f, NEW S, IsFiniteSet(S)
    PROVE  SumsUp(f, S, SumsOf(f, S))
  <1> DEFINE Good(T) == SumsUp(f, T, SumsOf(f, T))
             B == {T \in SUBSET S : ~Good(T)}
  <1> SUFFICES ASSUME B # {} PROVE FALSE
    OBVIOUS
  <1>1. PICK T \in B : \A U \in SUBSET T : U # T => U \notin B
    <2>1. B \subseteq SUBSET S
      OBVIOUS
    <2> HIDE DEF B
    <2> QED BY <2>1, SmallestSet
  <1>2. \A U \in SUBSET T : U # T => Good(U)
    BY <1>1
  <1> HIDE DEF Good
  <1> DEFINE Value(u) == SumsOf(f, u)[u]
             it == [s \in SUBSET T |-> IF s = {} THEN 0 ELSE f[Picked(s)] + Value(Unpicked(s))]
  <1>3. ASSUME NEW s \in SUBSET T, s # {}
        PROVE  it[Unpicked(s)] = Value(Unpicked(s))
    <2> DEFINE u == Unpicked(s)
    <2>1. u \in SUBSET T /\ u # T
      BY <1>3, PickedIsIn
    <2>2. it[u] = IF u = {} THEN 0 ELSE f[Picked(u)] + Value(Unpicked(u))
      BY <2>1
    <2>3. SumsUp(f, u, SumsOf(f, u))
      BY <1>2, <2>1 DEF Good
    <2>4. Value(u) = IF u = {} THEN 0 ELSE f[Picked(u)] + SumsOf(f, u)[Unpicked(u)]
      BY <2>3 DEF SumsUp
    <2>5. ASSUME u # {}
          PROVE  SumsOf(f, u)[Unpicked(u)] = Value(Unpicked(u))
      <3> DEFINE w == Unpicked(u)
      <3>1. w \in SUBSET u /\ w \in SUBSET T /\ w # T
        BY <2>1, <2>5, PickedIsIn
      <3>2. SumsUp(f, w, SumsOf(f, w))
        BY <1>2, <3>1 DEF Good
      <3>3. IsFiniteSet(u)
        BY <1>1, <2>1, FS_Subset
      <3> HIDE DEF w, u
      <3>4. w \in SUBSET w
        OBVIOUS
      <3>5. SumsOf(f, u)[w] = SumsOf(f, w)[w]
        BY <2>3, <3>1, <3>2, <3>3, <3>4, SumsAgree
      <3> QED BY <3>5 DEF w, u
    <2> QED BY <2>2, <2>4, <2>5
  <1>4. SumsUp(f, T, it)
    BY <1>3 DEF SumsUp
  <1>5. Good(T)
    <2> HIDE DEF it
    <2> QED BY <1>4 DEF Good, SumsOf
  <1> QED BY <1>1, <1>5 DEF Good

-----------------------------------------------------------------------------
(* The sum of nothing is 0, that of a set one element and the sum of the rest. *)
LEMMA SumStep ==
    ASSUME NEW f, NEW S, IsFiniteSet(S)
    PROVE  SumFunctionOnSet(f, S) =
              IF S = {} THEN 0 ELSE f[Picked(S)] + SumFunctionOnSet(f, Unpicked(S))
  <1> DEFINE u == Unpicked(S)
  <1>1. SumsUp(f, S, SumsOf(f, S))
    BY SumsExist
  <1>2. SumsOf(f, S)[S] = IF S = {} THEN 0 ELSE f[Picked(S)] + SumsOf(f, S)[u]
    BY <1>1 DEF SumsUp
  <1>3. ASSUME S # {}
        PROVE  SumsOf(f, S)[u] = SumsOf(f, u)[u]
    <2>1. u \in SUBSET S /\ u \in SUBSET u
      BY <1>3, PickedIsIn
    <2>2. IsFiniteSet(u)
      BY <2>1, FS_Subset
    <2> HIDE DEF u
    <2>3. SumsUp(f, u, SumsOf(f, u))
      BY <2>2, SumsExist
    <2> QED BY <1>1, <2>1, <2>3, SumsAgree
  <1> QED BY <1>2, <1>3, SumUnfolds

(* The empty sum.                                                           *)
THEOREM SumOfNone == \A f : SumFunctionOnSet(f, {}) = 0
  BY SumStep, FS_EmptySet

(* A sum of integers is an integer.                                         *)
THEOREM SumIsInt ==
    ASSUME NEW f, NEW S, IsFiniteSet(S), \A x \in S : f[x] \in Int
    PROVE  SumFunctionOnSet(f, S) \in Int
  <1> DEFINE B == {T \in SUBSET S : SumFunctionOnSet(f, T) \notin Int}
  <1> SUFFICES ASSUME B # {} PROVE FALSE
    BY DEF B
  <1>1. PICK T \in B : \A U \in SUBSET T : U # T => U \notin B
    <2>1. B \subseteq SUBSET S
      OBVIOUS
    <2> HIDE DEF B
    <2> QED BY <2>1, SmallestSet
  <1>2. IsFiniteSet(T) /\ T \in SUBSET S
    BY <1>1, FS_Subset
  <1>3. T # {}
    <2>1. SumFunctionOnSet(f, {}) = 0 /\ 0 \in Int
      BY SumOfNone
    <2> QED BY <1>1, <2>1
  <1>4. SumFunctionOnSet(f, T) = f[Picked(T)] + SumFunctionOnSet(f, Unpicked(T))
    BY <1>2, <1>3, SumStep
  <1>5. /\ Picked(T) \in S
        /\ Unpicked(T) \in SUBSET T /\ Unpicked(T) \in SUBSET S /\ Unpicked(T) # T
    BY <1>2, <1>3, PickedIsIn
  <1>6. SumFunctionOnSet(f, Unpicked(T)) \in Int
    BY <1>1, <1>5
  <1> QED BY <1>1, <1>4, <1>5, <1>6

(* Any element may be the one that is taken out.                            *)
THEOREM SumWithout ==
    ASSUME NEW f, NEW S, IsFiniteSet(S), \A x \in S : f[x] \in Int, NEW x \in S
    PROVE  SumFunctionOnSet(f, S) = f[x] + SumFunctionOnSet(f, S \ {x})
  <1> DEFINE Splits(T) == \A y \in T : SumFunctionOnSet(f, T) = f[y] + SumFunctionOnSet(f, T \ {y})
             B == {T \in SUBSET S : ~Splits(T)}
  <1> SUFFICES ASSUME B # {} PROVE FALSE
    OBVIOUS
  <1>1. PICK T \in B : \A U \in SUBSET T : U # T => U \notin B
    <2>1. B \subseteq SUBSET S
      OBVIOUS
    <2> HIDE DEF B
    <2> QED BY <2>1, SmallestSet
  <1>2. IsFiniteSet(T) /\ T \in SUBSET S
    BY <1>1, FS_Subset
  <1>3. ASSUME NEW U \in SUBSET T, U # T
        PROVE  Splits(U)
    <2>1. U \in SUBSET S /\ U \notin B
      BY <1>1, <1>2, <1>3
    <2> QED BY <2>1
  <1>4. \A U \in SUBSET T : IsFiniteSet(U) /\ SumFunctionOnSet(f, U) \in Int
    BY <1>2, FS_Subset, SumIsInt
  <1>5. ASSUME NEW y \in T
        PROVE  SumFunctionOnSet(f, T) = f[y] + SumFunctionOnSet(f, T \ {y})
    <2> DEFINE p == Picked(T)
    <2>1. p \in T /\ Unpicked(T) = T \ {p}
      BY <1>5, PickedIsIn DEF Unpicked
    <2>2. SumFunctionOnSet(f, T) = f[p] + SumFunctionOnSet(f, T \ {p})
      BY <1>2, <1>5, <2>1, SumStep
    <2> HIDE DEF p
    <2>3. CASE y = p
      BY <2>2, <2>3
    <2>4. CASE y # p
      <3>1. SumFunctionOnSet(f, T \ {p}) = f[y] + SumFunctionOnSet(f, (T \ {p}) \ {y})
        <4>1. T \ {p} \in SUBSET T /\ T \ {p} # T /\ y \in T \ {p}
          BY <2>1, <2>4
        <4> QED BY <1>3, <4>1
      <3>2. SumFunctionOnSet(f, T \ {y}) = f[p] + SumFunctionOnSet(f, (T \ {y}) \ {p})
        <4>1. T \ {y} \in SUBSET T /\ T \ {y} # T /\ p \in T \ {y}
          BY <2>1, <2>4
        <4> QED BY <1>3, <4>1
      <3>3. (T \ {p}) \ {y} = (T \ {y}) \ {p} /\ (T \ {p}) \ {y} \in SUBSET T
        OBVIOUS
      <3>4. SumFunctionOnSet(f, (T \ {p}) \ {y}) \in Int /\ f[y] \in Int /\ f[p] \in Int
        BY <1>2, <1>4, <2>1, <3>3
      <3> DEFINE rest == SumFunctionOnSet(f, (T \ {p}) \ {y})
      <3>5. /\ SumFunctionOnSet(f, T) = f[p] + (f[y] + rest)
            /\ SumFunctionOnSet(f, T \ {y}) = f[p] + rest
        BY <2>2, <3>1, <3>2, <3>3
      <3> HIDE DEF rest
      <3>6. rest \in Int
        BY <3>4 DEF rest
      <3> QED BY <3>4, <3>5, <3>6
    <2> QED BY <2>3, <2>4
  <1> QED BY <1>1, <1>5

(* Only the values on the set matter.                                       *)
THEOREM SumOfSame ==
    ASSUME NEW f, NEW g, NEW S, IsFiniteSet(S), \A x \in S : f[x] = g[x]
    PROVE  SumFunctionOnSet(f, S) = SumFunctionOnSet(g, S)
  <1> DEFINE B == {T \in SUBSET S : SumFunctionOnSet(f, T) # SumFunctionOnSet(g, T)}
  <1> SUFFICES ASSUME B # {} PROVE FALSE
    OBVIOUS
  <1>1. PICK T \in B : \A U \in SUBSET T : U # T => U \notin B
    <2>1. B \subseteq SUBSET S
      OBVIOUS
    <2> HIDE DEF B
    <2> QED BY <2>1, SmallestSet
  <1>2. IsFiniteSet(T) /\ T \in SUBSET S
    BY <1>1, FS_Subset
  <1>3. T # {}
    BY <1>1, SumOfNone
  <1>4. /\ SumFunctionOnSet(f, T) = f[Picked(T)] + SumFunctionOnSet(f, Unpicked(T))
        /\ SumFunctionOnSet(g, T) = g[Picked(T)] + SumFunctionOnSet(g, Unpicked(T))
    BY <1>2, <1>3, SumStep
  <1>5. /\ Picked(T) \in S
        /\ Unpicked(T) \in SUBSET T /\ Unpicked(T) \in SUBSET S /\ Unpicked(T) # T
    BY <1>2, <1>3, PickedIsIn
  <1>6. SumFunctionOnSet(f, Unpicked(T)) = SumFunctionOnSet(g, Unpicked(T))
    BY <1>1, <1>5
  <1> QED BY <1>1, <1>4, <1>5, <1>6

(* A value that changes changes the sum by as much.                         *)
THEOREM SumChanges ==
    ASSUME NEW f, NEW g, NEW S, IsFiniteSet(S), NEW x \in S,
           \A y \in S : f[y] \in Int /\ g[y] \in Int,
           \A y \in S \ {x} : g[y] = f[y]
    PROVE  SumFunctionOnSet(g, S) = SumFunctionOnSet(f, S) + g[x] - f[x]
  <1> DEFINE R == S \ {x}
  <1>1. IsFiniteSet(R) /\ \A y \in R : f[y] \in Int /\ f[y] = g[y]
    BY FS_Subset
  <1>2. SumFunctionOnSet(f, S) = f[x] + SumFunctionOnSet(f, R)
    BY SumWithout
  <1>3. SumFunctionOnSet(g, S) = g[x] + SumFunctionOnSet(g, R)
    BY SumWithout
  <1>4. SumFunctionOnSet(g, R) = SumFunctionOnSet(f, R)
    BY <1>1, SumOfSame
  <1>5. SumFunctionOnSet(f, R) \in Int /\ f[x] \in Int /\ g[x] \in Int
    BY <1>1, SumIsInt
  <1> HIDE DEF R
  <1> QED BY <1>2, <1>3, <1>4, <1>5

(* A sum of nothing but zeros is zero.                                      *)
THEOREM SumOfZeros ==
    ASSUME NEW f, NEW S, IsFiniteSet(S), \A x \in S : f[x] = 0
    PROVE  SumFunctionOnSet(f, S) = 0
  <1> DEFINE B == {T \in SUBSET S : SumFunctionOnSet(f, T) # 0}
  <1> SUFFICES ASSUME B # {} PROVE FALSE
    OBVIOUS
  <1>1. PICK T \in B : \A U \in SUBSET T : U # T => U \notin B
    <2>1. B \subseteq SUBSET S
      OBVIOUS
    <2> HIDE DEF B
    <2> QED BY <2>1, SmallestSet
  <1>2. IsFiniteSet(T) /\ T \in SUBSET S
    BY <1>1, FS_Subset
  <1>3. T # {}
    BY <1>1, SumOfNone
  <1>4. SumFunctionOnSet(f, T) = f[Picked(T)] + SumFunctionOnSet(f, Unpicked(T))
    BY <1>2, <1>3, SumStep
  <1>5. /\ Picked(T) \in S
        /\ Unpicked(T) \in SUBSET T /\ Unpicked(T) \in SUBSET S /\ Unpicked(T) # T
    BY <1>2, <1>3, PickedIsIn
  <1>6. SumFunctionOnSet(f, Unpicked(T)) = 0 /\ f[Picked(T)] = 0
    BY <1>1, <1>5
  <1> QED BY <1>1, <1>4, <1>6

(* A sum of natural numbers is one.                                         *)
THEOREM SumIsNat ==
    ASSUME NEW f, NEW S, IsFiniteSet(S), \A x \in S : f[x] \in Nat
    PROVE  SumFunctionOnSet(f, S) \in Nat
  <1> DEFINE B == {T \in SUBSET S : SumFunctionOnSet(f, T) \notin Nat}
  <1> SUFFICES ASSUME B # {} PROVE FALSE
    BY DEF B
  <1>1. PICK T \in B : \A U \in SUBSET T : U # T => U \notin B
    <2>1. B \subseteq SUBSET S
      OBVIOUS
    <2> HIDE DEF B
    <2> QED BY <2>1, SmallestSet
  <1>2. IsFiniteSet(T) /\ T \in SUBSET S
    BY <1>1, FS_Subset
  <1>3. T # {}
    <2>1. SumFunctionOnSet(f, {}) = 0 /\ 0 \in Nat
      BY SumOfNone
    <2> QED BY <1>1, <2>1
  <1>4. SumFunctionOnSet(f, T) = f[Picked(T)] + SumFunctionOnSet(f, Unpicked(T))
    BY <1>2, <1>3, SumStep
  <1>5. /\ Picked(T) \in S
        /\ Unpicked(T) \in SUBSET T /\ Unpicked(T) \in SUBSET S /\ Unpicked(T) # T
    BY <1>2, <1>3, PickedIsIn
  <1>6. SumFunctionOnSet(f, Unpicked(T)) \in Nat
    BY <1>1, <1>5
  <1> QED BY <1>1, <1>4, <1>5, <1>6

(* A part of a sum of natural numbers is not greater than the whole.        *)
THEOREM SumOfPart ==
    ASSUME NEW f, NEW S, IsFiniteSet(S), \A x \in S : f[x] \in Nat, NEW P \in SUBSET S
    PROVE  SumFunctionOnSet(f, P) <= SumFunctionOnSet(f, S)
  <1> DEFINE Bounds(T) == \A Q \in SUBSET T : SumFunctionOnSet(f, Q) <= SumFunctionOnSet(f, T)
             B == {T \in SUBSET S : ~Bounds(T)}
  <1> SUFFICES ASSUME B # {} PROVE FALSE
    OBVIOUS
  <1>1. PICK T \in B : \A U \in SUBSET T : U # T => U \notin B
    <2>1. B \subseteq SUBSET S
      OBVIOUS
    <2> HIDE DEF B
    <2> QED BY <2>1, SmallestSet
  <1>2. T \in SUBSET S /\ \A U \in SUBSET T : IsFiniteSet(U) /\ SumFunctionOnSet(f, U) \in Nat
    BY <1>1, FS_Subset, SumIsNat
  <1>3. ASSUME NEW Q \in SUBSET T
        PROVE  SumFunctionOnSet(f, Q) <= SumFunctionOnSet(f, T)
    <2>1. CASE Q = T
      BY <1>2, <2>1
    <2>2. CASE Q # T
      <3>1. PICK x \in T : x \notin Q
        BY <2>2
      <3> DEFINE U == T \ {x}
      <3>2. U \in SUBSET T /\ U # T /\ Q \in SUBSET U
        BY <3>1
      <3>3. Bounds(U)
        BY <1>1, <1>2, <3>2
      <3>4. SumFunctionOnSet(f, Q) <= SumFunctionOnSet(f, U)
        BY <3>2, <3>3
      <3>5. SumFunctionOnSet(f, T) = f[x] + SumFunctionOnSet(f, U)
        BY <1>2, SumWithout
      <3>6. /\ f[x] \in Nat /\ SumFunctionOnSet(f, Q) \in Nat
            /\ SumFunctionOnSet(f, U) \in Nat
        BY <1>2, <3>2
      <3> HIDE DEF U
      <3> QED BY <3>4, <3>5, <3>6
    <2> QED BY <2>1, <2>2
  <1> QED BY <1>1, <1>3

(* No value is greater than the sum.                                        *)
THEOREM SumBoundsEach ==
    ASSUME NEW f, NEW S, IsFiniteSet(S), \A x \in S : f[x] \in Nat, NEW x \in S
    PROVE  f[x] <= SumFunctionOnSet(f, S)
  <1>1. SumFunctionOnSet(f, S) = f[x] + SumFunctionOnSet(f, S \ {x})
    BY SumWithout
  <1>2. SumFunctionOnSet(f, S \ {x}) \in Nat
    BY SumIsNat, FS_Subset
  <1> QED BY <1>1, <1>2

(* The sum of one value.                                                    *)
THEOREM SumOfOne ==
    ASSUME NEW f, NEW x, f[x] \in Int
    PROVE  SumFunctionOnSet(f, {x}) = f[x]
  <1>1. SumFunctionOnSet(f, {x}) = f[x] + SumFunctionOnSet(f, {x} \ {x})
    BY SumWithout, FS_Singleton
  <1>2. {x} \ {x} = {}
    OBVIOUS
  <1>3. SumFunctionOnSet(f, {x} \ {x}) = 0
    BY <1>2, SumOfNone
  <1> QED BY <1>1, <1>3

(* A sum is not greater than one that has, for every element, another one
   with no smaller value.                                                   *)
THEOREM SumInto ==
    ASSUME NEW f, NEW S, IsFiniteSet(S), NEW g, NEW R, IsFiniteSet(R), NEW h,
           \A x \in S : f[x] \in Int /\ h[x] \in R /\ f[x] <= g[h[x]],
           \A x, y \in S : h[x] = h[y] => x = y,
           \A y \in R : g[y] \in Nat
    PROVE  SumFunctionOnSet(f, S) <= SumFunctionOnSet(g, R)
  <1> DEFINE Image(T) == {h[x] : x \in T}
             Fits(T) == SumFunctionOnSet(f, T) <= SumFunctionOnSet(g, Image(T))
             B == {T \in SUBSET S : ~Fits(T)}
  <1>1. \A T \in SUBSET S : /\ IsFiniteSet(T) /\ Image(T) \in SUBSET R /\ IsFiniteSet(Image(T))
                            /\ SumFunctionOnSet(f, T) \in Int /\ SumFunctionOnSet(g, Image(T)) \in Nat
    <2> SUFFICES ASSUME NEW T \in SUBSET S
                 PROVE  /\ IsFiniteSet(T) /\ Image(T) \in SUBSET R /\ IsFiniteSet(Image(T))
                        /\ SumFunctionOnSet(f, T) \in Int /\ SumFunctionOnSet(g, Image(T)) \in Nat
      OBVIOUS
    <2>1. IsFiniteSet(T)
      BY FS_Subset
    <2>2. Image(T) \in SUBSET R
      OBVIOUS
    <2>3. IsFiniteSet(Image(T))
      BY <2>2, FS_Subset
    <2>4. SumFunctionOnSet(f, T) \in Int
      BY <2>1, SumIsInt
    <2>5. \A y \in Image(T) : g[y] \in Nat
      OBVIOUS
    <2> HIDE DEF Image
    <2>6. SumFunctionOnSet(g, Image(T)) \in Nat
      BY <2>3, <2>5, SumIsNat
    <2> QED BY <2>1, <2>2, <2>3, <2>4, <2>6
  <1>2. Fits(S)
    <2> SUFFICES ASSUME B # {} PROVE FALSE
      OBVIOUS
    <2>1. PICK T \in B : \A U \in SUBSET T : U # T => U \notin B
      <3>1. B \subseteq SUBSET S
        OBVIOUS
      <3> HIDE DEF B
      <3> QED BY <3>1, SmallestSet
    <2>2. T # {}
      <3>1. Image({}) = {}
        OBVIOUS
      <3>2. Fits({})
        BY <3>1, SumOfNone
      <3> QED BY <2>1, <3>2
    <2>3. PICK x \in T : TRUE
      BY <2>2
    <2> DEFINE U == T \ {x}
    <2>4. U \in SUBSET T /\ U # T /\ U \in SUBSET S /\ T \in SUBSET S /\ x \in S
      BY <2>1
    <2>5. Fits(U)
      BY <2>1, <2>4
    <2>6. Image(T) \ {h[x]} = Image(U) /\ h[x] \in Image(T)
      BY <2>4
    <2>7. SumFunctionOnSet(f, T) = f[x] + SumFunctionOnSet(f, U)
      BY <1>1, <2>4, SumWithout
    <2>8. SumFunctionOnSet(g, Image(T)) = g[h[x]] + SumFunctionOnSet(g, Image(U))
      <3> HIDE DEF Image, U
      <3>1. IsFiniteSet(Image(T)) /\ Image(T) \in SUBSET R
        BY <1>1, <2>4
      <3>2. \A y \in Image(T) : g[y] \in Int
        BY <3>1
      <3>3. SumFunctionOnSet(g, Image(T)) = g[h[x]] + SumFunctionOnSet(g, Image(T) \ {h[x]})
        BY <2>6, <3>1, <3>2, SumWithout
      <3> QED BY <2>6, <3>3
    <2>9. f[x] \in Int /\ g[h[x]] \in Nat /\ f[x] <= g[h[x]]
      BY <2>4
    <2>10. ~Fits(T)
      BY <2>1
    <2>11. /\ SumFunctionOnSet(f, U) \in Int /\ SumFunctionOnSet(g, Image(U)) \in Nat
      BY <1>1, <2>4
    <2> HIDE DEF Image, U
    <2> QED BY <2>5, <2>7, <2>8, <2>9, <2>10, <2>11
  <1>3. SumFunctionOnSet(g, Image(S)) <= SumFunctionOnSet(g, R)
    <2>1. Image(S) \in SUBSET R
      BY <1>1
    <2> HIDE DEF Image
    <2> QED BY <2>1, SumOfPart
  <1>4. SumFunctionOnSet(g, R) \in Nat
    BY SumIsNat
  <1>5. SumFunctionOnSet(f, S) \in Int /\ SumFunctionOnSet(g, Image(S)) \in Nat
    BY <1>1
  <1> HIDE DEF Image
  <1> QED BY <1>2, <1>3, <1>4, <1>5
=============================================================================
