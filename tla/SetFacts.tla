------------------------------ MODULE SetFacts ------------------------------
(***************************************************************************)
(* Facts about finite sets that several components' proofs need.           *)
(*                                                                         *)
(* Induction over the natural numbers without a predicate as a parameter:  *)
(* what has to hold of every number is given as a set, or its              *)
(* counterexamples are.  And counting: how many places of a function hold  *)
(* a value, and what that number is after the function has changed.        *)
(***************************************************************************)
EXTENDS Integers, FiniteSetTheorems, TLAPS

(* A set of natural numbers has a least element: of the intervals 0 .. m   *)
(* with m in the set, a least one by inclusion.                            *)
LEMMA LeastNumber ==
  ASSUME NEW T, T \subseteq Nat, T # {}
  PROVE  \E x \in T : \A y \in T : x <= y
<1> DEFINE I == {0 .. m : m \in T}
<1>1. IsWellFoundedOn(StrictSubsetOrdering(Nat), FiniteSubsetsOf(Nat))
  BY FS_StrictSubsetOrderingWellFounded
<1>2. \A m \in T : 0 .. m \in FiniteSubsetsOf(Nat)
  BY FS_Interval DEF FiniteSubsetsOf
<1>3. I \subseteq FiniteSubsetsOf(Nat) /\ I # {}
  BY <1>2
<1>4. \E J \in I : \A K \in I : ~(<<K, J>> \in StrictSubsetOrdering(Nat))
  BY <1>1, <1>3, WFMin
<1>5. PICK x \in T : \A y \in T : ~(<<0 .. y, 0 .. x>> \in StrictSubsetOrdering(Nat))
  BY <1>4
<1>6. ASSUME NEW y \in T, y < x PROVE FALSE
  <2>1. 0 .. y \subseteq 0 .. x /\ 0 .. y # 0 .. x
    BY <1>6
  <2>2. <<0 .. y, 0 .. x>> \in StrictSubsetOrdering(Nat)
    BY <2>1 DEF StrictSubsetOrdering
  <2> QED BY <2>2, <1>5
<1> QED BY <1>6

(* A set that has 0, and k + 1 with every k, has every natural number.     *)
LEMMA NatSetInduction ==
  ASSUME NEW S, 0 \in S, \A k \in Nat : k \in S => k + 1 \in S
  PROVE  Nat \subseteq S
<1>1. SUFFICES ASSUME Nat \ S # {} PROVE FALSE
  OBVIOUS
<1>2. PICK x \in Nat \ S : \A y \in Nat \ S : x <= y
  BY <1>1, LeastNumber
<1>3. x - 1 \in Nat /\ x - 1 \in S
  BY <1>2
<1> QED BY <1>2, <1>3

(* The same up to a bound.                                                 *)
LEMMA BoundedInduction ==
  ASSUME NEW n \in Nat, NEW S, 0 \in S, \A k \in 0 .. n - 1 : k \in S => k + 1 \in S
  PROVE  0 .. n \subseteq S
<1>1. SUFFICES ASSUME (0 .. n) \ S # {} PROVE FALSE
  OBVIOUS
<1> DEFINE T == (0 .. n) \ S
<1>0. T \subseteq Nat /\ T # {}
  BY <1>1
<1>2. PICK x \in T : \A y \in T : x <= y
  <2> HIDE DEF T
  <2> QED BY <1>0, LeastNumber
<1>3. x - 1 \in 0 .. n - 1 /\ x - 1 \in S
  BY <1>2
<1> QED BY <1>2, <1>3

(* s is the step of a recursion over V, n long; f is what it computes from *)
(* c on.                                                                   *)
StepOf(n, V, s) == \A k \in 1 .. n : \A v \in V : s[<<k, v>>] \in V
RunOf(n, V, c, s, f) ==
  /\ f \in [0 .. n -> V] /\ f[0] = c
  /\ \A k \in 1 .. n : f[k] = s[<<k, f[k - 1]>>]

(* There is a function that starts with c and goes on with the step s.     *)
LEMMA Recursion ==
  ASSUME NEW n \in Nat, NEW V, NEW c \in V, NEW s, StepOf(n, V, s)
  PROVE  \E f : RunOf(n, V, c, s, f)
<1>0. \A k \in 1 .. n : \A v \in V : s[<<k, v>>] \in V
  BY DEF StepOf
<1> DEFINE Runs(f, m) ==
             /\ f \in [0 .. m -> V] /\ f[0] = c
             /\ \A k \in 1 .. m : f[k] = s[<<k, f[k - 1]>>]
           S == {m \in 0 .. n : \E f : Runs(f, m)}
<1>1. 0 \in S
  <2>1. Runs([k \in 0 .. 0 |-> c], 0)
    OBVIOUS
  <2> HIDE DEF Runs
  <2> QED BY <2>1
<1>2. ASSUME NEW k \in 0 .. n - 1, k \in S PROVE k + 1 \in S
  <2>1. PICK f : Runs(f, k)
    BY <1>2
  <2> DEFINE v == s[<<k + 1, f[k]>>]
             g == [j \in 0 .. k + 1 |-> IF j = k + 1 THEN v ELSE f[j]]
  <2>2. k \in 0 .. k /\ k + 1 \in 1 .. n /\ f[k] \in V
    BY <2>1
  <2>3. v \in V
    BY <1>0, <2>2
  <2> HIDE DEF v
  <2>4. g \in [0 .. k + 1 -> V] /\ g[0] = c
    BY <2>1, <2>3
  <2>5. \A j \in 0 .. k : g[j] = f[j]
    OBVIOUS
  <2>6. g[k + 1] = v
    OBVIOUS
  <2> HIDE DEF g
  <2>7. g[k + 1] = s[<<k + 1, g[k]>>]
    BY <2>2, <2>5, <2>6 DEF v
  <2>8. ASSUME NEW j \in 1 .. k + 1 PROVE g[j] = s[<<j, g[j - 1]>>]
    <3>1. CASE j = k + 1
      <4>1. j - 1 = k
        BY <3>1
      <4> QED BY <2>7, <3>1, <4>1
    <3>2. CASE j # k + 1
      <4>1. j \in 1 .. k /\ j \in 0 .. k /\ j - 1 \in 0 .. k
        BY <3>2
      <4>2. g[j] = f[j] /\ g[j - 1] = f[j - 1]
        BY <2>5, <4>1
      <4> QED BY <2>1, <4>1, <4>2
    <3> QED BY <3>1, <3>2
  <2>9. Runs(g, k + 1) /\ k + 1 \in 0 .. n
    BY <2>4, <2>8
  <2> HIDE DEF Runs
  <2> QED BY <2>9
<1>3. n \in S
  <2> HIDE DEF S
  <2>1. 0 .. n \subseteq S
    BY <1>1, <1>2, BoundedInduction
  <2> QED BY <2>1
<1> QED BY <1>3 DEF S, RunOf

-----------------------------------------------------------------------------
(* Counting. *)

Equals(p, o) == IF p = o THEN 1 ELSE 0

(* The places in D where f holds o.                                        *)
Places(f, D, o) == Cardinality({x \in D : f[x] = o})

LEMMA EqualsIs ==
  \A p, o : Equals(p, o) \in Nat /\ (p = o => Equals(p, o) = 1) /\ (p # o => Equals(p, o) = 0)
BY DEF Equals

LEMMA HeldNat ==
  ASSUME NEW D, IsFiniteSet(D), NEW f, NEW o
  PROVE  /\ Places(f, D, o) \in Nat
         /\ (\A x \in D : f[x] # o) => Places(f, D, o) = 0
         /\ (\E x \in D : f[x] = o) => Places(f, D, o) >= 1
<1> DEFINE S == {x \in D : f[x] = o}
<1>1. S \in SUBSET D
  OBVIOUS
<1> HIDE DEF S
<1>2. IsFiniteSet(S)
  BY <1>1, FS_Subset
<1>3. Cardinality(S) \in Nat /\ (Cardinality(S) = 0 <=> S = {})
  BY <1>2, FS_CardinalityType, FS_EmptySet
<1>4. /\ (\A x \in D : f[x] # o) => S = {}
      /\ (\E x \in D : f[x] = o) => S # {}
  BY DEF S
<1>5. /\ (\A x \in D : f[x] # o) => Cardinality(S) = 0
      /\ (\E x \in D : f[x] = o) => Cardinality(S) >= 1
  BY <1>3, <1>4
<1> QED BY <1>3, <1>5 DEF Places, S

(* A pointer that changes is counted at its old value no longer, and at    *)
(* its new one once.                                                       *)
OnlyAt(f, g, D, x) == \A y \in D : y # x => g[y] = f[y]

LEMMA HeldChanges ==
  ASSUME NEW D, IsFiniteSet(D), NEW f, NEW g, NEW x \in D, OnlyAt(f, g, D, x), NEW o
  PROVE  Places(g, D, o) + Equals(f[x], o) = Places(f, D, o) + Equals(g[x], o)
<1> DEFINE S == {y \in D : f[y] = o}
           T == {y \in D : g[y] = o}
<1>1. S \in SUBSET D /\ T \in SUBSET D
  OBVIOUS
<1>2. S \ {x} = T \ {x}
  BY DEF OnlyAt
<1>3. (x \in S <=> f[x] = o) /\ (x \in T <=> g[x] = o)
  OBVIOUS
<1> HIDE DEF S, T
<1>4. IsFiniteSet(S) /\ IsFiniteSet(T)
  BY <1>1, FS_Subset
<1>5. Cardinality(S) \in Nat /\ Cardinality(T) \in Nat
  BY <1>4, FS_CardinalityType
<1>6. Cardinality(S \ {x}) = IF x \in S THEN Cardinality(S) - 1 ELSE Cardinality(S)
  BY <1>4, FS_RemoveElement
<1>7. Cardinality(T \ {x}) = IF x \in T THEN Cardinality(T) - 1 ELSE Cardinality(T)
  BY <1>4, FS_RemoveElement
<1>8. Cardinality(S \ {x}) = Cardinality(T \ {x})
  BY <1>2
<1>9. Equals(f[x], o) = IF x \in S THEN 1 ELSE 0
  BY <1>3 DEF Equals
<1>10. Equals(g[x], o) = IF x \in T THEN 1 ELSE 0
  BY <1>3 DEF Equals
<1>11. Cardinality(T) + Equals(f[x], o) = Cardinality(S) + Equals(g[x], o)
  BY ONLY <1>5, <1>6, <1>7, <1>8, <1>9, <1>10
<1> QED BY <1>11 DEF Places, S, T

LEMMA HeldAgree ==
  ASSUME NEW D, NEW f, NEW g, \A y \in D : g[y] = f[y], NEW o
  PROVE  Places(g, D, o) = Places(f, D, o)
<1>1. {x \in D : g[x] = o} = {x \in D : f[x] = o}
  OBVIOUS
<1> QED BY <1>1 DEF Places

(* One place more.                                                         *)
Prolongs(f, g, m) == \A k \in 1 .. m : g[k] = f[k]

LEMMA HeldGrows ==
  ASSUME NEW m \in Nat, NEW f, NEW g, Prolongs(f, g, m), NEW o
  PROVE  Places(g, 1 .. m + 1, o) = Places(f, 1 .. m, o) + Equals(g[m + 1], o)
<1> DEFINE S == {k \in 1 .. m : f[k] = o}
           T == {k \in 1 .. m + 1 : g[k] = o}
           x == m + 1
<1>0. \A k \in 1 .. m : g[k] = f[k]
  BY DEF Prolongs
<1>1. S \in SUBSET (1 .. m) /\ x \notin S
  OBVIOUS
<1>2. T = IF g[x] = o THEN S \cup {x} ELSE S
  <2>1. \A k : k \in 1 .. m + 1 <=> k \in 1 .. m \/ k = m + 1
    OBVIOUS
  <2> QED BY <1>0, <2>1
<1>3. Equals(g[x], o) = IF g[x] = o THEN 1 ELSE 0
  BY DEF Equals
<1>4. IsFiniteSet(1 .. m)
  <2> DEFINE a == 1
  <2>1. a \in Int /\ m \in Int
    OBVIOUS
  <2> HIDE DEF a
  <2>2. IsFiniteSet(a .. m)
    BY <2>1, FS_Interval
  <2> QED BY <2>2 DEF a
<1> HIDE DEF S, T, x
<1>5. IsFiniteSet(S)
  BY <1>1, <1>4, FS_Subset
<1>6. Cardinality(S) \in Nat /\ Cardinality(S \cup {x}) = Cardinality(S) + 1
  BY <1>1, <1>5, FS_CardinalityType, FS_AddElement
<1>7. Cardinality(T) = Cardinality(S) + Equals(g[x], o)
  BY <1>2, <1>3, <1>6
<1> QED BY <1>7 DEF Places, S, T, x

(* One place less, and those behind it move up.                            *)
MovesUp(f, g, m, n) == \A k \in 1 .. m - 1 : g[k] = f[IF k < n THEN k ELSE k + 1]

LEMMA HeldRemoved ==
  ASSUME NEW m \in Nat, NEW n \in 1 .. m, NEW f, NEW g, MovesUp(f, g, m, n), NEW o
  PROVE  Places(f, 1 .. m, o) = Places(g, 1 .. m - 1, o) + Equals(f[n], o)
<1> DEFINE S == {k \in 1 .. m : f[k] = o}
           T == {k \in 1 .. m - 1 : g[k] = o}
           h == [k \in T |-> IF k < n THEN k ELSE k + 1]
<1>0. \A k \in 1 .. m - 1 : g[k] = f[IF k < n THEN k ELSE k + 1]
  BY DEF MovesUp
<1>1. S \in SUBSET (1 .. m) /\ T \in SUBSET (1 .. m - 1)
  OBVIOUS
<1>2. h \in Bijection(T, S \ {n})
  <2>1. \A k \in T : k \in 1 .. m - 1 /\ g[k] = o /\ h[k] = IF k < n THEN k ELSE k + 1
    OBVIOUS
  <2>2. \A k \in T : h[k] \in S \ {n}
    BY <1>0, <2>1
  <2>3. \A k, l \in T : h[k] = h[l] => k = l
    BY <2>1
  <2>4. ASSUME NEW y \in S \ {n} PROVE \E k \in T : h[k] = y
    <3> DEFINE k == IF y < n THEN y ELSE y - 1
    <3>1. k \in 1 .. m - 1 /\ (IF k < n THEN k ELSE k + 1) = y
      BY <2>4
    <3>2. g[k] = f[y] /\ f[y] = o
      BY <1>0, <3>1, <2>4
    <3>3. k \in T
      BY <3>1, <3>2
    <3> QED BY <3>1, <3>3
  <2>5. h \in [T -> S \ {n}]
    BY <2>2
  <2> HIDE DEF h, S, T
  <2>6. h \in Injection(T, S \ {n})
    BY <2>3, <2>5 DEF Injection, IsInjective
  <2>7. h \in Surjection(T, S \ {n})
    BY <2>4, <2>5 DEF Surjection
  <2> QED BY <2>6, <2>7 DEF Bijection
<1>3. IsFiniteSet(1 .. m) /\ IsFiniteSet(1 .. m - 1)
  <2> DEFINE a == 1
  <2>1. a \in Int /\ m \in Int /\ m - 1 \in Int
    OBVIOUS
  <2> HIDE DEF a
  <2>2. IsFiniteSet(a .. m) /\ IsFiniteSet(a .. m - 1)
    BY <2>1, FS_Interval
  <2> QED BY <2>2 DEF a
<1>4. (n \in S <=> f[n] = o)
  OBVIOUS
<1>5. Equals(f[n], o) = IF n \in S THEN 1 ELSE 0
  BY <1>4 DEF Equals
<1> HIDE DEF S, T, h
<1>6. IsFiniteSet(S) /\ IsFiniteSet(T) /\ IsFiniteSet(S \ {n})
  <2>1. IsFiniteSet(S) /\ IsFiniteSet(T)
    BY <1>1, <1>3, FS_Subset
  <2>2. S \ {n} \in SUBSET S
    OBVIOUS
  <2> QED BY <2>1, <2>2, FS_Subset
<1>7. Cardinality(T) = Cardinality(S \ {n})
  BY <1>2, <1>6, FS_Bijection DEF ExistsBijection
<1>8. Cardinality(S) \in Nat /\ Cardinality(S \ {n}) = IF n \in S THEN Cardinality(S) - 1 ELSE Cardinality(S)
  BY <1>6, FS_CardinalityType, FS_RemoveElement
<1>9. Cardinality(S) = Cardinality(T) + Equals(f[n], o)
  BY <1>5, <1>7, <1>8
<1> QED BY <1>9 DEF Places, S, T
=============================================================================
