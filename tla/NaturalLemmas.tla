---------------------------- MODULE NaturalLemmas ----------------------------
(***************************************************************************)
(* Facts about the natural numbers the other proofs share: a least element *)
(* in place of induction on a formula, and the existence of the functions  *)
(* that a definition by recursion names.                                   *)
(***************************************************************************)
EXTENDS FiniteSetTheorems, TLAPS

(* Every set of natural numbers has a least element. *)
LEMMA LeastElement ==
    ASSUME NEW S \in SUBSET Nat, S # {}
    PROVE  \E m \in S : \A x \in S : m <= x
  <1> DEFINE R == OpToRel(<, Nat)
  <1>1. ASSUME NEW x \in Nat, NEW m \in Nat, x < m PROVE <<x, m>> \in R
    <2>1. <<x, m>>[1] = x /\ <<x, m>>[2] = m /\ <<x, m>> \in Nat \X Nat
      OBVIOUS
    <2> QED
      BY <1>1, <2>1, Zenon DEF OpToRel
  <1>2. IsWellFoundedOn(R, Nat)
    BY NatLessThanWellFounded
  <1> HIDE DEF R
  <1>3. PICK m \in S : \A x \in S : <<x, m>> \notin R
    BY <1>2, WFMin
  <1>4. m \in Nat
    OBVIOUS
  <1>5. \A x \in S : ~(x < m)
    BY <1>1, <1>3, <1>4, Zenon
  <1>6. \A x \in S : m <= x
    BY <1>4, <1>5
  <1> QED
    BY <1>6

-----------------------------------------------------------------------------
(* Induction on the members of a set, upwards from 0 and downwards from L.   *)
LEMMA UpTo ==
    ASSUME NEW L \in Nat, NEW P, 0 \in P, \A n \in 0 .. L : n \in P /\ n < L => n + 1 \in P
    PROVE  \A n \in 0 .. L : n \in P
  <1> DEFINE Rest == {n \in 0 .. L : n \notin P}
  <1>1. SUFFICES ASSUME Rest # {} PROVE FALSE
    OBVIOUS
  <1>2. PICK m \in Rest : \A x \in Rest : m <= x
    <2>1. Rest \in SUBSET Nat
      OBVIOUS
    <2> HIDE DEF Rest
    <2> QED
      BY <1>1, <2>1, LeastElement
  <1>3. m \in 1 .. L /\ m - 1 \in 0 .. L /\ m - 1 < m /\ m - 1 < L /\ (m - 1) + 1 = m
    BY <1>2
  <1>4. m - 1 \in P
    BY <1>2, <1>3
  <1>5. (m - 1) + 1 \in P
    BY <1>3, <1>4
  <1> QED
    BY <1>2, <1>3, <1>5

LEMMA DownFrom ==
    ASSUME NEW L \in Nat, NEW P,
           \A n \in 1 .. L : (\A m \in n + 1 .. L : m \in P) => n \in P
    PROVE  \A n \in 1 .. L : n \in P
  <1> DEFINE Rest == {x \in 0 .. L : L - x \in 1 .. L /\ L - x \notin P}
  <1>1. SUFFICES ASSUME NEW n \in 1 .. L, n \notin P PROVE FALSE
    OBVIOUS
  <1>2. L - n \in Rest
    <2>1. L - (L - n) = n /\ L - n \in 0 .. L
      OBVIOUS
    <2> QED
      BY <1>1, <2>1
  <1>3. PICK m \in Rest : \A x \in Rest : m <= x
    <2>1. Rest \in SUBSET Nat
      OBVIOUS
    <2> HIDE DEF Rest
    <2> QED
      BY <1>2, <2>1, LeastElement
  <1>4. ASSUME NEW k \in (L - m) + 1 .. L PROVE k \in P
    <2>1. L - k < m /\ L - k \in 0 .. L /\ L - (L - k) = k /\ k \in 1 .. L
      BY <1>3
    <2> QED
      BY <1>3, <2>1
  <1>5. L - m \in 1 .. L /\ L - m \notin P
    BY <1>3
  <1> HIDE DEF Rest
  <1> QED
    BY <1>4, <1>5

(* A function defined by recursion exists: f[0] = a and f[n] from f[n-1].    *)
Recurses(f, S, a, step, L) ==
    f \in [0 .. L -> S] /\ f[0] = a /\ \A n \in 1 .. L : f[n] = step[<<n, f[n - 1]>>]

LEMMA RecursiveFunction ==
    ASSUME NEW S, NEW a \in S, NEW step \in [Nat \X S -> S], NEW L \in Nat
    PROVE  \E f : Recurses(f, S, a, step, L)
  <1> DEFINE Starts(f, l) == \A n \in 0 .. l : f[n] = IF n = 0 THEN a ELSE step[<<n, f[n - 1]>>]
             P == {l \in 0 .. L : \E f \in [0 .. l -> S] : Starts(f, l)}
  <1>1. 0 \in P
    <2> DEFINE g == [n \in 0 .. 0 |-> a]
    <2>1. g \in [0 .. 0 -> S]
      OBVIOUS
    <2>2. Starts(g, 0)
      <3>1. \A n \in 0 .. 0 : n = 0 /\ g[n] = a
        OBVIOUS
      <3> HIDE DEF g
      <3> QED
        BY <3>1
    <2> HIDE DEF g
    <2> QED
      BY <2>1, <2>2
  <1>2. ASSUME NEW l \in 0 .. L, l \in P, l < L PROVE l + 1 \in P
    <2>1. PICK f \in [0 .. l -> S] : Starts(f, l)
      BY <1>2
    <2> DEFINE g == [n \in 0 .. l + 1 |-> IF n = l + 1 THEN step[<<l + 1, f[l]>>] ELSE f[n]]
    <2>2. g \in [0 .. l + 1 -> S]
      <3>1. f[l] \in S /\ l + 1 \in Nat
        BY <2>1
      <3>2. step[<<l + 1, f[l]>>] \in S
        BY <3>1
      <3>3. \A n \in 0 .. l + 1 : n # l + 1 => n \in 0 .. l
        OBVIOUS
      <3> QED
        BY <2>1, <3>2, <3>3
    <2>3. ASSUME NEW n \in 0 .. l + 1 PROVE g[n] = IF n = 0 THEN a ELSE step[<<n, g[n - 1]>>]
      <3>1. CASE n = l + 1
        <4>1. g[l + 1] = step[<<l + 1, f[l]>>] /\ g[l] = f[l] /\ (l + 1) - 1 = l /\ l + 1 # 0
          OBVIOUS
        <4> HIDE DEF g
        <4> QED
          BY <3>1, <4>1
      <3>2. CASE n # l + 1
        <4>1. n \in 0 .. l /\ (n # 0 => n - 1 \in 0 .. l)
          BY <3>2
        <4>2. g[n] = f[n] /\ (n # 0 => g[n - 1] = f[n - 1])
          BY <4>1
        <4> QED
          BY <2>1, <4>1, <4>2
      <3> QED
        BY <3>1, <3>2
    <2> HIDE DEF g
    <2>4. Starts(g, l + 1)
      BY <2>3
    <2>5. l + 1 \in 0 .. L
      BY <1>2
    <2> HIDE DEF Starts
    <2> QED
      BY <2>2, <2>4, <2>5
  <1>3. L \in P
    <2> HIDE DEF P
    <2> QED
      BY <1>1, <1>2, UpTo
  <1>4. PICK f \in [0 .. L -> S] : Starts(f, L)
    BY <1>3
  <1>5. f[0] = a
    <2>1. 0 \in 0 .. L
      OBVIOUS
    <2> HIDE DEF P
    <2> QED
      BY <1>4, <2>1
  <1>6. ASSUME NEW n \in 1 .. L PROVE f[n] = step[<<n, f[n - 1]>>]
    <2>1. n \in 0 .. L /\ n # 0
      OBVIOUS
    <2> QED
      BY <1>4, <2>1
  <1> QED
    BY <1>5, <1>6 DEF Recurses

(* So does one whose value at i is got from its value at a later place.      *)
Collects(f, T, here, later, L) ==
    /\ f \in [1 .. L + 1 -> SUBSET T]
    /\ f[L + 1] = {} /\ \A i \in 1 .. L : f[i] = here[i] \cup f[later[i]]

LEMMA BackwardFunction ==
    ASSUME NEW T, NEW L \in Nat, NEW later \in [1 .. L -> 1 .. L + 1],
           \A i \in 1 .. L : later[i] > i, NEW here \in [1 .. L -> SUBSET T]
    PROVE  \E f : Collects(f, T, here, later, L)
  <1> DEFINE Solves(f, i) == f[i] = here[i] \cup f[later[i]]
             Last(f, l) == f[L + 1] = {} /\ \A i \in 1 .. L : i > L - l => Solves(f, i)
             P == {l \in 0 .. L : \E f \in [1 .. L + 1 -> SUBSET T] : Last(f, l)}
  <1>1. 0 \in P
    <2> DEFINE g == [n \in 1 .. L + 1 |-> {}]
    <2>1. g \in [1 .. L + 1 -> SUBSET T]
      OBVIOUS
    <2>2. g[L + 1] = {}
      OBVIOUS
    <2>3. \A i \in 1 .. L : ~(i > L - 0)
      OBVIOUS
    <2> HIDE DEF g, Solves
    <2>4. Last(g, 0)
      BY <2>2, <2>3
    <2> HIDE DEF Last
    <2> QED
      BY <2>1, <2>4
  <1>2. ASSUME NEW l \in 0 .. L, l \in P, l < L PROVE l + 1 \in P
    <2>1. PICK f \in [1 .. L + 1 -> SUBSET T] : Last(f, l)
      BY <1>2
    <2> DEFINE k == L - l
               g == [f EXCEPT ![k] = here[k] \cup f[later[k]]]
    <2>2. k \in 1 .. L /\ k # L + 1
      BY <1>2
    <2>3. /\ g \in [1 .. L + 1 -> SUBSET T] /\ g[k] = here[k] \cup f[later[k]]
          /\ \A i \in 1 .. L + 1 : i # k => g[i] = f[i]
      <3>1. here[k] \in SUBSET T /\ f[later[k]] \in SUBSET T
        BY <2>1, <2>2
      <3> HIDE DEF k
      <3> QED
        BY <2>1, <2>2, <3>1
    <2>4. ASSUME NEW i \in 1 .. L, i > L - (l + 1) PROVE Solves(g, i)
      <3>1. later[i] \in 1 .. L + 1 /\ later[i] > i /\ i >= k
        BY <2>4
      <3>2. g[later[i]] = f[later[i]]
        BY <2>3, <3>1
      <3>3. CASE i = k
        <4> HIDE DEF g
        <4> QED
          BY <2>3, <3>2, <3>3
      <3>4. CASE i # k
        <4>1. i > L - l /\ g[i] = f[i]
          BY <2>3, <2>4, <3>4
        <4> HIDE DEF g
        <4> QED
          BY <2>1, <3>2, <4>1
      <3> QED
        BY <3>3, <3>4
    <2>5. g[L + 1] = {}
      BY <2>1, <2>2, <2>3
    <2> HIDE DEF g, Solves
    <2>6. Last(g, l + 1)
      BY <2>4, <2>5
    <2>7. l + 1 \in 0 .. L
      BY <1>2
    <2> HIDE DEF Last
    <2> QED
      BY <2>3, <2>6, <2>7
  <1>3. L \in P
    <2>1. \A l \in 0 .. L : l \in P /\ l < L => l + 1 \in P
      BY <1>2
    <2> HIDE DEF P
    <2>2. \A l \in 0 .. L : l \in P
      BY <1>1, <2>1, UpTo
    <2> QED
      BY <2>2
  <1>4. PICK f \in [1 .. L + 1 -> SUBSET T] : Last(f, L)
    BY <1>3
  <1>5. f[L + 1] = {} /\ \A i \in 1 .. L : f[i] = here[i] \cup f[later[i]]
    BY <1>4
  <1> QED
    BY <1>5 DEF Collects
=============================================================================
