----------------------------- MODULE ListLemmas -----------------------------
(***************************************************************************)
(* Functions defined by recursion, without the induction theorems that     *)
(* take an operator: a set of numbers stands for the predicate; and lists  *)
(* made of some elements of another one (Positions).                       *)
(***************************************************************************)
EXTENDS Positions, FiniteSetTheorems, WellFoundedInduction, TLAPS

-----------------------------------------------------------------------------
(* Induction up to a bound, with the set of the numbers it holds for.       *)
LEMMA UpTo ==
    ASSUME NEW N \in Nat, NEW P, 0 \in P, \A n \in 1 .. N : n - 1 \in P => n \in P
    PROVE  \A n \in 0 .. N : n \in P
<1> DEFINE Missed == {n \in 0 .. N : n \notin P}
<1> SUFFICES ASSUME Missed # {}
             PROVE  FALSE
  OBVIOUS
<1>1. PICK m \in Missed : \A n \in Missed : ~(<<n, m>> \in OpToRel(<, Nat))
  <2>1. Missed \subseteq Nat
    OBVIOUS
  <2> HIDE DEF Missed
  <2> QED
    BY <2>1, NatLessThanWellFounded, WFMin
<1>2. m \in 1 .. N
  OBVIOUS
<1>3. <<m - 1, m>> \in OpToRel(<, Nat)
  BY <1>2 DEF OpToRel
<1>4. m - 1 \notin Missed
  <2> HIDE DEF Missed
  <2> QED
    BY <1>1, <1>3, Zenon
<1> QED
  BY <1>2, <1>4

(* f is defined by recursion: z at 0, then G at each number up to N.        *)
Unfolds(f, N, S, z, G) ==
    f \in [0 .. N -> S] /\ f[0] = z /\ \A n \in 1 .. N : f[n] = G[n][f[n - 1]]

(* And there is one for every G.                                            *)
LEMMA RecursionExists ==
    ASSUME NEW N \in Nat, NEW S, NEW z \in S, NEW G \in [1 .. N -> [S -> S]]
    PROVE  \E f : Unfolds(f, N, S, z, G)
<1> DEFINE P == {m \in 0 .. N : \E f : Unfolds(f, m, S, z, G)}
<1>1. 0 \in P
  <2>1. Unfolds([n \in 0 .. 0 |-> z], 0, S, z, G)
    BY DEF Unfolds
  <2> QED
    BY <2>1
<1>2. ASSUME NEW m \in 1 .. N, m - 1 \in P
      PROVE  m \in P
  <2>1. PICK f : Unfolds(f, m - 1, S, z, G)
    BY <1>2
  <2> DEFINE g == [n \in 0 .. m |-> IF n = m THEN G[m][f[m - 1]] ELSE f[n]]
  <2>2. f[m - 1] \in S /\ G[m][f[m - 1]] \in S
    BY <2>1 DEF Unfolds
  <2>3. g \in [0 .. m -> S] /\ g[0] = z
    BY <2>1, <2>2 DEF Unfolds
  <2>4. ASSUME NEW n \in 1 .. m
        PROVE  g[n] = G[n][g[n - 1]]
    <3>1. g[n - 1] = f[n - 1]
      BY <2>4
    <3>2. CASE n = m
      BY <3>1, <3>2
    <3>3. CASE n # m
      BY <2>1, <3>1, <3>3 DEF Unfolds
    <3> QED
      BY <3>2, <3>3
  <2>5. Unfolds(g, m, S, z, G)
    <3> HIDE DEF g
    <3> QED
      BY <2>3, <2>4 DEF Unfolds
  <2> QED
    BY <2>5
<1>3. \A m \in 0 .. N : m \in P
  <2> HIDE DEF P
  <2> QED
    BY <1>1, <1>2, UpTo
<1> QED
  BY <1>3

-----------------------------------------------------------------------------
(* Numbers: the least of a set, and the k-th.                                *)

(* A set of numbers with an element has a least one.                        *)
LEMMA LeastExists ==
    ASSUME NEW S \in SUBSET Nat, S # {}
    PROVE  \E k \in S : \A j \in S : k <= j
<1>1. PICK k \in S : \A j \in S : ~(<<j, k>> \in OpToRel(<, Nat))
  BY NatLessThanWellFounded, WFMin
<1>2. ASSUME NEW j \in S
      PROVE  k <= j
  <2>1. ~(<<j, k>> \in OpToRel(<, Nat)) /\ j \in Nat /\ k \in Nat
    BY <1>1
  <2> QED
    BY <2>1 DEF OpToRel
<1> QED
  BY <1>2

(* How many elements of a set are less than one: more of a greater one, and *)
(* fewer than there are.                                                    *)
LEMMA BelowGrows ==
    ASSUME NEW S \in SUBSET Nat, IsFiniteSet(S), NEW j \in S, NEW k \in S
    PROVE  /\ Cardinality(S) \in Nat
           /\ Cardinality({i \in S : i < k}) \in Nat
           /\ Cardinality({i \in S : i < k}) < Cardinality(S)
           /\ j < k => Cardinality({i \in S : i < j}) < Cardinality({i \in S : i < k})
<1> DEFINE Below(m) == {i \in S : i < m}
<1>1. \A m \in S : /\ IsFiniteSet(Below(m)) /\ Cardinality(Below(m)) \in Nat
                   /\ IsFiniteSet(Below(m) \cup {m})
                   /\ Cardinality(Below(m) \cup {m}) = Cardinality(Below(m)) + 1
  <2> TAKE m \in S
  <2>1. IsFiniteSet(Below(m)) /\ m \notin Below(m)
    BY FS_Subset
  <2> HIDE DEF Below
  <2> QED
    BY <2>1, FS_AddElement, FS_CardinalityType
<1>2. Cardinality(S) \in Nat
  BY FS_CardinalityType
<1>3. /\ Below(k) \cup {k} \in SUBSET S
      /\ j < k => Below(j) \cup {j} \in SUBSET Below(k)
  <2>1. \A i \in S : i \in Nat
    OBVIOUS
  <2>2. ASSUME j < k, NEW i \in Below(j) \cup {j}
        PROVE  i \in Below(k)
    BY <2>1, <2>2
  <2> QED
    BY <2>2
<1>4. Cardinality(Below(k)) + 1 <= Cardinality(S)
  <2> HIDE DEF Below
  <2>1. Cardinality(Below(k) \cup {k}) <= Cardinality(S)
    BY <1>3, FS_Subset
  <2> QED
    BY <1>1, <2>1
<1>5. ASSUME j < k
      PROVE  Cardinality(Below(j)) + 1 <= Cardinality(Below(k))
  <2> HIDE DEF Below
  <2>1. Cardinality(Below(j) \cup {j}) <= Cardinality(Below(k))
    BY <1>1, <1>3, <1>5, FS_Subset
  <2> QED
    BY <1>1, <2>1
<1>6. Cardinality(Below(j)) \in Nat /\ Cardinality(Below(k)) \in Nat
  BY <1>1
<1> QED
  BY <1>2, <1>4, <1>5, <1>6

(* There is an i-th least element.                                          *)
LEMMA NthExists ==
    ASSUME NEW S \in SUBSET Nat, IsFiniteSet(S)
    PROVE  \A n \in 1 .. Cardinality(S) :
               \E k \in S : Cardinality({j \in S : j < k}) = n - 1
<1> DEFINE Below(m) == {i \in S : i < m}
           Found == {n \in 0 .. Cardinality(S) :
                        n > 0 => \E k \in S : Cardinality(Below(k)) = n - 1}
<1>1. Cardinality(S) \in Nat
  BY FS_CardinalityType
<1>2. 0 \in Found
  BY <1>1
<1>3. ASSUME NEW n \in 1 .. Cardinality(S), n - 1 \in Found
      PROVE  n \in Found
  <2>1. PICK B \in SUBSET S : /\ Cardinality(B) = n - 1 /\ \A b \in B, j \in S : j < b => j \in B
    <3>1. CASE n = 1
      <4>1. Cardinality({}) = n - 1
        BY <3>1, FS_EmptySet
      <4> QED
        BY <4>1
    <3>2. CASE n # 1
      <4>1. PICK k \in S : Cardinality(Below(k)) = n - 2
        BY <1>3, <3>2
      <4>2. IsFiniteSet(Below(k)) /\ k \notin Below(k)
        BY FS_Subset
      <4>3. Cardinality(Below(k) \cup {k}) = n - 1
        <5> HIDE DEF Below
        <5>1. Cardinality(Below(k) \cup {k}) = Cardinality(Below(k)) + 1
          BY <4>2, FS_AddElement
        <5> QED
          BY <4>1, <5>1
      <4>4. \A b \in Below(k) \cup {k}, j \in S : j < b => j \in Below(k) \cup {k}
        OBVIOUS
      <4> QED
        BY <4>3, <4>4
    <3> QED
      BY <3>1, <3>2
  <2>2. S \ B # {}
    <3>1. n - 1 # Cardinality(S)
      BY <1>1
    <3>2. B # S
      BY <2>1, <3>1
    <3> QED
      BY <3>2
  <2>3. PICK k \in S \ B : \A j \in S \ B : k <= j
    BY <2>2, LeastExists
  <2>4. Below(k) = B
    <3>1. ASSUME NEW b \in B
          PROVE  b < k
      BY <2>1, <2>3
    <3>2. ASSUME NEW b \in S, b < k
          PROVE  b \in B
      <4>1. b \in Nat /\ k \in Nat
        OBVIOUS
      <4> QED
        BY <2>3, <3>2, <4>1
    <3> QED
      BY <3>1, <3>2
  <2>5. n \in 0 .. Cardinality(S) /\ \E i \in S : Cardinality(Below(i)) = n - 1
    <3> HIDE DEF Below
    <3> QED
      BY <1>1, <2>1, <2>3, <2>4
  <2> QED
    BY <2>5
<1>4. \A n \in 0 .. Cardinality(S) : n \in Found
  <2> HIDE DEF Found
  <2> QED
    BY <1>1, <1>2, <1>3, UpTo
<1> QED
  BY <1>1, <1>4

(* Nth counts a set through, from the least element to the greatest.        *)
LEMMA NthCounts ==
    ASSUME NEW S \in SUBSET Nat, IsFiniteSet(S)
    PROVE  /\ Cardinality(S) \in Nat
           /\ \A n \in 1 .. Cardinality(S) : Nth(S, n) \in S
           /\ \A m, n \in 1 .. Cardinality(S) : m < n => Nth(S, m) < Nth(S, n)
           /\ \A k \in S : \E n \in 1 .. Cardinality(S) :
                 Nth(S, n) = k /\ n = Cardinality({j \in S : j < k}) + 1
<1> DEFINE Below(m) == {i \in S : i < m}
<1>1. Cardinality(S) \in Nat
  BY FS_CardinalityType
<1>2. ASSUME NEW n \in 1 .. Cardinality(S)
      PROVE  Nth(S, n) \in S /\ Cardinality(Below(Nth(S, n))) = n - 1
  BY NthExists DEF Nth
<1>3. ASSUME NEW m \in 1 .. Cardinality(S), NEW n \in 1 .. Cardinality(S), m < n
      PROVE  Nth(S, m) < Nth(S, n)
  <2>1. /\ Nth(S, m) \in S /\ Nth(S, n) \in S
        /\ Cardinality(Below(Nth(S, m))) = m - 1 /\ Cardinality(Below(Nth(S, n))) = n - 1
    BY <1>2
  <2>2. Nth(S, n) < Nth(S, m) => Cardinality(Below(Nth(S, n))) < Cardinality(Below(Nth(S, m)))
    BY <2>1, BelowGrows
  <2>3. Nth(S, n) # Nth(S, m)
    BY <1>1, <1>3, <2>1
  <2>4. PICK p \in Nat, q \in Nat : p = Nth(S, m) /\ q = Nth(S, n)
    BY <2>1
  <2> QED
    <3>1. p # q /\ ~(q < p)
      <4> HIDE DEF Below
      <4> QED
        BY <1>1, <1>3, <2>1, <2>2, <2>3, <2>4
    <3> QED
      BY <2>4, <3>1
<1>4. ASSUME NEW k \in S
      PROVE  \E n \in 1 .. Cardinality(S) : Nth(S, n) = k /\ n = Cardinality(Below(k)) + 1
  <2>1. Cardinality(Below(k)) \in Nat /\ Cardinality(Below(k)) < Cardinality(S)
    BY BelowGrows
  <2>2. PICK n \in 1 .. Cardinality(S) : n = Cardinality(Below(k)) + 1
    <3> HIDE DEF Below
    <3> QED
      BY <1>1, <2>1
  <2>3. Nth(S, n) \in S /\ Cardinality(Below(Nth(S, n))) = Cardinality(Below(k))
    <3> HIDE DEF Below
    <3> QED
      BY <1>1, <1>2, <2>1, <2>2
  <2>4. /\ Nth(S, n) < k => Cardinality(Below(Nth(S, n))) < Cardinality(Below(k))
        /\ k < Nth(S, n) => Cardinality(Below(k)) < Cardinality(Below(Nth(S, n)))
    BY <2>3, BelowGrows
  <2>5. Nth(S, n) = k
    <3>1. PICK p \in Nat, q \in Nat : p = Nth(S, n) /\ q = k
      BY <2>3
    <3>2. ~(p < q) /\ ~(q < p)
      <4> HIDE DEF Below
      <4> QED
        BY <2>1, <2>3, <2>4, <3>1
    <3> QED
      BY <3>1, <3>2
  <2> QED
    BY <2>2, <2>5
<1> QED
  BY <1>1, <1>2, <1>3, <1>4

(* d lists the elements of s at the positions K: the i-th is the one at the *)
(* position at[i].                                                          *)
Picks(at, K, s, d) ==
    /\ Len(d) \in Nat /\ DOMAIN d = 1 .. Len(d) /\ at \in [1 .. Len(d) -> K]
    /\ \A i \in 1 .. Len(d) : d[i] = s[at[i]]
    /\ \A i, j \in 1 .. Len(d) : i < j => at[i] < at[j]
    /\ \A k \in K : \E i \in 1 .. Len(d) : at[i] = k

(* Only lists the elements at the positions, in their order.                 *)
LEMMA OnlyPicks ==
    ASSUME NEW K \in SUBSET Nat, IsFiniteSet(K), NEW s
    PROVE  /\ \E at : Picks(at, K, s, Only(s, K))
           /\ Len(Only(s, K)) = Cardinality(K)
<1> DEFINE at == [i \in 1 .. Cardinality(K) |-> Nth(K, i)]
<1>1. Cardinality(K) \in Nat
  BY NthCounts
<1>2. /\ Len(Only(s, K)) = Cardinality(K) /\ DOMAIN Only(s, K) = 1 .. Cardinality(K)
      /\ \A i \in 1 .. Cardinality(K) : Only(s, K)[i] = s[Nth(K, i)]
  BY <1>1 DEF Only
<1>3. /\ at \in [1 .. Cardinality(K) -> K]
      /\ \A i \in 1 .. Cardinality(K) : at[i] = Nth(K, i)
  BY NthCounts
<1>4. /\ \A i, j \in 1 .. Cardinality(K) : i < j => at[i] < at[j]
      /\ \A k \in K : \E i \in 1 .. Cardinality(K) : at[i] = k
  BY <1>3, NthCounts
<1>5. Picks(at, K, s, Only(s, K))
  <2> HIDE DEF at
  <2> QED
    BY <1>1, <1>2, <1>3, <1>4 DEF Picks
<1> QED
  BY <1>2, <1>5
=============================================================================
