--------------------------- MODULE SystemDNSProofs ---------------------------
(***************************************************************************)
(* Proofs about SystemDNS: whatever the operating system is configured     *)
(* with and whatever names are asked for, a planned name is asked at the   *)
(* servers that own it.  The proof has three parts: the resolvers found    *)
(* are those the entries offer, each where its entry has it (Tells); the   *)
(* selection is sorted and sifted from them (Sifted); and for each         *)
(* platform the two together are what the configuration alone says.        *)
(***************************************************************************)
EXTENDS SystemDNS, ListLemmas, FiniteSetTheorems, SequenceTheorems,
        WellFoundedInduction, TLAPS

-----------------------------------------------------------------------------
(* Every resolver of a list is at an endpoint whose first place is kept.    *)
EndpointOf(servers, m) == servers[m].endpoint

(* A place whose endpoint no earlier place has.                              *)
IsFirstOf(servers, places, k) ==
    \A j \in 1 .. k - 1 : EndpointOf(servers, places[j]) # EndpointOf(servers, places[k])

FirstPlaces(servers, places, n) == {k \in 1 .. n : IsFirstOf(servers, places, k)}

(* Whatever endpoint a list has, it has a first place.                       *)
LEMMA FirstPlaceExists ==
    ASSUME NEW n \in Nat, NEW servers, NEW places, NEW k \in 1 .. n
    PROVE  \E j \in FirstPlaces(servers, places, n) :
              j <= k /\ EndpointOf(servers, places[j]) = EndpointOf(servers, places[k])
<1> DEFINE Same == {j \in 1 .. n : EndpointOf(servers, places[j]) = EndpointOf(servers, places[k])}
<1>1. k \in Same /\ Same \in SUBSET Nat
  OBVIOUS
<1>2. PICK j \in Same : \A i \in Same : j <= i
  <2> HIDE DEF Same
  <2> QED
    BY <1>1, LeastExists
<1>3. j <= k
  <2> HIDE DEF Same
  <2> QED
    BY <1>1, <1>2
<1>4. ASSUME NEW i \in 1 .. j - 1
      PROVE  EndpointOf(servers, places[i]) # EndpointOf(servers, places[j])
  <2>1. i \in 1 .. n /\ ~(j <= i)
    BY <1>2
  <2>2. i \notin Same
    <3> HIDE DEF Same
    <3> QED
      BY <1>2, <2>1
  <2> QED
    BY <1>2, <2>1, <2>2
<1> QED
  BY <1>2, <1>3, <1>4 DEF FirstPlaces, IsFirstOf

(* Distinct keeps the first places.                                          *)
LEMMA DistinctPicks ==
    ASSUME NEW n \in Nat, NEW servers, NEW places, DOMAIN places = 1 .. n
    PROVE  \E at : Picks(at, FirstPlaces(servers, places, n), places, Distinct(servers, places))
<1>1. /\ FirstPlaces(servers, places, n) \in SUBSET Nat
      /\ IsFiniteSet(FirstPlaces(servers, places, n))
  <2>1. FirstPlaces(servers, places, n) \in SUBSET (1 .. n) /\ IsFiniteSet(1 .. n)
    BY FS_Interval DEF FirstPlaces
  <2> QED
    BY <2>1, FS_Subset
<1>2. Distinct(servers, places) = Only(places, FirstPlaces(servers, places, n))
  BY DEF Distinct, FirstPlaces, IsFirstOf, EndpointOf
<1> QED
  BY <1>1, <1>2, OnlyPicks

(* A rotation moves every element by the same distance, so that moving back *)
(* by it gives the list.                                                    *)
Moved(i, n, o) == ((i - 1 + n - o) % n) + 1

(* r is s with every element moved by o of n places.                         *)
Shifts(r, s, n, o) ==
    /\ Len(r) = n
    /\ \A i \in 1 .. n : Moved(i, n, o) \in 1 .. n /\ r[Moved(i, n, o)] = s[i]
    /\ \A i \in 1 .. n : \E j \in 1 .. n : r[i] = s[j]

(* Rotated does so.                                                          *)
LEMMA RotatedMoves ==
    ASSUME NEW S, NEW s \in Seq(S), NEW o \in 0 .. Len(s) - 1
    PROVE  Rotated(s, o) \in Seq(S) /\ Shifts(Rotated(s, o), s, Len(s), o)
<1> SUFFICES ASSUME NEW n \in Nat \ {0}, n = Len(s)
             PROVE  Rotated(s, o) \in Seq(S) /\ Shifts(Rotated(s, o), s, n, o)
  OBVIOUS
<1> DEFINE a == SubSeq(s, o + 1, n)
           b == SubSeq(s, 1, o)
<1>1. /\ a \in Seq(S) /\ Len(a) = n - o /\ \A i \in 1 .. n - o : a[i] = s[o + i]
      /\ b \in Seq(S) /\ Len(b) = o /\ \A i \in 1 .. o : b[i] = s[i]
  <2>1. \A i \in 1 .. n : s[i] \in S
    OBVIOUS
  <2>2. o + 1 \in Int /\ n \in Int /\ 1 \in Int /\ o \in Int
    OBVIOUS
  <2>3. \A i \in o + 1 .. n : s[i] \in S
    BY <2>1
  <2>4. \A i \in 1 .. o : s[i] \in S
    BY <2>1
  <2>5. /\ a \in Seq(S) /\ Len(a) = (IF o + 1 <= n THEN n - (o + 1) + 1 ELSE 0)
        /\ \A i \in 1 .. n - (o + 1) + 1 : a[i] = s[o + 1 + i - 1]
    BY <2>2, <2>3, SubSeqProperties
  <2>6. /\ b \in Seq(S) /\ Len(b) = (IF 1 <= o THEN o - 1 + 1 ELSE 0)
        /\ \A i \in 1 .. o - 1 + 1 : b[i] = s[1 + i - 1]
    BY <2>2, <2>4, SubSeqProperties
  <2> HIDE DEF a, b
  <2>7. n - (o + 1) + 1 = n - o /\ o - 1 + 1 = o /\ o + 1 <= n
    OBVIOUS
  <2>8. \A i \in 1 .. n - o : o + 1 + i - 1 = o + i
    OBVIOUS
  <2>9. \A i \in 1 .. o : 1 + i - 1 = i
    OBVIOUS
  <2> QED
    BY <2>5, <2>6, <2>7, <2>8, <2>9
<1>2. Rotated(s, o) = a \o b
  BY DEF Rotated
<1>3. /\ a \o b \in Seq(S) /\ Len(a \o b) = n
      /\ \A i \in 1 .. n : (a \o b)[i] = IF i <= n - o THEN s[o + i] ELSE s[i - (n - o)]
  <2> HIDE DEF a, b
  <2>1. /\ a \o b \in Seq(S) /\ Len(a \o b) = Len(a) + Len(b)
        /\ \A i \in 1 .. Len(a) + Len(b) :
              (a \o b)[i] = IF i <= Len(a) THEN a[i] ELSE b[i - Len(a)]
    BY <1>1, ConcatProperties
  <2>2. Len(a) + Len(b) = n
    BY <1>1
  <2>3. ASSUME NEW i \in 1 .. n
        PROVE  (a \o b)[i] = IF i <= n - o THEN s[o + i] ELSE s[i - (n - o)]
    <3>1. (a \o b)[i] = IF i <= n - o THEN a[i] ELSE b[i - (n - o)]
      BY <1>1, <2>1, <2>2
    <3>2. CASE i <= n - o
      BY <1>1, <3>1, <3>2
    <3>3. CASE ~(i <= n - o)
      <4>1. i - (n - o) \in 1 .. o
        BY <3>3
      <4> QED
        BY <1>1, <3>1, <3>3, <4>1
    <3> QED
      BY <3>2, <3>3
  <2> QED
    BY <2>1, <2>2, <2>3
<1> HIDE DEF a, b
<1>4. ASSUME NEW i \in 1 .. n
      PROVE  Moved(i, n, o) \in 1 .. n /\ (a \o b)[Moved(i, n, o)] = s[i]
  <2>1. CASE i - 1 < o
    <3>1. i - 1 + n - o \in 0 .. n - 1
      BY <2>1
    <3>2. (i - 1 + n - o) % n = i - 1 + n - o
      BY <3>1
    <3>3. PICK j \in 1 .. n : j = i - 1 + n - o + 1
      BY <3>1, SMTT(30)
    <3>4. ~(j <= n - o) /\ j - (n - o) = i
      BY <3>3
    <3> QED
      BY <1>3, <3>2, <3>3, <3>4 DEF Moved
  <2>2. CASE ~(i - 1 < o)
    <3>1. i - 1 - o \in 0 .. n - 1 /\ i - 1 + n - o = n + (i - 1 - o)
      BY <2>2
    <3>2. (n + (i - 1 - o)) % n = i - 1 - o
      <4>1. PICK x \in 0 .. n - 1 : x = i - 1 - o
        BY <3>1
      <4>2. (n + x) % n = x
        OBVIOUS
      <4> QED
        BY <4>1, <4>2
    <3>3. PICK j \in 1 .. n : j = i - 1 - o + 1
      BY <3>1
    <3>4. j <= n - o /\ o + j = i
      BY <3>3
    <3> QED
      BY <1>3, <3>1, <3>2, <3>3, <3>4 DEF Moved
  <2> QED
    BY <2>1, <2>2
<1>5. ASSUME NEW i \in 1 .. n
      PROVE  \E j \in 1 .. n : (a \o b)[i] = s[j]
  <2>1. CASE i <= n - o
    <3>1. o + i \in 1 .. n
      BY <2>1
    <3> QED
      BY <1>3, <2>1, <3>1
  <2>2. CASE ~(i <= n - o)
    <3>1. i - (n - o) \in 1 .. n
      BY <2>2
    <3> QED
      BY <1>3, <2>2, <3>1
  <2> QED
    BY <2>1, <2>2
<1> QED
  BY <1>2, <1>3, <1>4, <1>5 DEF Shifts

(* InsertAt moves what is at the place and after it by one.                 *)
LEMMA InsertAtMoves ==
    ASSUME NEW S, NEW s \in Seq(S), NEW p \in 1 .. Len(s) + 1, NEW x \in S
    PROVE  /\ InsertAt(s, p, x) \in Seq(S) /\ Len(InsertAt(s, p, x)) = Len(s) + 1
           /\ \A i \in 1 .. Len(s) + 1 :
                 InsertAt(s, p, x)[i] = IF i < p THEN s[i] ELSE IF i = p THEN x ELSE s[i - 1]
<1> DEFINE a == SubSeq(s, 1, p - 1)
           b == SubSeq(s, p, Len(s))
<1>1. InsertAt(s, p, x) = a \o <<x>> \o b
  BY DEF InsertAt
<1>2. Len(s) \in Nat /\ 1 \in Int /\ p \in Int /\ p - 1 \in Int /\ p <= Len(s) + 1
  OBVIOUS
<1>3. \A i \in 1 .. Len(s) : s[i] \in S
  OBVIOUS
<1>4. /\ a \in Seq(S) /\ Len(a) = p - 1 /\ \A i \in 1 .. p - 1 : a[i] = s[i]
  <2>1. \A i \in 1 .. p - 1 : s[i] \in S
    BY <1>2, <1>3
  <2>2. /\ a \in Seq(S) /\ Len(a) = (IF 1 <= p - 1 THEN p - 1 - 1 + 1 ELSE 0)
        /\ \A i \in 1 .. p - 1 - 1 + 1 : a[i] = s[1 + i - 1]
    BY <1>2, <2>1, SubSeqProperties
  <2> HIDE DEF a
  <2>3. \A i \in 1 .. p - 1 : 1 + i - 1 = i
    OBVIOUS
  <2>4. p - 1 - 1 + 1 = p - 1 /\ (~(1 <= p - 1) => p - 1 = 0)
    BY <1>2
  <2> QED
    BY <2>2, <2>3, <2>4
<1>5. /\ b \in Seq(S) /\ Len(b) = Len(s) - p + 1
      /\ \A i \in 1 .. Len(s) - p + 1 : b[i] = s[p + i - 1]
  <2>1. \A i \in p .. Len(s) : s[i] \in S
    BY <1>2, <1>3
  <2>2. /\ b \in Seq(S) /\ Len(b) = (IF p <= Len(s) THEN Len(s) - p + 1 ELSE 0)
        /\ \A i \in 1 .. Len(s) - p + 1 : b[i] = s[p + i - 1]
    BY <1>2, <2>1, SubSeqProperties
  <2> HIDE DEF b
  <2>3. ~(p <= Len(s)) => Len(s) - p + 1 = 0
    BY <1>2
  <2> QED
    BY <2>2, <2>3
<1> HIDE DEF a, b
<1>6. <<x>> \in Seq(S) /\ Len(<<x>>) = 1 /\ <<x>>[1] = x
  OBVIOUS
<1> DEFINE c == a \o <<x>>
<1>7. /\ c \in Seq(S) /\ Len(c) = p
      /\ \A i \in 1 .. p : c[i] = IF i < p THEN s[i] ELSE x
  <2>1. /\ c \in Seq(S) /\ Len(c) = Len(a) + Len(<<x>>)
        /\ \A i \in 1 .. Len(a) + Len(<<x>>) :
              c[i] = IF i <= Len(a) THEN a[i] ELSE <<x>>[i - Len(a)]
    BY <1>4, <1>6, ConcatProperties
  <2> HIDE DEF c
  <2>2. \A i \in 1 .. p : (i < p => i <= p - 1) /\ (~(i < p) => ~(i <= p - 1) /\ i - (p - 1) = 1)
    OBVIOUS
  <2>3. p - 1 + 1 = p
    BY <1>2
  <2> QED
    BY <1>4, <1>6, <2>1, <2>2, <2>3
<1> HIDE DEF c
<1>8. /\ c \o b \in Seq(S) /\ Len(c \o b) = Len(c) + Len(b)
      /\ \A i \in 1 .. Len(c) + Len(b) :
            (c \o b)[i] = IF i <= Len(c) THEN c[i] ELSE b[i - Len(c)]
  BY <1>5, <1>7, ConcatProperties
<1>9. Len(c) + Len(b) = Len(s) + 1
  BY <1>2, <1>5, <1>7
<1>10. ASSUME NEW i \in 1 .. Len(s) + 1
       PROVE  (c \o b)[i] = IF i < p THEN s[i] ELSE IF i = p THEN x ELSE s[i - 1]
  <2>1. CASE i <= p
    <3>1. i \in 1 .. p /\ (~(i < p) => i = p) /\ (i < p => i # p)
      BY <1>2, <2>1
    <3>2. (c \o b)[i] = c[i]
      BY <1>7, <1>8, <1>9, <2>1
    <3> QED
      BY <1>7, <3>1, <3>2
  <2>2. CASE ~(i <= p)
    <3>1. i - p \in 1 .. Len(s) - p + 1 /\ p + (i - p) - 1 = i - 1 /\ ~(i < p) /\ i # p
      BY <1>2, <2>2
    <3>2. (c \o b)[i] = b[i - p]
      BY <1>7, <1>8, <1>9, <2>2
    <3>3. b[i - p] = s[p + (i - p) - 1]
      BY <1>5, <3>1
    <3> QED
      BY <3>1, <3>2, <3>3
  <2> QED
    BY <2>1, <2>2
<1>11. InsertAt(s, p, x) = c \o b
  BY <1>1 DEF c
<1> QED
  BY <1>8, <1>9, <1>10, <1>11

-----------------------------------------------------------------------------
(* sort.SliceStable: an insertion sort that keeps the order of equals.       *)

(* Where sort.SliceStable puts n into a list.                               *)
Place(s, n) ==
    CHOOSE k \in 1 .. Len(s) + 1 : /\ k = 1 \/ ~Precedes(n, s[k - 1])
                                   /\ \A j \in k .. Len(s) : Precedes(n, s[j])

(* The lists the sort goes through.                                          *)
Sorting(places) ==
    CHOOSE f : f = [n \in 0 .. Len(places) |->
                       IF n = 0 THEN <<>>
                       ELSE InsertAt(f[n - 1], Place(f[n - 1], places[n]), places[n])]

(* There is such a place in any list.                                        *)
LEMMA PlaceExists ==
    ASSUME NEW S, NEW s \in Seq(S), NEW n
    PROVE  /\ Place(s, n) \in 1 .. Len(s) + 1
           /\ Place(s, n) = 1 \/ ~Precedes(n, s[Place(s, n) - 1])
           /\ \A j \in Place(s, n) .. Len(s) : Precedes(n, s[j])
<1> DEFINE Free == {k \in 1 .. Len(s) + 1 : \A j \in k .. Len(s) : Precedes(n, s[j])}
<1>1. Len(s) \in Nat /\ Free \in SUBSET Nat
  OBVIOUS
<1>2. Len(s) + 1 \in Free
  OBVIOUS
<1>3. PICK k \in Free : \A i \in Free : k <= i
  <2> HIDE DEF Free
  <2> QED
    BY <1>1, <1>2, LeastExists
<1>4. k = 1 \/ ~Precedes(n, s[k - 1])
  <2> SUFFICES ASSUME k # 1, Precedes(n, s[k - 1])
               PROVE  FALSE
    OBVIOUS
  <2>1. k - 1 \in 1 .. Len(s) + 1
    BY <1>3
  <2>2. \A j \in k - 1 .. Len(s) : j = k - 1 \/ j \in k .. Len(s)
    BY <2>1
  <2>3. k - 1 \in Free
    BY <1>3, <2>1, <2>2
  <2>4. ~(k <= k - 1)
    BY <2>1
  <2> HIDE DEF Free
  <2> QED
    BY <1>3, <2>3, <2>4
<1>5. \E i \in 1 .. Len(s) + 1 : /\ i = 1 \/ ~Precedes(n, s[i - 1])
                                 /\ \A j \in i .. Len(s) : Precedes(n, s[j])
  BY <1>3, <1>4
<1> QED
  BY <1>5 DEF Place

(* The sort is made of these lists.                                          *)
LEMMA StableSorts ==
    ASSUME NEW S, NEW places \in Seq(S)
    PROVE  /\ Stable(places) = Sorting(places)[Len(places)]
           /\ Sorting(places) \in [0 .. Len(places) -> Seq(S)]
           /\ Sorting(places)[0] = <<>>
           /\ \A n \in 1 .. Len(places) :
                 Sorting(places)[n] = InsertAt(Sorting(places)[n - 1],
                                               Place(Sorting(places)[n - 1], places[n]), places[n])
<1> DEFINE G == [n \in 1 .. Len(places) |->
                    [s \in Seq(S) |-> InsertAt(s, Place(s, places[n]), places[n])]]
           Inserting(f) ==
               f = [n \in 0 .. Len(places) |->
                       IF n = 0 THEN <<>>
                       ELSE InsertAt(f[n - 1], Place(f[n - 1], places[n]), places[n])]
<1>1. Len(places) \in Nat /\ \A n \in 1 .. Len(places) : places[n] \in S
  OBVIOUS
<1>2. G \in [1 .. Len(places) -> [Seq(S) -> Seq(S)]]
  <2>1. ASSUME NEW n \in 1 .. Len(places), NEW s \in Seq(S)
        PROVE  InsertAt(s, Place(s, places[n]), places[n]) \in Seq(S)
    BY <1>1, PlaceExists, InsertAtMoves
  <2> QED
    BY <2>1
<1>3. <<>> \in Seq(S)
  OBVIOUS
<1>4. PICK f : Unfolds(f, Len(places), Seq(S), <<>>, G)
  <2> HIDE DEF G
  <2> QED
    BY <1>1, <1>2, <1>3, RecursionExists
<1>5. /\ f \in [0 .. Len(places) -> Seq(S)] /\ f[0] = <<>>
      /\ \A n \in 1 .. Len(places) : f[n] = G[n][f[n - 1]]
  BY <1>4 DEF Unfolds
<1>6. ASSUME NEW n \in 1 .. Len(places)
      PROVE  f[n] = InsertAt(f[n - 1], Place(f[n - 1], places[n]), places[n])
  <2>1. n - 1 \in 0 .. Len(places)
    BY <1>1
  <2>2. f[n - 1] \in Seq(S) /\ f[n] = G[n][f[n - 1]]
    BY <1>5, <2>1
  <2> QED
    BY <2>2
<1>7. Inserting(f)
  <2>1. \A n \in 0 .. Len(places) : n # 0 => n \in 1 .. Len(places)
    BY <1>1
  <2>2. \A n \in 0 .. Len(places) :
           f[n] = IF n = 0 THEN <<>>
                  ELSE InsertAt(f[n - 1], Place(f[n - 1], places[n]), places[n])
    BY <1>5, <1>6, <2>1
  <2>3. f = [n \in 0 .. Len(places) |-> f[n]]
    BY <1>5
  <2> QED
    BY <2>2, <2>3
<1>8. Sorting(places) = CHOOSE g : Inserting(g)
  BY DEF Sorting
<1>9. Stable(places) = (CHOOSE g : Inserting(g))[Len(places)]
  BY DEF Stable, Place
<1>10. Inserting(Sorting(places))
  <2> HIDE DEF Inserting
  <2> QED
    BY <1>7, <1>8
<1>11. ASSUME NEW n \in 0 .. Len(places)
       PROVE  Sorting(places)[n] = f[n]
  <2> DEFINE Same == {m \in 0 .. Len(places) : Sorting(places)[m] = f[m]}
  <2>1. 0 \in Same
    BY <1>1, <1>5, <1>10
  <2>2. ASSUME NEW m \in 1 .. Len(places), m - 1 \in Same
        PROVE  m \in Same
    <3>1. m \in 0 .. Len(places) /\ m # 0 /\ m - 1 \in 0 .. Len(places)
      BY <1>1
    <3>2. Sorting(places)[m] = InsertAt(Sorting(places)[m - 1],
                                        Place(Sorting(places)[m - 1], places[m]), places[m])
      BY <1>10, <3>1
    <3> QED
      BY <1>6, <2>2, <3>1, <3>2
  <2>3. \A m \in 0 .. Len(places) : m \in Same
    <3> HIDE DEF Same
    <3> QED
      BY <1>1, <2>1, <2>2, UpTo
  <2> QED
    BY <2>3
<1>12. Sorting(places) = f
  <2>1. Sorting(places) = [n \in 0 .. Len(places) |-> Sorting(places)[n]]
    BY <1>10
  <2>2. f = [n \in 0 .. Len(places) |-> f[n]]
    BY <1>5
  <2> HIDE DEF Inserting
  <2> QED
    BY <1>11, <2>1, <2>2
<1>13. Stable(places) = Sorting(places)[Len(places)]
  <2> HIDE DEF Inserting
  <2> QED
    BY <1>8, <1>9
<1> QED
  BY <1>5, <1>6, <1>12, <1>13

(* s lists the first n of these places, in some order.                      *)
Lists(s, places, n) ==
    /\ Len(s) = n
    /\ \A i \in 1 .. n : \E k \in 1 .. n : s[i] = places[k]
    /\ \A k \in 1 .. n : \E i \in 1 .. n : s[i] = places[k]

(* Each element comes before the later ones.                                *)
Sorted(s) == \A i, j \in 1 .. Len(s) : i < j => Precedes(s[i], s[j])

\* One more is listed, wherever it is put.
LEMMA InsertedIsListed ==
    ASSUME NEW S, NEW places \in Seq(S), NEW n \in 1 .. Len(places),
           NEW s \in Seq(S), Lists(s, places, n - 1), NEW p \in 1 .. Len(s) + 1
    PROVE  Lists(InsertAt(s, p, places[n]), places, n)
<1> DEFINE t == InsertAt(s, p, places[n])
<1>1. /\ n \in Nat /\ p \in Nat /\ Len(s) = n - 1 /\ Len(s) + 1 = n /\ places[n] \in S /\ n \in 1 .. n
      /\ 1 <= p /\ p <= n /\ 1 <= n
  BY DEF Lists
<1>2. /\ Len(t) = n
      /\ \A i \in 1 .. n :
            t[i] = IF i < p THEN s[i] ELSE IF i = p THEN places[n] ELSE s[i - 1]
  <2>1. /\ Len(t) = Len(s) + 1
        /\ \A i \in 1 .. Len(s) + 1 :
              t[i] = IF i < p THEN s[i] ELSE IF i = p THEN places[n] ELSE s[i - 1]
    <3>1. places[n] \in S
      OBVIOUS
    <3> QED
      BY <3>1, InsertAtMoves
  <2> HIDE DEF t
  <2> QED
    BY <1>1, <2>1
<1>3. /\ \A i \in 1 .. n - 1 : \E k \in 1 .. n - 1 : s[i] = places[k]
      /\ \A k \in 1 .. n - 1 : \E i \in 1 .. n - 1 : s[i] = places[k]
  BY DEF Lists
<1> HIDE DEF t
<1>4. ASSUME NEW i \in 1 .. n
      PROVE  \E k \in 1 .. n : t[i] = places[k]
  <2>1. CASE i < p
    <3>1. i \in 1 .. n - 1
      BY <1>1, <2>1
    <3>2. PICK k \in 1 .. n - 1 : s[i] = places[k]
      BY <1>3, <3>1
    <3>3. k \in 1 .. n /\ t[i] = s[i]
      BY <1>1, <1>2, <2>1
    <3> QED
      BY <3>2, <3>3
  <2>2. CASE i = p
    <3>1. t[i] = places[n]
      BY <1>1, <1>2, <2>2
    <3> QED
      BY <1>1, <3>1
  <2>3. CASE ~(i < p) /\ i # p
    <3>1. i - 1 \in 1 .. n - 1
      BY <1>1, <2>3
    <3>2. PICK k \in 1 .. n - 1 : s[i - 1] = places[k]
      BY <1>3, <3>1
    <3>3. k \in 1 .. n /\ t[i] = s[i - 1]
      BY <1>1, <1>2, <2>3
    <3> QED
      BY <3>2, <3>3
  <2> QED
    BY <2>1, <2>2, <2>3
<1>5. ASSUME NEW k \in 1 .. n
      PROVE  \E i \in 1 .. n : t[i] = places[k]
  <2>1. CASE k = n
    <3>1. t[p] = places[n] /\ p \in 1 .. n
      BY <1>1, <1>2
    <3> QED
      BY <2>1, <3>1
  <2>2. CASE k # n
    <3>1. k \in 1 .. n - 1
      BY <2>2
    <3>2. PICK i \in 1 .. n - 1 : s[i] = places[k]
      BY <1>3, <3>1
    <3>3. CASE i < p
      <4>1. i \in 1 .. n /\ t[i] = s[i]
        BY <1>1, <1>2, <3>3
      <4> QED
        BY <3>2, <4>1
    <3>4. CASE ~(i < p)
      <4>1. i + 1 \in 1 .. n /\ ~(i + 1 < p) /\ i + 1 # p /\ i + 1 - 1 = i
        BY <1>1, <3>4
      <4>2. t[i + 1] = s[i]
        BY <1>2, <4>1
      <4> QED
        BY <3>2, <4>1, <4>2
    <3> QED
      BY <3>3, <3>4
  <2> QED
    BY <2>1, <2>2
<1>6. Lists(t, places, n)
  BY <1>2, <1>4, <1>5 DEF Lists
<1> QED
  BY <1>6 DEF t

\* The list is sorted if Precedes orders the places.
LEMMA InsertedIsSorted ==
    ASSUME NEW S, NEW s \in Seq(S), Sorted(s), NEW x \in S, \A i \in 1 .. Len(s) : s[i] # x,
           \A y, z \in S : y = z \/ Precedes(y, z) \/ Precedes(z, y),
           \A w, y, z \in S : Precedes(w, y) /\ Precedes(y, z) => Precedes(w, z)
    PROVE  Sorted(InsertAt(s, Place(s, x), x))
<1>1. PICK p \in 1 .. Len(s) + 1 : p = Place(s, x)
  BY PlaceExists
<1>2. /\ p = 1 \/ ~Precedes(x, s[p - 1])
      /\ \A j \in p .. Len(s) : Precedes(x, s[j])
  BY <1>1, PlaceExists
<1> DEFINE t == InsertAt(s, p, x)
<1>3. /\ Len(t) = Len(s) + 1
      /\ \A i \in 1 .. Len(s) + 1 :
            t[i] = IF i < p THEN s[i] ELSE IF i = p THEN x ELSE s[i - 1]
  BY InsertAtMoves
<1> HIDE DEF t
<1>4. Len(s) \in Nat /\ \A i \in 1 .. Len(s) : s[i] \in S
  OBVIOUS
<1>5. \A i, j \in 1 .. Len(s) : i < j => Precedes(s[i], s[j])
  BY DEF Sorted
<1>6. ASSUME NEW i \in 1 .. Len(s), i < p
      PROVE  Precedes(s[i], x)
  <2>1. p - 1 \in 1 .. Len(s) /\ i <= p - 1 /\ p # 1
    BY <1>4, <1>6
  <2>2. Precedes(s[p - 1], x)
    BY <1>2, <1>4, <2>1
  <2>3. CASE i = p - 1
    BY <2>2, <2>3
  <2>4. CASE i # p - 1
    <3>1. Precedes(s[i], s[p - 1])
      BY <1>5, <2>1, <2>4
    <3> QED
      BY <1>4, <2>1, <2>2, <3>1
  <2> QED
    BY <2>3, <2>4
<1>7. ASSUME NEW i \in 1 .. Len(s) + 1, NEW j \in 1 .. Len(s) + 1, i < j
      PROVE  Precedes(t[i], t[j])
  <2>1. CASE j < p
    <3>1. i < p /\ i \in 1 .. Len(s) /\ j \in 1 .. Len(s)
      BY <1>4, <1>7, <2>1
    <3>2. t[i] = s[i] /\ t[j] = s[j]
      BY <1>3, <2>1, <3>1
    <3> QED
      BY <1>5, <1>7, <3>1, <3>2
  <2>2. CASE j = p
    <3>1. i < p /\ i \in 1 .. Len(s)
      BY <1>4, <1>7, <2>2
    <3>2. t[i] = s[i] /\ t[j] = x
      BY <1>3, <2>2, <3>1
    <3> QED
      BY <1>6, <3>1, <3>2
  <2>3. CASE ~(j < p) /\ j # p
    <3>1. j - 1 \in p .. Len(s) /\ j - 1 \in 1 .. Len(s)
      BY <1>4, <2>3
    <3>2. t[j] = s[j - 1]
      BY <1>3, <2>3
    <3>3. CASE i < p
      <4>1. i \in 1 .. Len(s) /\ i < j - 1
        BY <1>4, <2>3, <3>3
      <4>2. t[i] = s[i]
        BY <1>3, <3>3
      <4> QED
        BY <1>5, <3>1, <3>2, <4>1, <4>2
    <3>4. CASE i = p
      <4>1. t[i] = x
        BY <1>3, <3>4
      <4> QED
        BY <1>2, <3>1, <3>2, <4>1
    <3>5. CASE ~(i < p) /\ i # p
      <4>1. i - 1 \in 1 .. Len(s) /\ i - 1 < j - 1
        BY <1>4, <1>7, <3>5
      <4>2. t[i] = s[i - 1]
        BY <1>3, <3>5
      <4> QED
        BY <1>5, <3>1, <3>2, <4>1, <4>2
    <3> QED
      BY <3>3, <3>4, <3>5
  <2> QED
    BY <2>1, <2>2, <2>3
<1>8. Sorted(t)
  BY <1>3, <1>7 DEF Sorted
<1> QED
  BY <1>1, <1>8 DEF t

(* A sort lists the places it is given, whatever Precedes is.               *)
LEMMA StableLists ==
    ASSUME NEW S, NEW places \in Seq(S)
    PROVE  Stable(places) \in Seq(S) /\ Lists(Stable(places), places, Len(places))
<1> DEFINE f == Sorting(places)
           P == {n \in 0 .. Len(places) : Lists(f[n], places, n)}
<1>1. /\ Stable(places) = f[Len(places)] /\ f \in [0 .. Len(places) -> Seq(S)] /\ f[0] = <<>>
      /\ \A n \in 1 .. Len(places) :
            f[n] = InsertAt(f[n - 1], Place(f[n - 1], places[n]), places[n])
      /\ Len(places) \in Nat
  BY StableSorts
<1> HIDE DEF f
<1>2. 0 \in P
  BY <1>1 DEF Lists
<1>3. ASSUME NEW n \in 1 .. Len(places), n - 1 \in P
      PROVE  n \in P
  <2>1. f[n - 1] \in Seq(S) /\ Lists(f[n - 1], places, n - 1)
    BY <1>1, <1>3
  <2>2. PICK p \in 1 .. Len(f[n - 1]) + 1 : p = Place(f[n - 1], places[n])
    BY <2>1, PlaceExists
  <2>3. Lists(InsertAt(f[n - 1], p, places[n]), places, n)
    BY <2>1, InsertedIsListed
  <2> QED
    BY <1>1, <2>2, <2>3
<1>4. \A n \in 0 .. Len(places) : n \in P
  <2> HIDE DEF P
  <2> QED
    BY <1>1, <1>2, <1>3, UpTo
<1> QED
  BY <1>1, <1>4

(* It orders them if Precedes does.                                         *)
LEMMA StableIsSorted ==
    ASSUME NEW S, NEW places \in Seq(S),
           \A i, j \in 1 .. Len(places) : i < j => places[i] # places[j],
           \A y, z \in S : y = z \/ Precedes(y, z) \/ Precedes(z, y),
           \A w, y, z \in S : Precedes(w, y) /\ Precedes(y, z) => Precedes(w, z)
    PROVE  Sorted(Stable(places))
<1> DEFINE f == Sorting(places)
           P == {n \in 0 .. Len(places) : Lists(f[n], places, n) /\ Sorted(f[n])}
<1>1. /\ Stable(places) = f[Len(places)] /\ f \in [0 .. Len(places) -> Seq(S)] /\ f[0] = <<>>
      /\ \A n \in 1 .. Len(places) :
            f[n] = InsertAt(f[n - 1], Place(f[n - 1], places[n]), places[n])
      /\ Len(places) \in Nat
  BY StableSorts
<1> HIDE DEF f
<1>2. 0 \in P
  BY <1>1 DEF Lists, Sorted
<1>3. ASSUME NEW n \in 1 .. Len(places), n - 1 \in P
      PROVE  n \in P
  <2>1. f[n - 1] \in Seq(S) /\ Lists(f[n - 1], places, n - 1) /\ Sorted(f[n - 1])
    BY <1>1, <1>3
  <2>2. PICK p \in 1 .. Len(f[n - 1]) + 1 : p = Place(f[n - 1], places[n])
    BY <2>1, PlaceExists
  <2>3. Lists(InsertAt(f[n - 1], p, places[n]), places, n)
    BY <2>1, InsertedIsListed
  <2>4. places[n] \in S
    OBVIOUS
  <2>5. \A i \in 1 .. Len(f[n - 1]) : f[n - 1][i] # places[n]
    <3>1. \A i \in 1 .. n - 1 : \E k \in 1 .. n - 1 : f[n - 1][i] = places[k]
      BY <2>1 DEF Lists
    <3>2. \A k \in 1 .. n - 1 : places[k] # places[n]
      BY <1>1
    <3>3. Len(f[n - 1]) = n - 1
      BY <2>1 DEF Lists
    <3> QED
      BY <3>1, <3>2, <3>3
  <2>6. Sorted(InsertAt(f[n - 1], Place(f[n - 1], places[n]), places[n]))
    BY <2>1, <2>4, <2>5, InsertedIsSorted
  <2> QED
    BY <1>1, <2>2, <2>3, <2>6
<1>4. \A n \in 0 .. Len(places) : n \in P
  <2> HIDE DEF P
  <2> QED
    BY <1>1, <1>2, <1>3, UpTo
<1> QED
  BY <1>1, <1>4

(* What is in order already stays as it is.                                 *)
LEMMA StableKeeps ==
    ASSUME NEW N \in Nat, NEW places \in Seq(1 .. N), Len(places) = N,
           \A i \in 1 .. N : places[i] = i,
           \A m, n \in 1 .. N : Precedes(m, n) <=> m < n
    PROVE  Stable(places) = places
<1> DEFINE f == Sorting(places)
           Same(n) == Len(f[n]) = n /\ \A i \in 1 .. n : f[n][i] = i
           P == {n \in 0 .. N : Same(n)}
<1>1. /\ Stable(places) = f[N] /\ f \in [0 .. N -> Seq(1 .. N)] /\ f[0] = <<>>
      /\ \A n \in 1 .. N : f[n] = InsertAt(f[n - 1], Place(f[n - 1], places[n]), places[n])
  BY StableSorts
<1> HIDE DEF f
<1>2. 0 \in P
  BY <1>1
<1>3. ASSUME NEW n \in 1 .. N, n - 1 \in P
      PROVE  n \in P
  <2>1. /\ n - 1 \in 0 .. N /\ f[n - 1] \in Seq(1 .. N) /\ Len(f[n - 1]) = n - 1
        /\ \A i \in 1 .. n - 1 : f[n - 1][i] = i
    BY <1>1, <1>3
  <2>2. PICK p \in 1 .. Len(f[n - 1]) + 1 : p = Place(f[n - 1], n)
    BY <2>1, PlaceExists
  <2>3. \A j \in p .. Len(f[n - 1]) : Precedes(n, f[n - 1][j])
    BY <2>1, <2>2, PlaceExists
  <2>4. p = n
    <3> SUFFICES ASSUME p # n
                 PROVE  FALSE
      OBVIOUS
    <3>1. p \in 1 .. n - 1 /\ p \in p .. Len(f[n - 1]) /\ p \in 1 .. N
      BY <2>1
    <3>2. Precedes(n, p)
      BY <2>1, <2>3, <3>1
    <3>3. n < p
      BY <3>1, <3>2
    <3> QED
      BY <3>1, <3>3
  <2>5. f[n] = InsertAt(f[n - 1], p, n)
    BY <1>1, <2>2
  <2>6. /\ Len(InsertAt(f[n - 1], p, n)) = Len(f[n - 1]) + 1
        /\ \A i \in 1 .. Len(f[n - 1]) + 1 :
              InsertAt(f[n - 1], p, n)[i]
                 = IF i < p THEN f[n - 1][i] ELSE IF i = p THEN n ELSE f[n - 1][i - 1]
    <3>1. PICK s \in Seq(1 .. N) : s = f[n - 1]
      BY <2>1
    <3>2. PICK q \in 1 .. Len(s) + 1 : q = p
      BY <2>2, <3>1
    <3>3. /\ Len(InsertAt(s, q, n)) = Len(s) + 1
          /\ \A i \in 1 .. Len(s) + 1 :
                InsertAt(s, q, n)[i] = IF i < q THEN s[i] ELSE IF i = q THEN n ELSE s[i - 1]
      BY InsertAtMoves
    <3> QED
      BY <3>1, <3>2, <3>3
  <2>7. Len(f[n]) = n /\ \A i \in 1 .. n : f[n][i] = IF i < n THEN f[n - 1][i] ELSE n
    BY <2>1, <2>4, <2>5, <2>6
  <2>8. ASSUME NEW i \in 1 .. n
        PROVE  f[n][i] = i
    <3>1. CASE i < n
      <4>1. i \in 1 .. n - 1
        BY <3>1
      <4> QED
        BY <2>1, <2>7, <3>1, <4>1
    <3>2. CASE ~(i < n)
      BY <2>7, <3>2
    <3> QED
      BY <3>1, <3>2
  <2> QED
    BY <2>7, <2>8
<1>4. \A n \in 0 .. N : n \in P
  <2> HIDE DEF P
  <2> QED
    BY <1>2, <1>3, UpTo
<1>5. Len(f[N]) = N /\ f[N] \in Seq(1 .. N) /\ \A i \in 1 .. N : f[N][i] = i
  BY <1>1, <1>4
<1>6. f[N] = places
  BY <1>5, SeqEqual
<1> QED
  BY <1>1, <1>6

-----------------------------------------------------------------------------
(* Discovery: what AddResolvers makes of the lists it is given.              *)

\* The first time a list has the endpoint.
FirstIn(l, k) == \A j \in 1 .. k - 1 : l[j].endpoint # l[k].endpoint

(* The resolvers R are those the first e of these lists offer, each endpoint *)
(* of a list once: resolver m is the first of its endpoint in list en[m], at *)
(* place pl[m].                                                              *)
Tells(en, pl, R, off, e) ==
    /\ en \in [1 .. Len(R) -> 1 .. e] /\ pl \in [1 .. Len(R) -> Nat]
    /\ \A m \in 1 .. Len(R) : /\ pl[m] \in 1 .. Len(off[en[m]])
                              /\ R[m] = off[en[m]][pl[m]]
                              /\ FirstIn(off[en[m]], pl[m])
    /\ \A m, o \in 1 .. Len(R) : m < o =>
              en[m] < en[o] \/ (en[m] = en[o] /\ pl[m] < pl[o])
    /\ \A n \in 1 .. e : \A k \in 1 .. Len(off[n]) :
          FirstIn(off[n], k) => \E m \in 1 .. Len(R) : en[m] = n /\ pl[m] = k

\* The next list adds its endpoints.
Added(R, l) ==
    R \o [i \in DOMAIN Distinct(l, Places(l)) |-> l[Distinct(l, Places(l))[i]]]

(* The places of the first c that are the first of their endpoint.           *)
FirstsIn(l, c) == {k \in 1 .. c : FirstIn(l, k)}

\* The ones added are those at the places at[i].
Adds(at, R, l, c) ==
    /\ Picks(at, FirstsIn(l, c), Places(l), Distinct(l, Places(l)))
    /\ Len(Added(R, l)) = Len(R) + Len(Distinct(l, Places(l)))
    /\ \A m \in 1 .. Len(R) : Added(R, l)[m] = R[m]
    /\ \A i \in 1 .. Len(Distinct(l, Places(l))) : Added(R, l)[Len(R) + i] = l[at[i]]

(* What Distinct keeps of a list are the first places of its endpoints.      *)
LEMMA PlacesAre ==
    ASSUME NEW l, NEW c \in Nat, DOMAIN l = 1 .. c
    PROVE  \E at : Picks(at, FirstsIn(l, c), Places(l), Distinct(l, Places(l)))
                   /\ \A i \in 1 .. Len(Distinct(l, Places(l))) : Distinct(l, Places(l))[i] = at[i]
<1>1. DOMAIN Places(l) = 1 .. c /\ \A k \in 1 .. c : Places(l)[k] = k
  BY DEF Places
<1>2. PICK at : Picks(at, FirstPlaces(l, Places(l), c), Places(l), Distinct(l, Places(l)))
  BY <1>1, DistinctPicks
<1>3. FirstPlaces(l, Places(l), c) = FirstsIn(l, c)
  <2>1. ASSUME NEW k \in 1 .. c
        PROVE  IsFirstOf(l, Places(l), k) <=> FirstIn(l, k)
    <3>1. \A j \in 1 .. k - 1 : j \in 1 .. c
      OBVIOUS
    <3>2. \A j \in 1 .. k - 1 : Places(l)[j] = j
      BY <1>1, <3>1
    <3>3. Places(l)[k] = k
      BY <1>1
    <3> QED
      BY <3>2, <3>3 DEF IsFirstOf, FirstIn, EndpointOf
  <2> QED
    BY <2>1 DEF FirstPlaces, FirstsIn
<1>4. ASSUME NEW i \in 1 .. Len(Distinct(l, Places(l)))
      PROVE  Distinct(l, Places(l))[i] = at[i]
  <2>1. at[i] \in 1 .. c /\ Distinct(l, Places(l))[i] = Places(l)[at[i]]
    BY <1>2, <1>3 DEF Picks, FirstsIn
  <2> QED
    BY <1>1, <2>1
<1> QED
  BY <1>2, <1>3, <1>4

(* These are what AddResolvers adds.                                         *)
LEMMA AddedIs ==
    ASSUME NEW S, NEW R \in Seq(S), NEW l, NEW c \in Nat, DOMAIN l = 1 .. c
    PROVE  /\ \E T : Added(R, l) \in Seq(T)
           /\ \E at : Adds(at, R, l, c)
<1>1. PICK at : /\ Picks(at, FirstsIn(l, c), Places(l), Distinct(l, Places(l)))
                /\ \A i \in 1 .. Len(Distinct(l, Places(l))) : Distinct(l, Places(l))[i] = at[i]
  BY PlacesAre
<1> DEFINE d == Distinct(l, Places(l))
           new == [i \in DOMAIN d |-> l[d[i]]]
           T == S \cup {l[k] : k \in 1 .. c}
<1>2. /\ Len(d) \in Nat /\ DOMAIN d = 1 .. Len(d)
      /\ \A i \in 1 .. Len(d) : d[i] = at[i] /\ at[i] \in 1 .. c
  BY <1>1 DEF Picks, FirstsIn
<1>3. new \in Seq(T) /\ Len(new) = Len(d) /\ \A i \in 1 .. Len(d) : new[i] = l[at[i]]
  <2>1. new = [i \in 1 .. Len(d) |-> l[d[i]]]
    BY <1>2
  <2>2. \A i \in 1 .. Len(d) : l[d[i]] \in T /\ d[i] = at[i]
    BY <1>2
  <2> HIDE DEF d, T
  <2> QED
    BY <1>2, <2>1, <2>2
<1>4. R \in Seq(T) /\ Len(R) \in Nat
  OBVIOUS
<1> HIDE DEF new, T
<1>5. /\ R \o new \in Seq(T) /\ Len(R \o new) = Len(R) + Len(new)
      /\ \A i \in 1 .. Len(R) + Len(new) :
            (R \o new)[i] = IF i <= Len(R) THEN R[i] ELSE new[i - Len(R)]
  BY <1>3, <1>4, ConcatProperties
<1>6. Added(R, l) = R \o new
  BY DEF Added, new
<1> HIDE DEF d
<1>7. \A m \in 1 .. Len(R) : Added(R, l)[m] = R[m]
  <2>1. \A m \in 1 .. Len(R) : m \in 1 .. Len(R) + Len(new) /\ m <= Len(R)
    BY <1>2, <1>3, <1>4
  <2> QED
    BY <1>5, <1>6, <2>1
<1>8. ASSUME NEW i \in 1 .. Len(d)
      PROVE  Added(R, l)[Len(R) + i] = l[at[i]]
  <2>1. /\ Len(R) + i \in 1 .. Len(R) + Len(new) /\ ~(Len(R) + i <= Len(R))
        /\ Len(R) + i - Len(R) = i
    BY <1>2, <1>3, <1>4
  <2>2. (R \o new)[Len(R) + i] = new[i]
    BY <1>5, <2>1
  <2> QED
    BY <1>3, <1>6, <2>2
<1>9. Added(R, l) \in Seq(T) /\ Len(Added(R, l)) = Len(R) + Len(d)
  BY <1>3, <1>5, <1>6
<1>10. Adds(at, R, l, c)
  BY <1>1, <1>7, <1>8, <1>9 DEF d, Adds
<1> QED
  BY <1>9, <1>10

(* So the resolvers tell of one list more.                                   *)
LEMMA TellsNext ==
    ASSUME NEW S, NEW R \in Seq(S), NEW off, NEW e \in Nat, NEW en, NEW pl,
           Tells(en, pl, R, off, e),
           NEW l, NEW c \in Nat, DOMAIN l = 1 .. c, Len(l) = c, off[e + 1] = l
    PROVE  \E en2, pl2 : Tells(en2, pl2, Added(R, l), off, e + 1)
<1>1. PICK at : Adds(at, R, l, c)
  BY AddedIs
<1> DEFINE d == Distinct(l, Places(l))
           A == Added(R, l)
           L == Len(R)
           en2 == [m \in 1 .. Len(A) |-> IF m <= L THEN en[m] ELSE e + 1]
           pl2 == [m \in 1 .. Len(A) |-> IF m <= L THEN pl[m] ELSE at[m - L]]
<1>2. /\ Len(d) \in Nat /\ Len(A) = L + Len(d) /\ L \in Nat
      /\ \A i \in 1 .. Len(d) : /\ at[i] \in Nat /\ at[i] \in 1 .. c /\ FirstIn(l, at[i])
                                /\ A[L + i] = l[at[i]]
      /\ \A i, j \in 1 .. Len(d) : i < j => at[i] < at[j]
      /\ \A k \in 1 .. c : FirstIn(l, k) => \E i \in 1 .. Len(d) : at[i] = k
      /\ \A m \in 1 .. L : A[m] = R[m]
  <2>1. at \in [1 .. Len(d) -> FirstsIn(l, c)] /\ Len(d) \in Nat
    BY <1>1 DEF Adds, Picks
  <2>2. \A i \in 1 .. Len(d) : at[i] \in FirstsIn(l, c)
    BY <2>1
  <2>3. \A i \in 1 .. Len(d) : at[i] \in Nat /\ at[i] \in 1 .. c /\ FirstIn(l, at[i])
    BY <2>2 DEF FirstsIn
  <2>4. /\ \A i, j \in 1 .. Len(d) : i < j => at[i] < at[j]
        /\ \A k \in FirstsIn(l, c) : \E i \in 1 .. Len(d) : at[i] = k
    BY <1>1 DEF Adds, Picks
  <2>5. \A k \in 1 .. c : FirstIn(l, k) => k \in FirstsIn(l, c)
    BY DEF FirstsIn
  <2>6. /\ Len(A) = L + Len(d) /\ L \in Nat
        /\ \A m \in 1 .. L : A[m] = R[m]
        /\ \A i \in 1 .. Len(d) : A[L + i] = l[at[i]]
    BY <1>1 DEF Adds
  <2> HIDE DEF A, d, L
  <2> QED
    BY <2>1, <2>3, <2>4, <2>5, <2>6
<1> HIDE DEF A, d
<1>3. /\ en \in [1 .. L -> 1 .. e] /\ pl \in [1 .. L -> Nat]
      /\ \A m \in 1 .. L : /\ pl[m] \in 1 .. Len(off[en[m]])
                           /\ R[m] = off[en[m]][pl[m]]
                           /\ FirstIn(off[en[m]], pl[m])
      /\ \A m, o \in 1 .. L : m < o => en[m] < en[o] \/ (en[m] = en[o] /\ pl[m] < pl[o])
      /\ \A n \in 1 .. e : \A k \in 1 .. Len(off[n]) :
            FirstIn(off[n], k) => \E m \in 1 .. L : en[m] = n /\ pl[m] = k
  BY DEF Tells
<1> HIDE DEF L
<1>4. ASSUME NEW m \in 1 .. Len(A)
      PROVE  \/ m \in 1 .. L /\ m <= L
             \/ ~(m <= L) /\ m - L \in 1 .. Len(d) /\ L + (m - L) = m
  BY <1>2
<1>5. \A m \in 1 .. L : /\ m \in 1 .. Len(A) /\ en2[m] = en[m] /\ pl2[m] = pl[m] /\ A[m] = R[m]
                        /\ en2[m] \in 1 .. e
  BY <1>2, <1>3
<1>6. \A i \in 1 .. Len(d) : /\ L + i \in 1 .. Len(A) /\ en2[L + i] = e + 1 /\ pl2[L + i] = at[i]
                             /\ A[L + i] = l[at[i]]
  <2> TAKE i \in 1 .. Len(d)
  <2>1. L + i \in 1 .. Len(A) /\ ~(L + i <= L) /\ L + i - L = i
    BY <1>2
  <2> QED
    BY <1>2, <2>1
<1>7. en2 \in [1 .. Len(A) -> 1 .. e + 1] /\ pl2 \in [1 .. Len(A) -> Nat]
  <2>1. \A m \in 1 .. Len(A) : (IF m <= L THEN en[m] ELSE e + 1) \in 1 .. e + 1
    BY <1>3, <1>4, SMTT(40)
  <2>2. \A m \in 1 .. Len(A) : (IF m <= L THEN pl[m] ELSE at[m - L]) \in Nat
    BY <1>2, <1>3, <1>4
  <2> QED
    BY <2>1, <2>2
<1> HIDE DEF en2, pl2
<1>8. ASSUME NEW m \in 1 .. Len(A)
      PROVE  /\ pl2[m] \in 1 .. Len(off[en2[m]])
             /\ A[m] = off[en2[m]][pl2[m]]
             /\ FirstIn(off[en2[m]], pl2[m])
  <2>1. CASE m \in 1 .. L
    BY <1>3, <1>5, <2>1
  <2>2. CASE ~(m <= L) /\ m - L \in 1 .. Len(d) /\ L + (m - L) = m
    <3>1. PICK i \in 1 .. Len(d) : i = m - L /\ m = L + i
      BY <2>2
    <3>2. en2[m] = e + 1 /\ pl2[m] = at[i] /\ A[m] = l[at[i]]
      BY <1>6, <3>1
    <3> QED
      BY <1>2, <3>2
  <2> QED
    BY <1>4, <2>1, <2>2
<1>9. ASSUME NEW m \in 1 .. Len(A), NEW o \in 1 .. Len(A), m < o
      PROVE  en2[m] < en2[o] \/ (en2[m] = en2[o] /\ pl2[m] < pl2[o])
  <2>1. CASE m <= L /\ o <= L
    <3>1. m \in 1 .. L /\ o \in 1 .. L
      BY <1>4, <2>1
    <3> QED
      BY <1>3, <1>5, <1>9, <3>1
  <2>2. CASE m <= L /\ ~(o <= L)
    <3>1. PICK i \in 1 .. Len(d) : o = L + i
      BY <1>4, <2>2
    <3>2. en2[o] = e + 1 /\ m \in 1 .. L
      BY <1>4, <1>6, <2>2, <3>1
    <3>3. en2[m] \in 1 .. e
      BY <1>5, <3>2
    <3> QED
      BY <3>2, <3>3
  <2>3. CASE ~(m <= L) /\ ~(o <= L)
    <3>1. PICK i \in 1 .. Len(d) : m = L + i
      BY <1>4, <2>3
    <3>2. PICK j \in 1 .. Len(d) : o = L + j
      BY <1>4, <2>3
    <3>3. i < j
      BY <1>2, <1>9, <3>1, <3>2
    <3>4. en2[m] = e + 1 /\ en2[o] = e + 1 /\ pl2[m] = at[i] /\ pl2[o] = at[j]
      BY <1>6, <3>1, <3>2
    <3> QED
      BY <1>2, <3>3, <3>4
  <2>4. ~(~(m <= L) /\ o <= L)
    BY <1>2, <1>9
  <2> QED
    BY <2>1, <2>2, <2>3, <2>4
<1>10. ASSUME NEW n \in 1 .. e + 1, NEW k \in 1 .. Len(off[n]), FirstIn(off[n], k)
       PROVE  \E m \in 1 .. Len(A) : en2[m] = n /\ pl2[m] = k
  <2>1. CASE n \in 1 .. e
    <3>1. PICK m \in 1 .. L : en[m] = n /\ pl[m] = k
      BY <1>3, <1>10, <2>1
    <3> QED
      BY <1>5, <3>1
  <2>2. CASE n = e + 1
    <3>1. k \in 1 .. c /\ FirstIn(l, k)
      BY <1>10, <2>2
    <3>2. PICK i \in 1 .. Len(d) : at[i] = k
      BY <1>2, <3>1
    <3> QED
      BY <1>6, <2>2, <3>2
  <2> QED
    BY <2>1, <2>2
<1>11. Tells(en2, pl2, A, off, e + 1)
  BY <1>7, <1>8, <1>9, <1>10 DEF Tells
<1> QED
  BY <1>11 DEF A

\* A list that offers nothing adds nothing.
LEMMA TellsTheSame ==
    ASSUME NEW R, NEW off, NEW e \in Nat, NEW en, NEW pl, Tells(en, pl, R, off, e),
           Len(off[e + 1]) = 0
    PROVE  Tells(en, pl, R, off, e + 1)
<1>1. en \in [1 .. Len(R) -> 1 .. e + 1]
  <2>1. en \in [1 .. Len(R) -> 1 .. e] /\ \A n \in 1 .. e : n \in 1 .. e + 1
    BY DEF Tells
  <2> QED
    BY <2>1
<1>2. ASSUME NEW n \in 1 .. e + 1, NEW k \in 1 .. Len(off[n])
      PROVE  n \in 1 .. e
  <2>1. n # e + 1
    BY <1>2
  <2> QED
    BY <2>1
<1> QED
  BY <1>1, <1>2 DEF Tells

(* And of none to begin with.                                                *)
LEMMA TellsNothing ==
    ASSUME NEW off
    PROVE  \E en, pl : Tells(en, pl, <<>>, off, 0)
<1>1. Tells([m \in 1 .. 0 |-> 1], [m \in 1 .. 0 |-> 1], <<>>, off, 0)
  <2>1. Len(<<>>) = 0 /\ \A x : x \notin 1 .. 0
    OBVIOUS
  <2>2. /\ [m \in 1 .. 0 |-> 1] \in [1 .. 0 -> 1 .. 0]
        /\ [m \in 1 .. 0 |-> 1] \in [1 .. 0 -> Nat]
    BY <2>1
  <2> QED
    BY <2>1, <2>2 DEF Tells
<1> QED
  BY <1>1

-----------------------------------------------------------------------------
(* What the entries of a configuration offer: a block its endpoints, an      *)
(* adapter that is up its servers, each with the route that will dial it.    *)
BlockOffers(b, n) ==
    [k \in 1 .. Len(BlockEndpoints(b)) |->
        Resolver(BlockEndpoints(b)[k], n - 1, b, b.interface, 0, 0)]

(* A server of an adapter, with the route that will dial it.                 *)
AdapterOffer(s, a, n) ==
    Resolver(AdapterEndpoint(s, a), n - 1, DefaultScope, InterfaceOf(a, s.address.family),
             config.routes[BestRoute(s.address, InterfaceOf(a, s.address.family))].interface,
             RouteMetric(s.address, BestRoute(s.address, InterfaceOf(a, s.address.family))))

AdapterOffers(a, n) == [k \in 1 .. Len(RealServers(a)) |-> AdapterOffer(RealServers(a)[k], a, n)]

(* What is offered by all entries: no list of resolv.conf is added up so.    *)
Offered ==
    [n \in 1 .. Len(config.entries) |->
        IF config.platform = "darwin" THEN BlockOffers(config.entries[n], n)
        ELSE IF config.platform = "windows" /\ config.entries[n].up
             THEN AdapterOffers(config.entries[n], n)
        ELSE <<>>]

(* The resolvers are those the first e entries offer.                        *)
Accounted(e) == \E en, pl : Tells(en, pl, found.resolvers, Offered, e)

(* resolv.conf: the first three name servers are taken, and no other line.   *)
NameServerLines == {k \in DOMAIN config.entries : config.entries[k].directive = "nameserver"}

(* The i-th name server.                                                     *)
LineResolver(i) ==
    Resolver(ParsedEndpoint(config.entries[Nth(NameServerLines, i)].server, "", 53),
             i - 1, DefaultScope, 0, 0, 0)

UpToThree(n) == IF n < MaximumNameServers THEN n ELSE MaximumNameServers

(* The first e lines are read.                                               *)
LinesRead(e) ==
    /\ Len(found.resolvers) = UpToThree(Cardinality({k \in NameServerLines : k < e + 1}))
    /\ \A i \in 1 .. Len(found.resolvers) : found.resolvers[i] = LineResolver(i)

(* scutil: a client without a server is kept with those that have one.       *)
Mute(b) == Len(BlockEndpoints(b)) = 0 /\ Configured(b)

(* The route that is kept for such a client.                                 *)
MuteRoute(b, n) == Resolver(NoEndpoint, n - 1, b, b.interface, 0, 0)

(* The first e blocks are read: none was refused.                            *)
BlocksRead(e) ==
    /\ Accounted(e)
    /\ \A n \in 1 .. e : BlockAccepted(config.entries[n])
    /\ \A i \in 1 .. Len(found.unsupported) : \E n \in 1 .. e :
          Mute(config.entries[n]) /\ found.unsupported[i] = MuteRoute(config.entries[n], n)
    /\ \A n \in 1 .. e : Mute(config.entries[n]) =>
          \E i \in 1 .. Len(found.unsupported) :
              found.unsupported[i] = MuteRoute(config.entries[n], n)

(* An adapter that was not refused.                                          *)
AdapterAccepted(a) ==
    a.up /\ Len(RealServers(a)) > 0 =>
        MetricsAgree /\ \A k \in 1 .. Len(RealServers(a)) : ServerAccepted(RealServers(a)[k], a)

(* The first e adapters are read.                                            *)
AdaptersRead(e) == Accounted(e) /\ \A n \in 1 .. e : AdapterAccepted(config.entries[n])

(* The first e entries, whatever they are.                                   *)
EntriesRead(e) ==
    /\ config.platform = "linux" => LinesRead(e)
    /\ config.platform = "darwin" => BlocksRead(e)
    /\ config.platform = "windows" => AdaptersRead(e)

(* After the last entry a list without name servers has the local one.      *)
AllRead ==
    IF config.platform = "linux" /\ NameServerLines = {}
    THEN found.resolvers = <<Resolver(LocalServer, 0, DefaultScope, 0, 0, 0)>>
    ELSE EntriesRead(Len(config.entries))

(* The result of the discovery as it is made.                                *)
FoundIs(R, U, t) == found = [resolvers |-> R, unsupported |-> U, rotate |-> t]

(* Types: what a resolver is made of follows from what was read.             *)
SystemTypeOK ==
    /\ config \in Configurations /\ questions \in Questions
    /\ entries \in 0 .. Len(config.entries)
    /\ \E S, R, U, t : FoundIs(R, U, t) /\ R \in Seq(S) /\ U \in Seq(S) /\ t \in BOOLEAN
    /\ discovery \in {"reading", "found", "unavailable"}
    /\ \E S : plan \in Seq(S)
    /\ turns \in Nat

(* What a planned name is owed, said of one element of the plan.            *)
Owed(p) ==
    /\ AsksItsOwners(p)
    /\ DialsItsInterface(p)
    /\ AdaptersAreUniform => KeepsOrder(p)

(* What was read is what there is, and what was planned is owed.             *)
SystemInv ==
    /\ SystemTypeOK
    /\ discovery = "reading" => EntriesRead(entries) /\ plan = <<>>
    /\ discovery = "found" => AllRead
    /\ \A k \in DOMAIN plan : Owed(plan[k])

-----------------------------------------------------------------------------
(* What is read from the configuration alone stays while it does.           *)
LEMMA RoutesStay ==
    ASSUME config' = config
    PROVE  /\ UpAdapters' = UpAdapters
           /\ \A f, i : InterfaceMetrics(f, i)' = InterfaceMetrics(f, i)
           /\ MetricsAgree' = MetricsAgree
           /\ \A a, i : LongestRoutes(a, i)' = LongestRoutes(a, i)
           /\ \A a, r : RouteMetric(a, r)' = RouteMetric(a, r)
           /\ \A a, i : BestRoute(a, i)' = BestRoute(a, i)
           /\ \A a, i : RouteFound(a, i)' = RouteFound(a, i)
           /\ \A s, a : ServerAccepted(s, a)' = ServerAccepted(s, a)
<1>1. UpAdapters' = UpAdapters
  BY DEF UpAdapters
<1>2. \A f, i : InterfaceMetrics(f, i)' = InterfaceMetrics(f, i)
  BY <1>1 DEF InterfaceMetrics
<1>3. MetricsAgree' = MetricsAgree
  BY <1>1 DEF MetricsAgree
<1>4. \A a, i : LongestRoutes(a, i)' = LongestRoutes(a, i)
  BY DEF LongestRoutes
<1>5. \A a, r : RouteMetric(a, r)' = RouteMetric(a, r)
  BY <1>2 DEF RouteMetric
<1>6. \A a, i : BestRoute(a, i)' = BestRoute(a, i)
  BY <1>4, <1>5 DEF BestRoute
<1>7. \A a, i : RouteFound(a, i)' = RouteFound(a, i)
  BY <1>2, <1>4, <1>6 DEF RouteFound
<1>8. \A s, a : ServerAccepted(s, a)' = ServerAccepted(s, a)
  BY <1>7 DEF ServerAccepted
<1> QED
  BY <1>1, <1>2, <1>3, <1>4, <1>5, <1>6, <1>7, <1>8

(* So does what is offered.                                                  *)
LEMMA OffersStay ==
    ASSUME config' = config
    PROVE  /\ Offered' = Offered
           /\ NameServerLines' = NameServerLines
           /\ \A i : LineResolver(i)' = LineResolver(i)
           /\ \A a : AdapterAccepted(a)' = AdapterAccepted(a)
<1>1. \A s, a, n : AdapterOffer(s, a, n)' = AdapterOffer(s, a, n)
  BY RoutesStay DEF AdapterOffer
<1>2. \A a, n : AdapterOffers(a, n)' = AdapterOffers(a, n)
  BY <1>1 DEF AdapterOffers
<1>3. Offered' = Offered
  BY <1>2 DEF Offered
<1>4. NameServerLines' = NameServerLines
  BY DEF NameServerLines
<1>5. \A i : LineResolver(i)' = LineResolver(i)
  BY <1>4 DEF LineResolver
<1>6. \A a : AdapterAccepted(a)' = AdapterAccepted(a)
  BY RoutesStay DEF AdapterAccepted
<1> QED
  BY <1>3, <1>4, <1>5, <1>6

(* And what was read of it as long as neither changes.                      *)
LEMMA ReadingStays ==
    ASSUME config' = config, found' = found
    PROVE  /\ \A e : EntriesRead(e)' = EntriesRead(e)
           /\ AllRead' = AllRead
<1>1. \A e : Accounted(e)' = Accounted(e)
  BY OffersStay DEF Accounted
<1>2. \A e : LinesRead(e)' = LinesRead(e)
  BY OffersStay DEF LinesRead
<1>3. \A e : BlocksRead(e)' = BlocksRead(e)
  BY <1>1 DEF BlocksRead
<1>4. \A e : AdaptersRead(e)' = AdaptersRead(e)
  BY <1>1, OffersStay DEF AdaptersRead
<1>5. \A e : EntriesRead(e)' = EntriesRead(e)
  BY <1>2, <1>3, <1>4 DEF EntriesRead
<1>6. AllRead' = AllRead
  BY <1>5, OffersStay DEF AllRead
<1> QED
  BY <1>5, <1>6

(* And what a planned name is owed.                                          *)
LEMMA OwedStays ==
    ASSUME config' = config, found' = found
    PROVE  \A p : Owed(p)' = Owed(p)
<1>1. \A p : Owners(p)' = Owners(p)
  BY DEF Owners
<1>2. NameServers' = NameServers
  BY DEF NameServers
<1>3. \A s, a : CheapestRoute(s, a)' = CheapestRoute(s, a)
  BY RoutesStay DEF CheapestRoute
<1>4. \A p : Offers(p)' = Offers(p)
  <2>1. \A n : BlockPlaces(n)' = BlockPlaces(n)
    BY DEF BlockPlaces
  <2>2. \A n : AdapterPlaces(n)' = AdapterPlaces(n)
    BY <1>3 DEF AdapterPlaces
  <2> QED
    BY <1>1, <2>1, <2>2 DEF Offers
<1>5. \A p, i : EndpointAt(p, i)' = EndpointAt(p, i)
  BY DEF EndpointAt
<1>6. \A a, i : RouteLeadsTo(a, i)' = RouteLeadsTo(a, i)
  BY RoutesStay DEF RouteLeadsTo
<1>7. AdaptersAreUniform' = AdaptersAreUniform
  BY DEF AdaptersAreUniform
<1>8. \A p : AsksItsOwners(p)' = AsksItsOwners(p)
  BY <1>1, <1>2, <1>4, <1>5 DEF AsksItsOwners
<1>9. \A p : DialsItsInterface(p)' = DialsItsInterface(p)
  BY <1>1, <1>5, <1>6 DEF DialsItsInterface
<1>10. \A p : KeepsOrder(p)' = KeepsOrder(p)
  <2>1. \A p, e : PlacesOf(p, e)' = PlacesOf(p, e)
    BY <1>4 DEF PlacesOf
  <2> QED
    BY <1>2, <1>5, <2>1, ZenonT(90) DEF KeepsOrder
<1> QED
  BY <1>7, <1>8, <1>9, <1>10 DEF Owed

-----------------------------------------------------------------------------
(* The configuration, and what it offers.                                    *)

(* The part of the types a step of the discovery changes.                    *)
FoundTyped ==
    \E S, R, U, t : FoundIs(R, U, t) /\ R \in Seq(S) /\ U \in Seq(S) /\ t \in BOOLEAN

(* The shapes of the entries, from the assumption on the configurations.     *)
LineShape(l) == l.directive \in {"nameserver", "options", "other"}

BlockShape(b) ==
    /\ b.scoped \in BOOLEAN /\ b.domain \in Seq(ToSet(b.domain))
    /\ b.order \in Seq(Nat) /\ Len(b.order) <= 1
    /\ DOMAIN b.servers \subseteq Nat /\ IsFiniteSet(DOMAIN b.servers)

AdapterShape(a) ==
    /\ a.metric \in [{4, 6} -> Nat] /\ a.servers \in Seq(ToSet(a.servers))
    /\ \A s \in ToSet(a.servers) : s.address.family \in {4, 6}

EntryShape(e) ==
    /\ config.platform = "linux" => LineShape(e)
    /\ config.platform = "darwin" => BlockShape(e)
    /\ config.platform = "windows" => AdapterShape(e)

(* A configuration is a list of entries and one of routes, of these shapes.  *)
LEMMA ConfigurationIsShaped ==
    ASSUME config \in Configurations
    PROVE  /\ config.platform \in {"linux", "darwin", "windows"}
           /\ Len(config.entries) \in Nat /\ DOMAIN config.entries = 1 .. Len(config.entries)
           /\ Len(config.routes) \in Nat /\ DOMAIN config.routes = 1 .. Len(config.routes)
           /\ \A r \in 1 .. Len(config.routes) : config.routes[r].metric \in Nat
           /\ \A n \in 1 .. Len(config.entries) : EntryShape(config.entries[n])
<1>1. /\ config.platform \in {"linux", "darwin", "windows"}
      /\ config.entries \in Seq(ToSet(config.entries))
      /\ config.routes \in Seq(ToSet(config.routes))
      /\ \A r \in ToSet(config.routes) : r.metric \in Nat
  BY SystemDNSAssumption
<1>2. \A e \in ToSet(config.entries) :
        /\ config.platform = "linux" => LineShape(e)
        /\ config.platform = "darwin" => BlockShape(e)
        /\ config.platform = "windows" => AdapterShape(e)
  BY SystemDNSAssumption DEF LineShape, BlockShape, AdapterShape
<1>3. /\ Len(config.entries) \in Nat /\ DOMAIN config.entries = 1 .. Len(config.entries)
      /\ Len(config.routes) \in Nat /\ DOMAIN config.routes = 1 .. Len(config.routes)
  BY <1>1
<1>4. /\ \A n \in 1 .. Len(config.entries) : config.entries[n] \in ToSet(config.entries)
      /\ \A n \in 1 .. Len(config.routes) : config.routes[n] \in ToSet(config.routes)
  BY <1>3 DEF ToSet
<1> QED
  BY <1>1, <1>2, <1>3, <1>4 DEF EntryShape

(* The endpoints of a block are a list.                                      *)
LEMMA BlockIsList ==
    ASSUME NEW b, BlockShape(b)
    PROVE  /\ Len(BlockEndpoints(b)) \in Nat /\ DOMAIN BlockEndpoints(b) = 1 .. Len(BlockEndpoints(b))
           /\ BlockEndpoints(b) = <<>> <=> Len(BlockEndpoints(b)) = 0
<1>1. Cardinality(DOMAIN b.servers) \in Nat
  BY FS_CardinalityType DEF BlockShape
<1>2. /\ DOMAIN BlockEndpoints(b) = 1 .. Cardinality(DOMAIN b.servers)
      /\ BlockEndpoints(b) = [i \in 1 .. Cardinality(DOMAIN b.servers) |-> BlockEndpoints(b)[i]]
  BY DEF BlockEndpoints
<1>3. PICK c \in Nat : c = Cardinality(DOMAIN b.servers)
  BY <1>1
<1>4. Len(BlockEndpoints(b)) = c /\ DOMAIN BlockEndpoints(b) = 1 .. c
  BY <1>2, <1>3
<1>5. CASE c = 0
  <2>1. 1 .. c = {}
    BY <1>5
  <2>2. BlockEndpoints(b) = <<>>
    BY <1>2, <1>3, <2>1
  <2> QED
    BY <1>4, <1>5, <2>2
<1>6. CASE c # 0
  <2>1. 1 \in 1 .. c
    BY <1>6
  <2>2. BlockEndpoints(b) # <<>>
    BY <1>4, <2>1
  <2> QED
    BY <1>4, <1>6, <2>2
<1> QED
  BY <1>5, <1>6

(* The servers of an adapter are a list.                                     *)
LEMMA AdapterIsList ==
    ASSUME NEW a, AdapterShape(a)
    PROVE  /\ Len(RealServers(a)) \in Nat /\ DOMAIN RealServers(a) = 1 .. Len(RealServers(a))
           /\ RealServers(a) = <<>> <=> Len(RealServers(a)) = 0
           /\ \A k \in 1 .. Len(RealServers(a)) : RealServers(a)[k].address.family \in {4, 6}
<1> DEFINE K == {k \in DOMAIN a.servers : a.servers[k].address.class # "sitelocal"}
<1>1. Len(a.servers) \in Nat /\ DOMAIN a.servers = 1 .. Len(a.servers)
  BY DEF AdapterShape
<1>2. K \in SUBSET Nat /\ IsFiniteSet(K)
  <2>1. K \in SUBSET (1 .. Len(a.servers)) /\ IsFiniteSet(1 .. Len(a.servers))
    BY <1>1, FS_Interval
  <2>2. IsFiniteSet(K)
    <3> HIDE DEF K
    <3> QED
      BY <2>1, FS_Subset
  <2>3. 1 .. Len(a.servers) \subseteq Nat
    BY <1>1
  <2> HIDE DEF K
  <2> QED
    BY <2>1, <2>2, <2>3
<1>3. \A k \in K : a.servers[k].address.family \in {4, 6}
  BY <1>1 DEF AdapterShape, ToSet
<1>4. RealServers(a) = Only(a.servers, K)
  BY DEF RealServers
<1> HIDE DEF K
<1>5. PICK at : Picks(at, K, a.servers, RealServers(a))
  BY <1>2, <1>4, OnlyPicks
<1>6. /\ Len(RealServers(a)) \in Nat /\ DOMAIN RealServers(a) = 1 .. Len(RealServers(a))
      /\ \A k \in 1 .. Len(RealServers(a)) : RealServers(a)[k].address.family \in {4, 6}
  BY <1>3, <1>5 DEF Picks
<1>7. RealServers(a) = <<>> <=> Len(RealServers(a)) = 0
  <2>1. RealServers(a) = [i \in 1 .. Cardinality(K) |-> RealServers(a)[i]]
    BY <1>4 DEF Only
  <2>2. CASE Len(RealServers(a)) = 0
    <3>1. Cardinality(K) = 0
      BY <1>2, <1>4, <2>2, OnlyPicks
    <3>2. 1 .. Cardinality(K) = {}
      BY <3>1
    <3>3. RealServers(a) = <<>>
      BY <2>1, <3>2
    <3> QED
      BY <2>2, <3>3
  <2>3. CASE Len(RealServers(a)) # 0
    <3>1. 1 \in DOMAIN RealServers(a)
      BY <1>6, <2>3
    <3>2. RealServers(a) # <<>>
      BY <3>1
    <3> QED
      BY <2>3, <3>2
  <2> QED
    BY <2>2, <2>3
<1> QED
  BY <1>6, <1>7

\* The lists of what is offered, by their lengths.
LEMMA OfferedAre ==
    ASSUME config \in Configurations, NEW n \in 1 .. Len(config.entries)
    PROVE  /\ Len(Offered[n]) \in Nat /\ DOMAIN Offered[n] = 1 .. Len(Offered[n])
           /\ config.platform = "darwin" => Offered[n] = BlockOffers(config.entries[n], n)
           /\ config.platform = "windows" =>
                 Offered[n] = IF config.entries[n].up THEN AdapterOffers(config.entries[n], n)
                              ELSE <<>>
<1>1. EntryShape(config.entries[n])
  BY ConfigurationIsShaped
<1>2. CASE config.platform = "darwin"
  <2>1. Offered[n] = BlockOffers(config.entries[n], n)
    BY <1>2 DEF Offered
  <2>2. Len(BlockEndpoints(config.entries[n])) \in Nat
    BY <1>1, <1>2, BlockIsList DEF EntryShape
  <2> QED
    BY <1>2, <2>1, <2>2 DEF BlockOffers
<1>3. CASE config.platform = "windows" /\ config.entries[n].up
  <2>1. Offered[n] = AdapterOffers(config.entries[n], n)
    BY <1>3 DEF Offered
  <2>2. Len(RealServers(config.entries[n])) \in Nat
    BY <1>1, <1>3, AdapterIsList DEF EntryShape
  <2> QED
    BY <1>3, <2>1, <2>2 DEF AdapterOffers
<1>4. CASE config.platform # "darwin" /\ ~(config.platform = "windows" /\ config.entries[n].up)
  <2>1. Offered[n] = <<>>
    BY <1>4 DEF Offered
  <2> QED
    BY <1>4, <2>1
<1> QED
  BY <1>2, <1>3, <1>4

-----------------------------------------------------------------------------
(* The steps of the discovery.                                               *)

(* A line of resolv.conf.                                                    *)
LEMMA LineStep ==
    ASSUME SystemTypeOK, NEW e \in Nat, e = entries, LinesRead(e), ReadLine
    PROVE  /\ FoundTyped' /\ discovery' \in {"reading", "unavailable"}
           /\ discovery' = "reading" => LinesRead(e + 1)'
<1> DEFINE NSL == NameServerLines
           Below(n) == {k \in NSL : k < n}
           C == Cardinality(Below(e + 1))
<1>1. /\ discovery = "reading" /\ config.platform = "linux" /\ entries < Len(config.entries)
      /\ config' = config
  BY DEF ReadLine, NextEntry
<1>2. /\ Len(config.entries) \in Nat /\ DOMAIN config.entries = 1 .. Len(config.entries)
      /\ e + 1 \in 1 .. Len(config.entries) /\ LineShape(config.entries[e + 1])
  <2>1. config \in Configurations
    BY DEF SystemTypeOK
  <2>2. /\ Len(config.entries) \in Nat /\ DOMAIN config.entries = 1 .. Len(config.entries)
        /\ e + 1 \in 1 .. Len(config.entries)
    BY <1>1, <2>1, ConfigurationIsShaped
  <2> QED
    BY <1>1, <2>1, <2>2, ConfigurationIsShaped DEF EntryShape
<1>3. PICK S, R, U, t : FoundIs(R, U, t) /\ R \in Seq(S) /\ U \in Seq(S) /\ t \in BOOLEAN
  BY DEF SystemTypeOK
<1>4. /\ found = [resolvers |-> R, unsupported |-> U, rotate |-> t]
      /\ found.resolvers = R /\ Len(R) \in Nat
  BY <1>3 DEF FoundIs
<1>5. FoundTyped
  BY <1>3 DEF FoundTyped
<1>6. NSL \in SUBSET Nat /\ IsFiniteSet(NSL) /\ \A n : IsFiniteSet(Below(n))
  <2>1. NSL \in SUBSET (1 .. Len(config.entries)) /\ IsFiniteSet(1 .. Len(config.entries))
    BY <1>2, FS_Interval DEF NameServerLines
  <2>2. 1 .. Len(config.entries) \subseteq Nat
    BY <1>2
  <2>4. IsFiniteSet(NSL)
    BY <2>1, FS_Subset
  <2>3. \A n : Below(n) \in SUBSET NSL
    OBVIOUS
  <2> HIDE DEF NSL, Below
  <2> QED
    BY <2>1, <2>2, <2>3, <2>4, FS_Subset
<1>7. C \in Nat
  <2> HIDE DEF Below
  <2> QED
    BY <1>6, FS_CardinalityType
<1>8. Len(R) = UpToThree(C) /\ \A i \in 1 .. Len(R) : R[i] = LineResolver(i)
  BY <1>4 DEF LinesRead
<1>9. NSL' = NSL /\ \A i : LineResolver(i)' = LineResolver(i)
  BY <1>1, OffersStay
\* A line that is no name server changes no resolver.
<1>10. \A k \in NSL : k < e + 1 + 1 <=> k < e + 1 \/ k = e + 1
  <2>1. \A k \in Nat : k < e + 1 + 1 <=> k < e + 1 \/ k = e + 1
    OBVIOUS
  <2> HIDE DEF NSL
  <2> QED
    BY <1>6, <2>1
<1>11. ASSUME e + 1 \notin NSL
       PROVE  Cardinality({k \in NSL : k < e + 1 + 1}) = C
  <2>1. {k \in NSL : k < e + 1 + 1} = Below(e + 1)
    BY <1>10, <1>11
  <2> QED
    BY <2>1
<1>12. ASSUME e + 1 \in NSL
       PROVE  /\ Cardinality({k \in NSL : k < e + 1 + 1}) = C + 1
              /\ Nth(NSL, C + 1) = e + 1
  <2>1. {k \in NSL : k < e + 1 + 1} = Below(e + 1) \cup {e + 1}
    BY <1>10, <1>12
  <2>2. e + 1 \notin Below(e + 1)
    OBVIOUS
  <2>3. Cardinality(Below(e + 1) \cup {e + 1}) = C + 1
    <3> HIDE DEF Below
    <3> QED
      BY <1>6, <2>2, FS_AddElement
  <2>4. PICK n \in 1 .. Cardinality(NSL) : Nth(NSL, n) = e + 1 /\ n = C + 1
    <3> HIDE DEF NSL
    <3> QED
      BY <1>6, <1>12, NthCounts
  <2> QED
    BY <2>1, <2>3, <2>4
<1>13. Entry = config.entries[e + 1]
  BY DEF Entry
<1> DEFINE Kept2 == \E t2 \in BOOLEAN : found' = [resolvers |-> R, unsupported |-> U, rotate |-> t2]
<1>14. ASSUME Kept2, e + 1 \notin NSL \/ ~(Len(R) < 3)
       PROVE  FoundTyped' /\ LinesRead(e + 1)'
  <2>1. PICK t2 \in BOOLEAN : found' = [resolvers |-> R, unsupported |-> U, rotate |-> t2]
    BY <1>14
  <2>2. FoundTyped'
    BY <1>3, <2>1 DEF FoundTyped, FoundIs
  <2>3. found'.resolvers = R
    BY <2>1
  <2>4. Len(R) = UpToThree(Cardinality({k \in NSL : k < e + 1 + 1}))
    <3>1. CASE e + 1 \notin NSL
      <4> HIDE DEF NSL, Below
      <4> QED
        BY <1>8, <1>11, <3>1
    <3>2. CASE e + 1 \in NSL
      <4>1. ~(Len(R) < 3)
        BY <1>14, <3>2
      <4>2. Cardinality({k \in NSL : k < e + 1 + 1}) = C + 1
        BY <1>12, <3>2
      <4> HIDE DEF NSL, Below, C
      <4> QED
        BY <1>7, <1>8, <4>1, <4>2 DEF UpToThree, MaximumNameServers
    <3> QED
      BY <3>1, <3>2
  <2>5. LinesRead(e + 1)'
    <3> HIDE DEF Below, C
    <3> QED
      BY <1>8, <1>9, <2>3, <2>4 DEF LinesRead
  <2> QED
    BY <2>2, <2>5
<1>15. ASSUME Entry.directive = "nameserver", ReadNameServer
       PROVE  /\ FoundTyped' /\ discovery' \in {"reading", "unavailable"}
              /\ discovery' = "reading" => LinesRead(e + 1)'
  <2>1. e + 1 \in NSL
    BY <1>2, <1>13, <1>15 DEF NameServerLines
  <2>2. CASE Len(R) >= 3
    <3>1. found' = found /\ discovery' = discovery
      BY <1>4, <1>15, <2>2 DEF ReadNameServer, Skip, MaximumNameServers
    <3>2. Kept2
      BY <1>3, <1>4, <3>1
    <3>3. ~(Len(R) < 3)
      BY <1>4, <2>2
    <3> QED
      BY <1>1, <1>14, <3>1, <3>2, <3>3
  <2>3. CASE ~(Len(R) >= 3)
    <3> DEFINE server == ParsedEndpoint(Entry.server, "", 53)
               r == Resolver(server, Len(R), DefaultScope, 0, 0, 0)
    <3>1. \/ found' = [found EXCEPT !.resolvers = Append(R, r)] /\ discovery' = discovery
          \/ found' = found /\ discovery' = "unavailable"
      BY <1>4, <1>15, <2>3 DEF ReadNameServer, Refuse, MaximumNameServers
    <3>2. CASE found' = found /\ discovery' = "unavailable"
      <4>1. FoundTyped'
        BY <1>5, <3>2 DEF FoundTyped, FoundIs
      <4> QED
        BY <3>2, <4>1
    <3>3. CASE found' = [found EXCEPT !.resolvers = Append(R, r)] /\ discovery' = discovery
      <4>1. found' = [resolvers |-> Append(R, r), unsupported |-> U, rotate |-> t]
        BY <1>4, <3>3
      <4> HIDE DEF r
      <4>2. r \in S \cup {r} /\ R \in Seq(S \cup {r}) /\ U \in Seq(S \cup {r})
        <5>1. S \subseteq S \cup {r} /\ r \in S \cup {r}
          OBVIOUS
        <5> QED
          BY <1>3, <5>1, SeqMonotonic
      <4>3. /\ Append(R, r) \in Seq(S \cup {r}) /\ Len(Append(R, r)) = Len(R) + 1
            /\ \A i \in 1 .. Len(R) : Append(R, r)[i] = R[i]
            /\ Append(R, r)[Len(R) + 1] = r
        BY <4>2
      <4>4. FoundTyped'
        BY <1>3, <4>1, <4>2, <4>3 DEF FoundTyped, FoundIs
      <4>5. Len(R) = C /\ UpToThree(C + 1) = C + 1
        <5> HIDE DEF C
        <5> QED
          BY <1>4, <1>7, <1>8, <2>3 DEF UpToThree, MaximumNameServers
      <4>6. LineResolver(C + 1) = r
        <5>1. Nth(NSL, C + 1) = e + 1 /\ C + 1 - 1 = Len(R)
          <6>1. Nth(NSL, C + 1) = e + 1
            BY <1>12, <2>1
          <6> HIDE DEF C
          <6> QED
            BY <1>7, <4>5, <6>1
        <5> HIDE DEF C
        <5>2. PICK m \in Nat : m = C + 1
          BY <1>7
        <5>3. LineResolver(m)
                = Resolver(ParsedEndpoint(config.entries[Nth(NSL, m)].server, "", 53),
                           m - 1, DefaultScope, 0, 0, 0)
          BY DEF LineResolver
        <5>4. config.entries[Nth(NSL, m)] = Entry /\ m - 1 = Len(R)
          <6> HIDE DEF NSL
          <6>1. Nth(NSL, m) = e + 1
            BY <5>1, <5>2
          <6>2. m - 1 = Len(R)
            BY <1>7, <5>1, <5>2
          <6> QED
            BY <1>13, <6>1, <6>2
        <5>5. LineResolver(m) = r
          <6> HIDE DEF NSL
          <6> QED
            BY <5>3, <5>4 DEF r
        <5> QED
          BY <5>2, <5>5
      <4>7. Len(Append(R, r)) = UpToThree(Cardinality({k \in NSL : k < e + 1 + 1}))
        <5>1. Cardinality({k \in NSL : k < e + 1 + 1}) = C + 1
          BY <1>12, <2>1
        <5> HIDE DEF C, NSL
        <5> QED
          BY <4>3, <4>5, <5>1
      <4>8. \A i \in 1 .. Len(R) + 1 : Append(R, r)[i] = LineResolver(i)
        <5>1. \A i \in 1 .. Len(R) + 1 : i \in 1 .. Len(R) \/ i = Len(R) + 1
          BY <1>4
        <5> HIDE DEF C
        <5> QED
          BY <1>8, <4>3, <4>5, <4>6, <5>1
      <4>9. LinesRead(e + 1)'
        <5>1. found'.resolvers = Append(R, r)
          BY <4>1
        <5> HIDE DEF C, Below
        <5> QED
          BY <1>9, <4>3, <4>7, <4>8, <5>1 DEF LinesRead
      <4> QED
        BY <1>1, <3>3, <4>4, <4>9
    <3> QED
      BY <3>1, <3>2, <3>3
  <2> QED
    BY <2>2, <2>3
<1>16. ASSUME Entry.directive # "nameserver", ReadOptions \/ Skip \/ Refuse
       PROVE  /\ FoundTyped' /\ discovery' \in {"reading", "unavailable"}
              /\ discovery' = "reading" => LinesRead(e + 1)'
  <2>1. e + 1 \notin NSL
    BY <1>2, <1>13, <1>16 DEF NameServerLines
  <2>2. \/ found' = [found EXCEPT !.rotate = @ \/ Entry.rotate] /\ discovery' = discovery
        \/ found' = found /\ discovery' \in {discovery, "unavailable"}
    BY <1>16 DEF ReadOptions, Skip, Refuse
  <2>3. Kept2
    <3>1. CASE found' = [found EXCEPT !.rotate = @ \/ Entry.rotate]
      <4>1. found' = [resolvers |-> R, unsupported |-> U, rotate |-> (t \/ Entry.rotate)]
        BY <1>4, <3>1
      <4>2. (t \/ Entry.rotate) \in BOOLEAN
        OBVIOUS
      <4> QED
        BY <4>1, <4>2
    <3>2. CASE found' = found
      BY <1>3, <1>4, <3>2
    <3> QED
      BY <2>2, <3>1, <3>2
  <2> QED
    BY <1>1, <1>14, <2>1, <2>2, <2>3
<1>17. \/ Entry.directive = "nameserver" /\ ReadNameServer
       \/ Entry.directive # "nameserver" /\ (ReadOptions \/ Skip \/ Refuse)
  <2>1. Entry.directive \in {"nameserver", "options", "other"}
    BY <1>2, <1>13 DEF LineShape
  <2> QED
    BY <2>1 DEF ReadLine
<1> QED
  BY <1>15, <1>16, <1>17

(* The servers of one entry are added.                                       *)
LEMMA AddStep ==
    ASSUME SystemTypeOK, config' = config, NEW e \in Nat, e + 1 \in 1 .. Len(config.entries),
           Accounted(e), NEW l, l = Offered[e + 1], AddResolvers(l)
    PROVE  /\ FoundTyped' /\ discovery' \in {discovery, "unavailable"}
           /\ found'.unsupported = found.unsupported
           /\ discovery' # "unavailable" => Accounted(e + 1)'
<1>1. PICK S, R, U, t : FoundIs(R, U, t) /\ R \in Seq(S) /\ U \in Seq(S) /\ t \in BOOLEAN
  BY DEF SystemTypeOK
<1>2. found = [resolvers |-> R, unsupported |-> U, rotate |-> t] /\ found.resolvers = R
  BY <1>1 DEF FoundIs
<1>3. \/ found' = [found EXCEPT !.resolvers = Added(R, l)] /\ discovery' = discovery
      \/ found' = found /\ discovery' = "unavailable"
  BY <1>2 DEF AddResolvers, Added, Refuse
<1>4. CASE found' = found /\ discovery' = "unavailable"
  <2>1. FoundTyped'
    BY <1>1, <1>4 DEF FoundTyped, FoundIs
  <2> QED
    BY <1>4, <2>1
<1>5. CASE found' = [found EXCEPT !.resolvers = Added(R, l)] /\ discovery' = discovery
  <2>1. found' = [resolvers |-> Added(R, l), unsupported |-> U, rotate |-> t]
    BY <1>2, <1>5
  <2>2. config \in Configurations
    BY DEF SystemTypeOK
  <2>3. PICK c \in Nat : c = Len(l) /\ DOMAIN l = 1 .. c
    BY <2>2, OfferedAre
  <2>4. PICK T : Added(R, l) \in Seq(T)
    BY <1>1, <2>3, AddedIs
  <2>5. Added(R, l) \in Seq(S \cup T) /\ U \in Seq(S \cup T)
    <3>1. S \subseteq S \cup T /\ T \subseteq S \cup T
      OBVIOUS
    <3> QED
      BY <1>1, <2>4, <3>1, SeqMonotonic
  <2>6. FoundTyped'
    BY <1>1, <2>1, <2>5 DEF FoundTyped, FoundIs
  <2>7. PICK en, pl : Tells(en, pl, R, Offered, e)
    BY <1>2 DEF Accounted
  <2>8. PICK en2, pl2 : Tells(en2, pl2, Added(R, l), Offered, e + 1)
    BY <1>1, <2>3, <2>7, TellsNext
  <2>9. Accounted(e + 1)'
    <3>1. found'.resolvers = Added(R, l) /\ Offered' = Offered
      BY <2>1, OffersStay
    <3> QED
      BY <2>8, <3>1 DEF Accounted
  <2>10. found'.unsupported = found.unsupported
    BY <1>2, <2>1
  <2> QED
    BY <1>5, <2>6, <2>9, <2>10
<1> QED
  BY <1>3, <1>4, <1>5

\* An entry without a server adds none.
LEMMA NothingAdded ==
    ASSUME config \in Configurations, config' = config, found'.resolvers = found.resolvers,
           NEW e \in Nat, e + 1 \in 1 .. Len(config.entries), Accounted(e),
           Len(Offered[e + 1]) = 0
    PROVE  Accounted(e + 1)'
<1>1. PICK en, pl : Tells(en, pl, found.resolvers, Offered, e)
  BY DEF Accounted
<1>2. Tells(en, pl, found.resolvers, Offered, e + 1)
  BY <1>1, TellsTheSame
<1>3. Offered' = Offered
  BY OffersStay
<1> QED
  BY <1>2, <1>3 DEF Accounted

(* A client of scutil.                                                       *)
LEMMA BlockStep ==
    ASSUME SystemTypeOK, NEW e \in Nat, e = entries, BlocksRead(e), ReadBlock
    PROVE  /\ FoundTyped' /\ discovery' \in {"reading", "unavailable"}
           /\ discovery' = "reading" => BlocksRead(e + 1)'
<1>1. /\ discovery = "reading" /\ config.platform = "darwin" /\ config' = config
      /\ Entry = config.entries[e + 1] /\ config \in Configurations
  BY DEF ReadBlock, NextEntry, Entry, SystemTypeOK
<1>2. Len(config.entries) \in Nat /\ e + 1 \in 1 .. Len(config.entries)
  BY <1>1, ConfigurationIsShaped DEF ReadBlock, NextEntry
<1> DEFINE b == config.entries[e + 1]
           servers == BlockEndpoints(b)
<1>3. BlockShape(b)
  BY <1>1, <1>2, ConfigurationIsShaped DEF EntryShape
<1> HIDE DEF b
<1>4. Len(servers) \in Nat /\ DOMAIN servers = 1 .. Len(servers) /\ (servers = <<>> <=> Len(servers) = 0)
  BY <1>3, BlockIsList
<1> HIDE DEF servers
<1>5. PICK S, R, U, t : FoundIs(R, U, t) /\ R \in Seq(S) /\ U \in Seq(S) /\ t \in BOOLEAN
  BY DEF SystemTypeOK
<1>6. found = [resolvers |-> R, unsupported |-> U, rotate |-> t]
      /\ found.resolvers = R /\ found.unsupported = U
  BY <1>5 DEF FoundIs
<1>7. FoundTyped
  BY <1>5 DEF FoundTyped
<1>8. Offered[e + 1] = BlockOffers(b, e + 1)
  BY <1>1, <1>2, OfferedAre DEF b
<1>9. BlockOffers(b, e + 1) = [i \in DOMAIN servers |-> Resolver(servers[i], e, b, b.interface, 0, 0)]
  <2>1. PICK n \in Nat : n = e + 1 /\ n - 1 = e
    OBVIOUS
  <2>2. BlockOffers(b, n) = [k \in 1 .. Len(servers) |-> Resolver(servers[k], n - 1, b, b.interface, 0, 0)]
    BY DEF BlockOffers, servers
  <2> QED
    BY <1>4, <2>1, <2>2
<1>10. Len(BlockOffers(b, e + 1)) = Len(servers)
  BY <1>4, <1>9
<1>11. \/ found' = found /\ discovery' = "unavailable"
       \/ /\ BlockAccepted(b) /\ servers # <<>>
          /\ AddResolvers([i \in DOMAIN servers |-> Resolver(servers[i], e, b, b.interface, 0, 0)])
       \/ /\ BlockAccepted(b) /\ servers = <<>> /\ Configured(b) /\ discovery' = discovery
          /\ found' = [found EXCEPT !.unsupported = Append(@, MuteRoute(b, e + 1))]
       \/ /\ BlockAccepted(b) /\ servers = <<>> /\ ~Configured(b)
          /\ found' = found /\ discovery' = discovery
  <2>1. PICK n \in Nat : n = e + 1 /\ n - 1 = e
    OBVIOUS
  <2>2. MuteRoute(b, n) = Resolver(NoEndpoint, e, b, b.interface, 0, 0)
    BY <2>1 DEF MuteRoute
  <2>3. Entry = b
    BY <1>1 DEF b
  <2> QED
    BY <2>1, <2>2, <2>3 DEF ReadBlock, Refuse, Skip, servers
<1>12. \A n \in 1 .. e + 1 : n \in 1 .. e \/ n = e + 1
  OBVIOUS
<1>13. /\ \A n \in 1 .. e : BlockAccepted(config.entries[n])
       /\ \A i \in 1 .. Len(U) : \E n \in 1 .. e :
             Mute(config.entries[n]) /\ U[i] = MuteRoute(config.entries[n], n)
       /\ \A n \in 1 .. e : Mute(config.entries[n]) =>
             \E i \in 1 .. Len(U) : U[i] = MuteRoute(config.entries[n], n)
       /\ Accounted(e)
  BY <1>6 DEF BlocksRead
<1>14. \A n \in 1 .. e : n \in 1 .. e + 1
  OBVIOUS
<1>15. ASSUME BlockAccepted(b), Accounted(e + 1)', found'.unsupported = U, ~Mute(b)
       PROVE  BlocksRead(e + 1)'
  <2>1. \A n \in 1 .. e + 1 : BlockAccepted(config.entries[n])
    BY <1>12, <1>13, <1>15 DEF b
  <2>2. \A n \in 1 .. e + 1 : Mute(config.entries[n]) => n \in 1 .. e
    BY <1>12, <1>15 DEF b
  <2> QED
    BY <1>1, <1>13, <1>14, <1>15, <2>1, <2>2 DEF BlocksRead
<1>16. CASE found' = found /\ discovery' = "unavailable"
  <2>1. FoundTyped'
    BY <1>5, <1>16 DEF FoundTyped, FoundIs
  <2> QED
    BY <1>16, <2>1
<1>17. CASE /\ BlockAccepted(b) /\ servers # <<>>
            /\ AddResolvers([i \in DOMAIN servers |-> Resolver(servers[i], e, b, b.interface, 0, 0)])
  <2>1. PICK l : l = Offered[e + 1] /\ AddResolvers(l)
    BY <1>8, <1>9, <1>17
  <2>2. /\ FoundTyped' /\ discovery' \in {discovery, "unavailable"}
        /\ found'.unsupported = found.unsupported
        /\ discovery' # "unavailable" => Accounted(e + 1)'
    BY <1>1, <1>2, <1>13, <2>1, AddStep
  <2>3. ~Mute(b)
    BY <1>4, <1>17 DEF Mute, servers
  <2> QED
    BY <1>1, <1>6, <1>15, <1>17, <2>2, <2>3
<1>18. CASE /\ BlockAccepted(b) /\ servers = <<>> /\ Configured(b) /\ discovery' = discovery
            /\ found' = [found EXCEPT !.unsupported = Append(@, MuteRoute(b, e + 1))]
  <2> DEFINE u == MuteRoute(b, e + 1)
  <2>1. found' = [resolvers |-> R, unsupported |-> Append(U, u), rotate |-> t]
    BY <1>6, <1>18
  <2> HIDE DEF u
  <2>2. R \in Seq(S \cup {u}) /\ U \in Seq(S \cup {u}) /\ u \in S \cup {u}
    <3>1. S \subseteq S \cup {u} /\ u \in S \cup {u}
      OBVIOUS
    <3> QED
      BY <1>5, <3>1, SeqMonotonic
  <2>3. /\ Append(U, u) \in Seq(S \cup {u}) /\ Len(Append(U, u)) = Len(U) + 1 /\ Len(U) \in Nat
        /\ \A i \in 1 .. Len(U) : Append(U, u)[i] = U[i]
        /\ Append(U, u)[Len(U) + 1] = u
    BY <2>2
  <2>4. FoundTyped'
    BY <1>5, <2>1, <2>2, <2>3 DEF FoundTyped, FoundIs
  <2>5. found'.resolvers = found.resolvers /\ found'.unsupported = Append(U, u)
    BY <1>6, <2>1
  <2>6. Accounted(e + 1)'
    <3>1. Len(Offered[e + 1]) = 0
      BY <1>4, <1>8, <1>10, <1>18
    <3> QED
      BY <1>1, <1>2, <1>13, <2>5, <3>1, NothingAdded
  <2>7. Mute(b)
    BY <1>4, <1>18 DEF Mute, servers
  <2>8. \A n \in 1 .. e + 1 : BlockAccepted(config.entries[n])
    BY <1>12, <1>13, <1>18 DEF b
  <2>9. ASSUME NEW i \in 1 .. Len(Append(U, u))
        PROVE  \E n \in 1 .. e + 1 :
                  Mute(config.entries[n]) /\ Append(U, u)[i] = MuteRoute(config.entries[n], n)
    <3>1. CASE i = Len(U) + 1
      <4>1. /\ e + 1 \in 1 .. e + 1 /\ Mute(config.entries[e + 1])
            /\ Append(U, u)[i] = MuteRoute(config.entries[e + 1], e + 1)
        BY <2>3, <2>7, <3>1 DEF b, u
      <4> QED
        BY <4>1
    <3>2. CASE i # Len(U) + 1
      <4>1. i \in 1 .. Len(U)
        BY <2>3, <3>2
      <4> QED
        BY <1>13, <1>14, <2>3, <4>1
    <3> QED
      BY <3>1, <3>2
  <2>10. ASSUME NEW n \in 1 .. e + 1, Mute(config.entries[n])
         PROVE  \E i \in 1 .. Len(Append(U, u)) : Append(U, u)[i] = MuteRoute(config.entries[n], n)
    <3>1. CASE n = e + 1
      <4>1. Len(U) + 1 \in 1 .. Len(Append(U, u)) /\ Append(U, u)[Len(U) + 1] = MuteRoute(config.entries[n], n)
        BY <2>3, <3>1 DEF b, u
      <4> QED
        BY <4>1
    <3>2. CASE n # e + 1
      <4>1. n \in 1 .. e
        BY <1>12, <3>2
      <4>2. PICK i \in 1 .. Len(U) : U[i] = MuteRoute(config.entries[n], n)
        BY <1>13, <2>10, <4>1
      <4>3. i \in 1 .. Len(Append(U, u)) /\ Append(U, u)[i] = U[i]
        BY <2>3
      <4> QED
        BY <4>2, <4>3
    <3> QED
      BY <3>1, <3>2
  <2>11. BlocksRead(e + 1)'
    <3>1. PICK V : V = Append(U, u)
      OBVIOUS
    <3>2. /\ \A i \in 1 .. Len(V) : \E n \in 1 .. e + 1 :
                Mute(config.entries[n]) /\ V[i] = MuteRoute(config.entries[n], n)
          /\ \A n \in 1 .. e + 1 : Mute(config.entries[n]) =>
                \E i \in 1 .. Len(V) : V[i] = MuteRoute(config.entries[n], n)
      BY <2>9, <2>10, <3>1
    <3>3. found'.unsupported = V
      BY <2>5, <3>1
    <3> HIDE <3>1
    <3> QED
      BY <1>1, <2>6, <2>8, <3>2, <3>3 DEF BlocksRead
  <2> QED
    BY <1>1, <1>18, <2>4, <2>11
<1>19. CASE /\ BlockAccepted(b) /\ servers = <<>> /\ ~Configured(b)
            /\ found' = found /\ discovery' = discovery
  <2>1. FoundTyped'
    BY <1>5, <1>19 DEF FoundTyped, FoundIs
  <2>2. Len(Offered[e + 1]) = 0 /\ found'.resolvers = found.resolvers
    BY <1>4, <1>8, <1>10, <1>19
  <2>3. Accounted(e + 1)'
    BY <1>1, <1>2, <1>13, <2>2, NothingAdded
  <2>4. ~Mute(b) /\ found'.unsupported = U
    BY <1>6, <1>19 DEF Mute
  <2>5. BlocksRead(e + 1)'
    BY <1>15, <1>19, <2>3, <2>4
  <2> QED
    BY <1>1, <1>19, <2>1, <2>5
<1> QED
  BY <1>11, <1>16, <1>17, <1>18, <1>19

(* A Windows adapter.                                                        *)
LEMMA AdapterStep ==
    ASSUME SystemTypeOK, NEW e \in Nat, e = entries, AdaptersRead(e), ReadAdapter
    PROVE  /\ FoundTyped' /\ discovery' \in {"reading", "unavailable"}
           /\ discovery' = "reading" => AdaptersRead(e + 1)'
<1>1. /\ discovery = "reading" /\ config.platform = "windows" /\ config' = config
      /\ Entry = config.entries[e + 1] /\ config \in Configurations
  BY DEF ReadAdapter, NextEntry, Entry, SystemTypeOK
<1>2. Len(config.entries) \in Nat /\ e + 1 \in 1 .. Len(config.entries)
  BY <1>1, ConfigurationIsShaped DEF ReadAdapter, NextEntry
<1> DEFINE a == config.entries[e + 1]
           servers == RealServers(a)
<1>3. AdapterShape(a)
  BY <1>1, <1>2, ConfigurationIsShaped DEF EntryShape
<1> HIDE DEF a
<1>4. Len(servers) \in Nat /\ DOMAIN servers = 1 .. Len(servers) /\ (servers = <<>> <=> Len(servers) = 0)
  BY <1>3, AdapterIsList
<1> HIDE DEF servers
<1>5. PICK S, R, U, t : FoundIs(R, U, t) /\ R \in Seq(S) /\ U \in Seq(S) /\ t \in BOOLEAN
  BY DEF SystemTypeOK
<1>6. Offered[e + 1] = IF a.up THEN AdapterOffers(a, e + 1) ELSE <<>>
  BY <1>1, <1>2, OfferedAre DEF a
<1> DEFINE l == [i \in DOMAIN servers |-> AdapterResolver(servers[i], a)]
<1>7. l = AdapterOffers(a, e + 1)
  <2>1. PICK n \in Nat : n = e + 1 /\ n - 1 = e
    OBVIOUS
  <2>2. \A s : AdapterOffer(s, a, n) = AdapterResolver(s, a)
    BY <2>1 DEF AdapterOffer, AdapterResolver
  <2>3. AdapterOffers(a, n) = [k \in 1 .. Len(servers) |-> AdapterResolver(servers[k], a)]
    BY <2>2 DEF AdapterOffers, servers
  <2> QED
    BY <1>4, <2>1, <2>3
<1>8. Len(AdapterOffers(a, e + 1)) = Len(servers)
  BY <1>4, <1>7
<1>9. \/ found' = found /\ discovery' = "unavailable"
      \/ (~a.up \/ servers = <<>>) /\ found' = found /\ discovery' = discovery
      \/ /\ a.up /\ MetricsAgree /\ \A i \in DOMAIN servers : ServerAccepted(servers[i], a)
         /\ AddResolvers(l)
  <2>1. Entry = a
    BY <1>1 DEF a
  <2> QED
    BY <2>1 DEF ReadAdapter, Refuse, Skip, servers
<1>10. \A n \in 1 .. e + 1 : n \in 1 .. e \/ n = e + 1
  OBVIOUS
<1>11. Accounted(e) /\ \A n \in 1 .. e : AdapterAccepted(config.entries[n])
  BY DEF AdaptersRead
<1>12. ASSUME Accounted(e + 1)', AdapterAccepted(a)
       PROVE  AdaptersRead(e + 1)'
  <2>1. \A n \in 1 .. e + 1 : AdapterAccepted(config.entries[n])
    BY <1>10, <1>11, <1>12 DEF a
  <2>2. \A x : AdapterAccepted(x)' = AdapterAccepted(x)
    BY <1>1, OffersStay
  <2> QED
    BY <1>1, <1>12, <2>1, <2>2 DEF AdaptersRead
<1>13. CASE found' = found /\ discovery' = "unavailable"
  <2>1. FoundTyped'
    BY <1>5, <1>13 DEF FoundTyped, FoundIs
  <2> QED
    BY <1>13, <2>1
<1>14. CASE (~a.up \/ servers = <<>>) /\ found' = found /\ discovery' = discovery
  <2>1. FoundTyped'
    BY <1>5, <1>14 DEF FoundTyped, FoundIs
  <2>2. Len(Offered[e + 1]) = 0 /\ found'.resolvers = found.resolvers
    BY <1>4, <1>6, <1>8, <1>14
  <2>3. Accounted(e + 1)'
    BY <1>1, <1>2, <1>11, <2>2, NothingAdded
  <2>4. AdapterAccepted(a)
    BY <1>4, <1>14 DEF AdapterAccepted, servers
  <2> QED
    BY <1>1, <1>12, <1>14, <2>1, <2>3, <2>4
<1>15. CASE /\ a.up /\ MetricsAgree /\ \A i \in DOMAIN servers : ServerAccepted(servers[i], a)
            /\ AddResolvers(l)
  <2>1. PICK m : m = Offered[e + 1] /\ AddResolvers(m)
    BY <1>6, <1>7, <1>15
  <2>2. /\ FoundTyped' /\ discovery' \in {discovery, "unavailable"}
        /\ discovery' # "unavailable" => Accounted(e + 1)'
    BY <1>1, <1>2, <1>11, <2>1, AddStep
  <2>3. AdapterAccepted(a)
    BY <1>4, <1>15 DEF AdapterAccepted, servers
  <2> QED
    BY <1>1, <1>12, <2>2, <2>3
<1> QED
  BY <1>9, <1>13, <1>14, <1>15

(* The end of the configuration.                                             *)
LEMMA EndStep ==
    ASSUME SystemTypeOK, EntriesRead(entries), EndOfEntries
    PROVE  /\ FoundTyped' /\ discovery' \in {"found", "unavailable"}
           /\ AllRead'
<1>1. /\ entries = Len(config.entries) /\ config' = config /\ config \in Configurations
      /\ discovery' \in {"found", "unavailable"}
  BY DEF EndOfEntries, SystemTypeOK
<1>2. PICK S, R, U, t : FoundIs(R, U, t) /\ R \in Seq(S) /\ U \in Seq(S) /\ t \in BOOLEAN
  BY DEF SystemTypeOK
<1>3. found = [resolvers |-> R, unsupported |-> U, rotate |-> t] /\ found.resolvers = R
  BY <1>2 DEF FoundIs
<1> DEFINE r == Resolver(LocalServer, 0, DefaultScope, 0, 0, 0)
<1>4. CASE config.platform = "linux" /\ R = <<>>
  <2>1. found' = [resolvers |-> <<r>>, unsupported |-> U, rotate |-> t]
    BY <1>3, <1>4 DEF EndOfEntries
  <2> HIDE DEF r
  <2>2. <<r>> \in Seq(S \cup {r}) /\ U \in Seq(S \cup {r})
    <3>1. S \subseteq S \cup {r} /\ r \in S \cup {r}
      OBVIOUS
    <3> QED
      BY <1>2, <3>1, SeqMonotonic
  <2>3. FoundTyped'
    BY <1>2, <2>1, <2>2 DEF FoundTyped, FoundIs
  <2>4. LinesRead(Len(config.entries))
    BY <1>1, <1>4 DEF EntriesRead
  <2> DEFINE B == {k \in NameServerLines : k < Len(config.entries) + 1}
  <2>5. IsFiniteSet(B) /\ B = NameServerLines
    <3>1. Len(config.entries) \in Nat /\ DOMAIN config.entries = 1 .. Len(config.entries)
      BY <1>1, ConfigurationIsShaped
    <3>2. NameServerLines \in SUBSET (1 .. Len(config.entries)) /\ IsFiniteSet(1 .. Len(config.entries))
      BY <3>1, FS_Interval DEF NameServerLines
    <3>3. B = NameServerLines
      <4>1. \A k \in 1 .. Len(config.entries) : k < Len(config.entries) + 1
        BY <3>1
      <4>2. \A k \in NameServerLines : k < Len(config.entries) + 1
        BY <3>2, <4>1
      <4> QED
        BY <4>2
    <3> QED
      BY <3>2, <3>3, FS_Subset
  <2>6. NameServerLines = {}
    <3>1. Len(found.resolvers) = UpToThree(Cardinality(B))
      BY <2>4 DEF LinesRead
    <3> HIDE DEF B
    <3>2. Len(found.resolvers) = 0 /\ Cardinality(B) \in Nat
      BY <1>3, <1>4, <2>5, FS_CardinalityType
    <3>3. Cardinality(B) = 0
      BY <3>1, <3>2 DEF UpToThree, MaximumNameServers
    <3> QED
      BY <2>5, <3>3, FS_EmptySet
  <2>7. NameServerLines' = NameServerLines
    BY <1>1, OffersStay
  <2>8. AllRead'
    BY <1>1, <1>4, <2>1, <2>6, <2>7 DEF AllRead, r
  <2> QED
    BY <1>1, <2>3, <2>8
<1>5. CASE ~(config.platform = "linux" /\ R = <<>>)
  <2>1. found' = found
    BY <1>3, <1>5 DEF EndOfEntries
  <2>2. FoundTyped'
    BY <1>2, <2>1 DEF FoundTyped, FoundIs
  <2>3. AllRead
    <3>1. CASE config.platform = "linux" /\ NameServerLines = {}
      <4>1. LinesRead(Len(config.entries))
        BY <1>1, <3>1 DEF EntriesRead
      <4>2. Len(R) = UpToThree(Cardinality({}))
        <5>1. {k \in NameServerLines : k < Len(config.entries) + 1} = {}
          BY <3>1
        <5> QED
          BY <1>3, <4>1, <5>1 DEF LinesRead
      <4>3. Len(R) = 0
        BY <4>2, FS_EmptySet DEF UpToThree, MaximumNameServers
      <4>4. R = <<>>
        BY <1>2, <4>3
      <4> QED
        BY <1>5, <3>1, <4>4
    <3>2. CASE ~(config.platform = "linux" /\ NameServerLines = {})
      BY <1>1, <3>2 DEF AllRead
    <3> QED
      BY <3>1, <3>2
  <2>4. AllRead'
    BY <1>1, <2>1, <2>3, ReadingStays
  <2> QED
    BY <1>1, <2>2, <2>4
<1> QED
  BY <1>4, <1>5

-----------------------------------------------------------------------------
(* Selection: the order of a plan and its rotation.                          *)

(* What is selected before the list is rotated.                             *)
Ordered(name, interface) ==
    IF config.platform = "linux" THEN Stable(Considered(name, interface))
    ELSE Distinct(found.resolvers, Stable(Considered(name, interface)))

\* Where a planned list has what was in the i-th place.
Back(p, i) ==
    Moved(i, Len(p.servers), IF found.rotate THEN p.turn % Len(p.servers) ELSE 0)

(* The plan has the list s, moved as far as its turn says.                   *)
OrderIs(p, s) ==
    /\ Len(s) \in Nat \ {0} /\ Len(p.servers) = Len(s) /\ DOMAIN p.servers = 1 .. Len(s)
    /\ \A i \in 1 .. Len(s) : Back(p, i) \in 1 .. Len(s) /\ p.servers[Back(p, i)] = s[i]
    /\ \A i \in 1 .. Len(s) : \E j \in 1 .. Len(s) : p.servers[i] = s[j]

(* How Select makes it.                                                      *)
Turned(p, s) ==
    p.servers = IF found.rotate /\ Len(s) > 1 THEN Rotated(s, p.turn % Len(s)) ELSE s

(* What Select makes is moved so.                                            *)
LEMMA RotationMoves ==
    ASSUME NEW S, NEW s \in Seq(S), s # <<>>, found.rotate \in BOOLEAN,
           NEW p, p.turn \in Nat, Turned(p, s)
    PROVE  OrderIs(p, s)
<1>1. PICK n \in Nat \ {0} : n = Len(s)
  <2>1. Len(s) \in Nat /\ Len(s) # 0
    OBVIOUS
  <2> QED
    BY <2>1
<1>2. DOMAIN s = 1 .. n
  BY <1>1
<1>3. CASE found.rotate /\ n > 1
  <2>1. PICK o \in 0 .. n - 1 : o = p.turn % n
    BY <1>1
  <2>2. p.servers = Rotated(s, o)
    BY <1>1, <1>3, <2>1 DEF Turned
  <2>3. Rotated(s, o) \in Seq(S) /\ Shifts(Rotated(s, o), s, n, o)
    <3>1. o \in 0 .. Len(s) - 1
      BY <1>1
    <3>2. Rotated(s, o) \in Seq(S) /\ Shifts(Rotated(s, o), s, Len(s), o)
      BY <3>1, RotatedMoves
    <3> QED
      BY <1>1, <3>2
  <2>4. \A i : Back(p, i) = Moved(i, n, o)
    BY <1>3, <2>1, <2>2, <2>3 DEF Back, Shifts
  <2>5. DOMAIN p.servers = 1 .. n
    BY <2>2, <2>3 DEF Shifts
  <2> QED
    BY <1>1, <2>2, <2>3, <2>4, <2>5 DEF OrderIs, Shifts
<1>4. CASE ~(found.rotate /\ n > 1)
  <2>1. p.servers = s
    BY <1>1, <1>4 DEF Turned
  <2>2. (IF found.rotate THEN p.turn % n ELSE 0) = 0
    BY <1>4
  <2>3. ASSUME NEW i \in 1 .. n
        PROVE  Back(p, i) = i
    <3>1. Back(p, i) = ((i - 1 + n - 0) % n) + 1
      BY <1>1, <2>1, <2>2 DEF Back, Moved
    <3>2. PICK x \in 0 .. n - 1 : x = i - 1 /\ x + 1 = i
      OBVIOUS
    <3>3. (x + n - 0) % n = x
      OBVIOUS
    <3> QED
      BY <3>1, <3>2, <3>3
  <2> QED
    BY <1>1, <1>2, <2>1, <2>3 DEF OrderIs
<1> QED
  BY <1>3, <1>4

(* The endpoints that are asked, and those of a list.                        *)
Asked(p) == {EndpointAt(p, i) : i \in DOMAIN p.servers}
EndpointsOf(s) == {EndpointOf(found.resolvers, s[i]) : i \in 1 .. Len(s)}

\* The servers of the plan, and the list before the rotation, are those selected.
LEMMA OrderTells ==
    ASSUME NEW p, NEW s, OrderIs(p, s)
    PROVE  /\ Asked(p) = EndpointsOf(s)
           /\ config.platform = "linux" =>
                (KeepsOrder(p) <=> [i \in 1 .. Len(s) |-> EndpointOf(found.resolvers, s[i])] = NameServers)
           /\ config.platform # "linux" =>
                (KeepsOrder(p) <=> \A i, j \in 1 .. Len(s) : i < j =>
                    \E a \in PlacesOf(p, EndpointOf(found.resolvers, s[i])) :
                        \A b \in PlacesOf(p, EndpointOf(found.resolvers, s[j])) : Before(a, b))
<1> DEFINE R == found.resolvers
           listed == [i \in 1 .. Len(s) |-> EndpointOf(R, s[i])]
<1>1. \A i \in DOMAIN p.servers : EndpointAt(p, i) = EndpointOf(R, p.servers[i])
  BY DEF EndpointAt, EndpointOf
<1>2. Asked(p) = EndpointsOf(s)
  <2>1. ASSUME NEW i \in 1 .. Len(s)
        PROVE  /\ \E j \in 1 .. Len(s) : EndpointAt(p, i) = EndpointOf(R, s[j])
               /\ \E j \in 1 .. Len(s) : EndpointAt(p, j) = EndpointOf(R, s[i])
    <3>1. PICK j \in 1 .. Len(s) : p.servers[i] = s[j]
      BY DEF OrderIs
    <3>2. Back(p, i) \in 1 .. Len(s) /\ p.servers[Back(p, i)] = s[i]
      BY DEF OrderIs
    <3>3. DOMAIN p.servers = 1 .. Len(s)
      BY DEF OrderIs
    <3>4. EndpointAt(p, i) = EndpointOf(R, s[j])
      BY <1>1, <3>1, <3>3
    <3>5. EndpointAt(p, Back(p, i)) = EndpointOf(R, s[i])
      BY <1>1, <3>2, <3>3
    <3> QED
      BY <3>2, <3>4, <3>5
  <2>2. DOMAIN p.servers = 1 .. Len(s)
    BY DEF OrderIs
  <2>3. \A i \in DOMAIN p.servers : EndpointAt(p, i) \in {EndpointOf(R, s[j]) : j \in 1 .. Len(s)}
    BY <2>1, <2>2
  <2>4. \A i \in 1 .. Len(s) : EndpointOf(R, s[i]) \in {EndpointAt(p, j) : j \in DOMAIN p.servers}
    BY <2>1, <2>2
  <2> QED
    BY <2>3, <2>4 DEF Asked, EndpointsOf
<1>3. listed = [i \in 1 .. Len(p.servers) |->
                   EndpointAt(p, ((i - 1 + Len(p.servers) - (IF found.rotate THEN p.turn % Len(p.servers) ELSE 0))
                                     % Len(p.servers)) + 1)]
  <2>1. \A i \in 1 .. Len(s) : EndpointAt(p, Back(p, i)) = EndpointOf(R, s[i])
    BY <1>1 DEF OrderIs
  <2>2. listed = [i \in 1 .. Len(p.servers) |-> EndpointAt(p, Back(p, i))]
    BY <2>1 DEF OrderIs
  <2> QED
    BY <2>2 DEF Back, Moved
<1>4. config.platform = "linux" => (KeepsOrder(p) <=> listed = NameServers)
  <2> HIDE DEF listed
  <2> QED
    BY <1>3 DEF KeepsOrder
<1>5. config.platform # "linux" =>
        (KeepsOrder(p) <=> \A i, j \in 1 .. Len(s) : i < j =>
            \E a \in PlacesOf(p, listed[i]) : \A b \in PlacesOf(p, listed[j]) : Before(a, b))
  <2>1. Len(p.servers) = Len(s)
    BY DEF OrderIs
  <2> HIDE DEF listed
  <2> QED
    BY <1>3, <2>1 DEF KeepsOrder
<1> QED
  BY <1>2, <1>4, <1>5

\* The k-th least of the first numbers is k.
LEMMA NthOfInterval ==
    ASSUME NEW N \in Nat, NEW k \in 1 .. N
    PROVE  Nth(1 .. N, k) = k
<1>1. 1 .. N \in SUBSET Nat /\ IsFiniteSet(1 .. N)
  BY FS_Interval
<1>2. PICK n \in 1 .. Cardinality(1 .. N) :
         Nth(1 .. N, n) = k /\ n = Cardinality({j \in 1 .. N : j < k}) + 1
  BY <1>1, NthCounts
<1>3. {j \in 1 .. N : j < k} = 1 .. k - 1
  OBVIOUS
<1>4. Cardinality(1 .. k - 1) = k - 1
  <2>1. PICK c \in Nat : c = k - 1
    OBVIOUS
  <2>2. Cardinality(1 .. c) = c
    BY FS_Interval
  <2> QED
    BY <2>1, <2>2
<1>5. n = k
  <2>1. PICK c \in Nat : c = k - 1 /\ c + 1 = k
    OBVIOUS
  <2>2. Cardinality({j \in 1 .. N : j < k}) = c
    BY <1>3, <1>4, <2>1
  <2>3. n = c + 1
    BY <1>2, <2>2
  <2> QED
    BY <2>1, <2>3
<1> QED
  BY <1>2, <1>5

(* The places of the resolvers that are considered.                          *)
ConsideredAt(name, interface) ==
    {n \in DOMAIN found.resolvers :
        config.platform = "darwin" =>
            found.resolvers[n] \in Preferred(ToSet(found.resolvers), name, interface)}

(* c lists the numbers K in their order.                                     *)
Ascends(c, K) ==
    /\ c \in Seq(K)
    /\ \A i, j \in 1 .. Len(c) : i < j => c[i] < c[j]
    /\ \A k \in K : \E i \in 1 .. Len(c) : c[i] = k

(* The resolvers that are considered, in the order of discovery; on Linux all.*)
LEMMA ConsideredAreListed ==
    ASSUME SystemTypeOK, NEW name, NEW interface
    PROVE  /\ Len(found.resolvers) \in Nat /\ DOMAIN found.resolvers = 1 .. Len(found.resolvers)
           /\ ConsideredAt(name, interface) \in SUBSET (1 .. Len(found.resolvers))
           /\ Ascends(Considered(name, interface), ConsideredAt(name, interface))
           /\ config.platform = "linux" =>
                 /\ Considered(name, interface) \in Seq(1 .. Len(found.resolvers))
                 /\ Len(Considered(name, interface)) = Len(found.resolvers)
                 /\ \A i \in 1 .. Len(found.resolvers) : Considered(name, interface)[i] = i
<1> DEFINE R == found.resolvers
           K == ConsideredAt(name, interface)
           C == Considered(name, interface)
<1>1. Len(R) \in Nat /\ DOMAIN R = 1 .. Len(R)
  <2>1. PICK S, Q, U, t : FoundIs(Q, U, t) /\ Q \in Seq(S)
    BY DEF SystemTypeOK
  <2>2. R = Q
    BY <2>1 DEF FoundIs
  <2> QED
    BY <2>1, <2>2
<1>2. K \in SUBSET (1 .. Len(R))
  BY <1>1 DEF ConsideredAt
<1>3. K \in SUBSET Nat /\ IsFiniteSet(K)
  <2>1. IsFiniteSet(1 .. Len(R)) /\ 1 .. Len(R) \subseteq Nat
    BY <1>1, FS_Interval
  <2> HIDE DEF K, R
  <2>2. IsFiniteSet(K)
    BY <1>2, <2>1, FS_Subset
  <2> QED
    BY <1>2, <2>1, <2>2
<1>4. C = Only(Places(R), K)
  BY DEF Considered, ConsideredAt
<1>5. \A n \in K : Places(R)[n] = n
  BY <1>1, <1>2 DEF Places
<1>6. PICK at : Picks(at, K, Places(R), C)
  <2> HIDE DEF C, K
  <2> QED
    BY <1>3, <1>4, OnlyPicks
<1> HIDE DEF C, K
<1>7. /\ Len(C) \in Nat /\ DOMAIN C = 1 .. Len(C) /\ at \in [1 .. Len(C) -> K]
      /\ \A i \in 1 .. Len(C) : C[i] = at[i]
  <2>1. /\ Len(C) \in Nat /\ DOMAIN C = 1 .. Len(C) /\ at \in [1 .. Len(C) -> K]
        /\ \A i \in 1 .. Len(C) : C[i] = Places(R)[at[i]]
    BY <1>6 DEF Picks
  <2>2. \A i \in 1 .. Len(C) : at[i] \in K
    BY <2>1
  <2> QED
    BY <1>5, <2>1, <2>2
<1>8. C \in Seq(K)
  <2>1. C = [i \in 1 .. Cardinality(K) |-> Places(R)[Nth(K, i)]]
    BY <1>4 DEF Only
  <2>2. Len(C) = Cardinality(K)
    BY <1>3, <1>4, OnlyPicks
  <2>3. C = [i \in 1 .. Len(C) |-> C[i]]
    BY <2>1, <2>2
  <2>4. \A i \in 1 .. Len(C) : C[i] \in K
    BY <1>7
  <2>5. PICK n \in Nat : n = Len(C)
    BY <1>7
  <2>6. C = [i \in 1 .. n |-> C[i]] /\ \A i \in 1 .. n : C[i] \in K
    BY <2>3, <2>4, <2>5
  <2> QED
    BY <2>6
<1>9. Ascends(C, K)
  <2>1. /\ \A i, j \in 1 .. Len(C) : i < j => at[i] < at[j]
        /\ \A k \in K : \E i \in 1 .. Len(C) : at[i] = k
    BY <1>6 DEF Picks
  <2> QED
    BY <1>7, <1>8, <2>1 DEF Ascends
<1>10. ASSUME config.platform = "linux"
       PROVE  /\ C \in Seq(1 .. Len(R)) /\ Len(C) = Len(R)
              /\ \A i \in 1 .. Len(R) : C[i] = i
  <2>1. K = 1 .. Len(R)
    BY <1>1, <1>10 DEF K, ConsideredAt
  <2>2. Cardinality(1 .. Len(R)) = Len(R)
    <3>1. PICK n \in Nat : n = Len(R)
      BY <1>1
    <3>2. Cardinality(1 .. n) = n
      BY FS_Interval
    <3> QED
      BY <3>1, <3>2
  <2>3. Len(C) = Len(R)
    BY <1>3, <1>4, <2>1, <2>2, OnlyPicks
  <2>4. \A i \in 1 .. Len(R) : C[i] = Places(R)[Nth(1 .. Len(R), i)]
    BY <1>4, <2>1, <2>2 DEF Only
  <2>5. \A i \in 1 .. Len(R) : Nth(1 .. Len(R), i) = i
    BY <1>1, NthOfInterval
  <2> QED
    BY <1>5, <1>8, <2>1, <2>3, <2>4, <2>5
<1> QED
  BY <1>1, <1>2, <1>9, <1>10 DEF C, K

(* The comparison of the sort is a total order on K.                         *)
TotalOn(K) ==
    /\ \A y, z \in K : y = z \/ Precedes(y, z) \/ Precedes(z, y)
    /\ \A w, y, z \in K : Precedes(w, y) /\ Precedes(y, z) => Precedes(w, z)

\* Each endpoint once, at the first of its places, and the places in order.
Sifted(s, K) ==
    /\ \A i \in 1 .. Len(s) : s[i] \in K
    /\ \A m \in K : \E i \in 1 .. Len(s) :
          /\ EndpointOf(found.resolvers, s[i]) = EndpointOf(found.resolvers, m)
          /\ TotalOn(K) => s[i] = m \/ Precedes(s[i], m)
    /\ \A i, j \in 1 .. Len(s) : i < j =>
          /\ EndpointOf(found.resolvers, s[i]) # EndpointOf(found.resolvers, s[j])
          /\ TotalOn(K) => Precedes(s[i], s[j])

(* Sorting and then keeping each endpoint once sifts a list.                 *)
LEMMA DistinctIsSifted ==
    ASSUME NEW K \in SUBSET Nat, NEW c, Ascends(c, K)
    PROVE  /\ Distinct(found.resolvers, Stable(c)) \in Seq(K)
           /\ Sifted(Distinct(found.resolvers, Stable(c)), K)
<1> DEFINE R == found.resolvers
           t == Stable(c)
           d == Distinct(R, t)
<1>1. /\ t \in Seq(K) /\ Lists(t, c, Len(c)) /\ Len(t) \in Nat /\ DOMAIN t = 1 .. Len(t)
      /\ c \in Seq(K) /\ Len(t) = Len(c)
  BY StableLists DEF Ascends, Lists
<1>2. TotalOn(K) => Sorted(t)
  <2>1. SUFFICES ASSUME TotalOn(K)
                 PROVE  Sorted(t)
    OBVIOUS
  <2>2. \A i \in 1 .. Len(c) : c[i] \in Nat
    <3>1. \A i \in 1 .. Len(c) : c[i] \in K
      BY <1>1
    <3> QED
      BY <3>1
  <2>3. \A x \in Nat, y \in Nat : x < y => x # y
    OBVIOUS
  <2>4. \A i, j \in 1 .. Len(c) : i < j => c[i] # c[j]
    BY <2>2, <2>3 DEF Ascends
  <2> QED
    BY <1>1, <2>1, <2>4, StableIsSorted DEF TotalOn
<1> HIDE DEF t
<1>3. PICK at : Picks(at, FirstPlaces(R, t, Len(t)), t, d)
  BY <1>1, DistinctPicks
<1> HIDE DEF d
<1>4. /\ Len(d) \in Nat /\ DOMAIN d = 1 .. Len(d)
      /\ \A i \in 1 .. Len(d) : at[i] \in FirstPlaces(R, t, Len(t)) /\ d[i] = t[at[i]]
      /\ \A i, j \in 1 .. Len(d) : i < j => at[i] < at[j]
      /\ \A k \in FirstPlaces(R, t, Len(t)) : \E i \in 1 .. Len(d) : at[i] = k
  BY <1>3 DEF Picks
<1>5. \A i \in 1 .. Len(d) : at[i] \in 1 .. Len(t) /\ d[i] \in K
  <2>1. \A k \in FirstPlaces(R, t, Len(t)) : k \in 1 .. Len(t)
    BY DEF FirstPlaces
  <2> QED
    BY <1>1, <1>4, <2>1
<1>6. d \in Seq(K)
  <2>1. d = [i \in 1 .. Len(d) |-> d[i]]
    <3>1. PICK n : d = [i \in 1 .. n |-> d[i]]
      BY DEF d, Distinct, Only
    <3> QED
      BY <1>4, <3>1
  <2>2. PICK n \in Nat : n = Len(d)
    BY <1>4
  <2>3. d = [i \in 1 .. n |-> d[i]] /\ \A i \in 1 .. n : d[i] \in K
    BY <1>5, <2>1, <2>2
  <2> QED
    BY <2>3
<1>7. ASSUME NEW m \in K
      PROVE  \E i \in 1 .. Len(d) :
                /\ EndpointOf(R, d[i]) = EndpointOf(R, m)
                /\ TotalOn(K) => d[i] = m \/ Precedes(d[i], m)
  <2>1. PICK k \in 1 .. Len(t) : t[k] = m
    <3>1. PICK i \in 1 .. Len(c) : c[i] = m
      BY DEF Ascends
    <3> QED
      BY <1>1, <3>1 DEF Lists
  <2>2. PICK j \in FirstPlaces(R, t, Len(t)) :
           j <= k /\ EndpointOf(R, t[j]) = EndpointOf(R, t[k])
    BY <1>1, FirstPlaceExists
  <2>3. PICK i \in 1 .. Len(d) : at[i] = j
    BY <1>4
  <2>4. j \in 1 .. Len(t)
    BY DEF FirstPlaces
  <2>5. d[i] = t[j]
    BY <1>4, <2>3
  <2>6. ASSUME TotalOn(K)
        PROVE  d[i] = m \/ Precedes(d[i], m)
    <3>1. j = k \/ j < k
      BY <1>1, <2>2, <2>4
    <3> QED
      BY <1>2, <2>1, <2>4, <2>5, <2>6, <3>1 DEF Sorted
  <2> QED
    BY <2>1, <2>2, <2>5, <2>6
<1>9. ASSUME NEW i \in 1 .. Len(d), NEW j \in 1 .. Len(d), i < j
      PROVE  EndpointOf(R, d[i]) # EndpointOf(R, d[j])
  <2>1. at[i] < at[j] /\ at[i] \in 1 .. Len(t) /\ at[j] \in 1 .. Len(t)
    BY <1>4, <1>5, <1>9
  <2>2. IsFirstOf(R, t, at[j])
    BY <1>4 DEF FirstPlaces
  <2>3. PICK x \in Nat, y \in Nat : x = at[i] /\ y = at[j] /\ 1 <= x
    BY <1>1, <2>1
  <2>4. x \in 1 .. y - 1
    BY <2>1, <2>3
  <2>5. EndpointOf(R, t[x]) # EndpointOf(R, t[y])
    BY <2>2, <2>3, <2>4 DEF IsFirstOf
  <2> QED
    BY <1>4, <2>3, <2>5
<1>8. ASSUME TotalOn(K), NEW i \in 1 .. Len(d), NEW j \in 1 .. Len(d), i < j
      PROVE  Precedes(d[i], d[j])
  <2>1. at[i] < at[j] /\ at[i] \in 1 .. Len(t) /\ at[j] \in 1 .. Len(t)
    BY <1>4, <1>5, <1>8
  <2> QED
    BY <1>2, <1>4, <1>8, <2>1 DEF Sorted
<1> QED
  BY <1>5, <1>6, <1>7, <1>8, <1>9 DEF Sifted, d, t

(* What Select says of the plan: its order, and that no name is refused.     *)
LEMMA SelectTells ==
    ASSUME SystemTypeOK, NEW p, p.turn \in Nat,
           p.servers = Select(p.name, p.interface, p.turn), p.servers # <<>>
    PROVE  /\ OrderIs(p, Ordered(p.name, p.interface))
           /\ config.platform = "darwin" => ~RefusedRoute(p.name, p.interface)
           /\ config.platform # "linux" =>
                Sifted(Ordered(p.name, p.interface), ConsideredAt(p.name, p.interface))
<1> DEFINE s == Ordered(p.name, p.interface)
           C == Considered(p.name, p.interface)
           K == ConsideredAt(p.name, p.interface)
<1>1. /\ Ascends(C, K) /\ K \in SUBSET Nat /\ Stable(C) \in Seq(K)
  <2>1. Ascends(C, K) /\ K \in SUBSET (1 .. Len(found.resolvers)) /\ Len(found.resolvers) \in Nat
    BY ConsideredAreListed
  <2>2. 1 .. Len(found.resolvers) \subseteq Nat
    BY <2>1
  <2> HIDE DEF C, K
  <2>3. K \in SUBSET Nat
    BY <2>1, <2>2
  <2>4. Stable(C) \in Seq(K)
    BY <2>1, StableLists DEF Ascends
  <2> QED
    BY <2>1, <2>3, <2>4
<1>2. /\ s \in Seq(K)
      /\ config.platform # "linux" => Sifted(s, K)
  <2> HIDE DEF K
  <2>1. Distinct(found.resolvers, Stable(C)) \in Seq(K) /\ Sifted(Distinct(found.resolvers, Stable(C)), K)
    BY <1>1, DistinctIsSifted
  <2> QED
    BY <1>1, <2>1 DEF Ordered
<1> HIDE DEF K
<1>3. config.platform = "darwin" => ~RefusedRoute(p.name, p.interface)
  BY DEF Select
<1>4. Turned(p, s)
  BY <1>3 DEF Select, Turned, Ordered
<1>5. Len(s) # 0
  <2> SUFFICES ASSUME Len(s) = 0 PROVE FALSE
    OBVIOUS
  <2>1. ~(Len(s) > 1) /\ s = <<>>
    BY <1>2
  <2>2. p.servers = s
    BY <1>4, <2>1 DEF Turned
  <2> QED
    BY <2>1, <2>2
<1>6. found.rotate \in BOOLEAN
  BY DEF SystemTypeOK, FoundIs
<1>7. OrderIs(p, s)
  <2>1. s # <<>>
    BY <1>2, <1>5
  <2> HIDE DEF s
  <2> QED
    BY <1>2, <1>4, <1>6, <2>1, RotationMoves
<1> QED
  BY <1>2, <1>3, <1>7 DEF s, K

\* What is bound to the sockets.
BindsTo(p) == p.bound = [i \in DOMAIN p.servers |-> BindInterface(found.resolvers[p.servers[i]])]

(* Linux: the name servers of resolv.conf, in their order.                   *)
LEMMA LinuxIsOwed ==
    ASSUME SystemTypeOK, AllRead, config.platform = "linux",
           NEW p, OrderIs(p, Ordered(p.name, p.interface)), BindsTo(p)
    PROVE  Owed(p)
<1> DEFINE R == found.resolvers
           s == Ordered(p.name, p.interface)
           C == Considered(p.name, p.interface)
           listed == [i \in 1 .. Len(s) |-> EndpointOf(R, s[i])]
           rows == Only(config.entries, NameServerLines)
<1>1. /\ Len(R) \in Nat /\ C \in Seq(1 .. Len(R)) /\ Len(C) = Len(R)
      /\ \A i \in 1 .. Len(R) : C[i] = i
  BY ConsideredAreListed
<1>2. s = C
  <2>1. \A m, n \in 1 .. Len(R) : Precedes(m, n) <=> m < n
    BY DEF Precedes
  <2> HIDE DEF C
  <2>2. Stable(C) = C
    BY <1>1, <2>1, StableKeeps
  <2> QED
    BY <2>2 DEF Ordered, C
<1>3. listed = [i \in 1 .. Len(R) |-> EndpointOf(R, i)]
  BY <1>1, <1>2
<1>4. config \in Configurations
  BY DEF SystemTypeOK
<1>5. /\ NameServerLines \in SUBSET Nat /\ IsFiniteSet(NameServerLines)
      /\ \A k \in NameServerLines : k < Len(config.entries) + 1
  <2>1. Len(config.entries) \in Nat /\ DOMAIN config.entries = 1 .. Len(config.entries)
    BY <1>4, ConfigurationIsShaped
  <2>2. /\ IsFiniteSet(1 .. Len(config.entries)) /\ 1 .. Len(config.entries) \subseteq Nat
        /\ \A k \in 1 .. Len(config.entries) : k < Len(config.entries) + 1
    <3>1. PICK n \in Nat : n = Len(config.entries)
      BY <2>1
    <3>2. IsFiniteSet(1 .. n) /\ 1 .. n \subseteq Nat
      BY FS_Interval
    <3>3. \A k \in 1 .. n : k < n + 1
      OBVIOUS
    <3> QED
      BY <3>1, <3>2, <3>3
  <2>3. NameServerLines \in SUBSET (1 .. Len(config.entries))
    BY <2>1 DEF NameServerLines
  <2> QED
    BY <2>2, <2>3, FS_Subset
<1>6. /\ Len(rows) = Cardinality(NameServerLines) /\ Cardinality(NameServerLines) \in Nat
      /\ rows = [i \in 1 .. Cardinality(NameServerLines) |-> config.entries[Nth(NameServerLines, i)]]
      /\ NameServers = IF rows = <<>> THEN <<LocalServer>>
                       ELSE [i \in 1 .. UpToThree(Len(rows)) |-> ParsedEndpoint(rows[i].server, "", 53)]
  <2>1. Len(rows) = Cardinality(NameServerLines) /\ Cardinality(NameServerLines) \in Nat
    BY <1>5, OnlyPicks, FS_CardinalityType
  <2>2. NameServers = IF rows = <<>> THEN <<LocalServer>>
                       ELSE [i \in 1 .. UpToThree(Len(rows)) |-> ParsedEndpoint(rows[i].server, "", 53)]
    BY DEF NameServers, NameServerLines, UpToThree
  <2> QED
    BY <2>1, <2>2 DEF Only
<1>7. listed = NameServers
  <2>1. CASE NameServerLines = {}
    <3>1. R = <<Resolver(LocalServer, 0, DefaultScope, 0, 0, 0)>>
      BY <2>1 DEF AllRead
    <3>2. listed = <<LocalServer>>
      <4>1. Len(R) = 1 /\ EndpointOf(R, 1) = LocalServer
        BY <3>1 DEF EndpointOf, Resolver
      <4> HIDE DEF R
      <4>2. [i \in 1 .. Len(R) |-> EndpointOf(R, i)] = <<LocalServer>>
        BY <4>1
      <4> QED
        BY <1>3, <4>2
    <3>3. rows = <<>>
      <4>1. Cardinality(NameServerLines) = 0
        BY <2>1, FS_EmptySet
      <4>2. 1 .. Cardinality(NameServerLines) = {}
        BY <4>1
      <4>3. \A f : [i \in {} |-> f[i]] = <<>>
        OBVIOUS
      <4>4. [i \in {} |-> config.entries[Nth(NameServerLines, i)]] = <<>>
        OBVIOUS
      <4> HIDE DEF rows
      <4>5. rows = [i \in {} |-> config.entries[Nth(NameServerLines, i)]]
        BY <1>6, <4>2
      <4> QED
        BY <4>4, <4>5
    <3> HIDE DEF listed, rows
    <3> QED
      BY <1>6, <3>2, <3>3
  <2>2. CASE NameServerLines # {}
    <3>1. LinesRead(Len(config.entries))
      BY <2>2 DEF AllRead, EntriesRead
    <3>2. {k \in NameServerLines : k < Len(config.entries) + 1} = NameServerLines
      BY <1>5
    <3>3. /\ Len(R) = UpToThree(Cardinality(NameServerLines))
          /\ \A i \in 1 .. Len(R) : R[i] = LineResolver(i)
      BY <3>1, <3>2 DEF LinesRead
    <3>4. Cardinality(NameServerLines) # 0
      BY <1>5, <2>2, FS_EmptySet
    <3>5. Len(rows) # 0 /\ rows # <<>>
      <4>1. Len(rows) # 0
        BY <1>6, <3>4
      <4> HIDE DEF rows
      <4> QED
        BY <4>1
    <3>6. ASSUME NEW i \in 1 .. Len(R)
          PROVE  EndpointOf(R, i) = ParsedEndpoint(rows[i].server, "", 53)
      <4>1. i \in 1 .. Cardinality(NameServerLines)
        <5>1. PICK n \in Nat : n = Cardinality(NameServerLines)
          BY <1>6
        <5>2. i \in 1 .. UpToThree(n)
          BY <3>3, <5>1
        <5>3. i \in 1 .. n
          BY <5>2 DEF UpToThree, MaximumNameServers
        <5> QED
          BY <5>1, <5>3
      <4>2. rows[i] = config.entries[Nth(NameServerLines, i)]
        BY <1>6, <4>1
      <4>3. EndpointOf(R, i) = LineResolver(i).endpoint
        BY <3>3 DEF EndpointOf
      <4> QED
        BY <4>2, <4>3 DEF LineResolver, Resolver
    <3>7. listed = [i \in 1 .. Len(R) |-> ParsedEndpoint(rows[i].server, "", 53)]
      BY <1>3, <3>6
    <3> HIDE DEF listed, rows
    <3> QED
      BY <1>6, <3>3, <3>5, <3>7
  <2> QED
    BY <2>1, <2>2
<1>8. KeepsOrder(p)
  BY <1>7, OrderTells
<1>9. AsksItsOwners(p)
  <2>1. Asked(p) = EndpointsOf(s)
    BY OrderTells
  <2>2. EndpointsOf(s) = ToSet(listed)
    BY DEF ToSet, EndpointsOf
  <2> QED
    BY <1>7, <2>1, <2>2 DEF AsksItsOwners, Asked
<1>10. DialsItsInterface(p)
  BY DEF DialsItsInterface, BindsTo, BindInterface
<1> QED
  BY <1>8, <1>9, <1>10 DEF Owed

-----------------------------------------------------------------------------
(* scutil: which clients own a name.                                         *)

\* The first of an endpoint in a list.
LEMMA FirstInExists ==
    ASSUME NEW l, NEW n \in Nat, NEW k \in 1 .. n
    PROVE  \E j \in 1 .. n : j <= k /\ FirstIn(l, j) /\ l[j].endpoint = l[k].endpoint
<1> DEFINE id == [i \in 1 .. n |-> i]
<1>1. PICK j \in FirstPlaces(l, id, n) :
         j <= k /\ EndpointOf(l, id[j]) = EndpointOf(l, id[k])
  BY FirstPlaceExists
<1>2. j \in 1 .. n /\ \A i \in 1 .. j - 1 : EndpointOf(l, id[i]) # EndpointOf(l, id[j])
  BY DEF FirstPlaces, IsFirstOf
<1>3. \A i \in 1 .. j - 1 : i \in 1 .. n /\ id[i] = i
  BY <1>2
<1>4. id[j] = j /\ id[k] = k
  BY <1>2
<1>5. FirstIn(l, j)
  BY <1>2, <1>3, <1>4 DEF FirstIn, EndpointOf
<1> QED
  BY <1>1, <1>2, <1>4, <1>5 DEF EndpointOf

\* What an entry offers is at the first of its places in the list.
LEMMA OfferIsTold ==
    ASSUME config \in Configurations, NEW en, NEW pl,
           Tells(en, pl, found.resolvers, Offered, Len(config.entries)),
           NEW n \in 1 .. Len(config.entries), NEW k \in 1 .. Len(Offered[n])
    PROVE  \E m \in 1 .. Len(found.resolvers) :
              /\ en[m] = n /\ pl[m] <= k
              /\ EndpointOf(found.resolvers, m) = Offered[n][k].endpoint
<1>1. Len(Offered[n]) \in Nat
  BY OfferedAre
<1>2. PICK j \in 1 .. Len(Offered[n]) :
         j <= k /\ FirstIn(Offered[n], j) /\ Offered[n][j].endpoint = Offered[n][k].endpoint
  BY <1>1, FirstInExists
<1>3. PICK m \in 1 .. Len(found.resolvers) : en[m] = n /\ pl[m] = j
  BY <1>2 DEF Tells
<1>4. found.resolvers[m] = Offered[en[m]][pl[m]]
  BY DEF Tells
<1> QED
  BY <1>2, <1>3, <1>4 DEF EndpointOf

\* Among finitely many numbers there is a greatest.
LEMMA LongestExists ==
    ASSUME NEW N \in Nat, NEW f \in [1 .. N -> Nat], NEW P \in SUBSET (1 .. N), P # {}
    PROVE  \E n \in P : \A m \in P : f[m] <= f[n]
<1> DEFINE Bounded == {n \in 0 .. N : \E b \in Nat : \A m \in 1 .. n : f[m] <= b}
<1>1. 0 \in Bounded
  OBVIOUS
<1>2. ASSUME NEW n \in 1 .. N, n - 1 \in Bounded
      PROVE  n \in Bounded
  <2>1. PICK b \in Nat : \A m \in 1 .. n - 1 : f[m] <= b
    BY <1>2
  <2>2. PICK c \in Nat : c = f[n]
    OBVIOUS
  <2>3. \A m \in 1 .. n : (m = n \/ m \in 1 .. n - 1) /\ f[m] \in Nat
    OBVIOUS
  <2>4. \A m \in 1 .. n : f[m] <= b + c
    BY <2>1, <2>2, <2>3
  <2> QED
    BY <2>4
<1>3. N \in Bounded
  <2>1. \A n \in 0 .. N : n \in Bounded
    <3> HIDE DEF Bounded
    <3> QED
      BY <1>1, <1>2, UpTo
  <2> HIDE DEF Bounded
  <2> QED
    BY <2>1
<1>4. PICK b \in Nat : \A m \in 1 .. N : f[m] <= b
  BY <1>3
<1> DEFINE D == {b - f[n] : n \in P}
<1>5. \A n \in P : f[n] \in Nat /\ f[n] <= b
  BY <1>4
<1>6. D \in SUBSET Nat /\ D # {}
  <2>1. \A n \in P : b - f[n] \in Nat
    BY <1>5
  <2>2. \E n : n \in P
    OBVIOUS
  <2> QED
    BY <2>1, <2>2
<1>7. PICK d \in D : \A x \in D : d <= x
  <2> HIDE DEF D
  <2> QED
    BY <1>6, LeastExists
<1>8. PICK n \in P : d = b - f[n]
  OBVIOUS
<1>9. ASSUME NEW m \in P
      PROVE  f[m] <= f[n]
  <2>1. b - f[n] <= b - f[m]
    BY <1>7, <1>8
  <2> QED
    BY <1>5, <2>1
<1> QED
  BY <1>9

-----------------------------------------------------------------------------
(* scutil: the route of a client is preferred if the client owns the name.   *)
Represents(r, b) ==
    r.domain = b.domain /\ r.scoped = b.scoped /\ r.interface = b.interface

(* A client that can answer for the name.                                    *)
Answers(b, p) ==
    /\ BlockEndpoints(b) # <<>> \/ Configured(b)
    /\ IsSuffix(b.domain, p.name)
    /\ b.scoped => \/ b.interface = p.interface
                   \/ p.interface = 0 /\ b.domain # <<>>

(* A client that stands above another.                                       *)
Closer(b, c) == \/ Len(b.domain) > Len(c.domain)
                \/ b.domain = <<>> /\ c.domain = <<>> /\ b.scoped /\ ~c.scoped

(* Those that answer.                                                        *)
Clients(p) == {b \in ToSet(config.entries) : Answers(b, p)}

\* Routes stand for the clients that can answer, and those for them.
Stands(T) ==
    /\ \A r \in T : \E b \in ToSet(config.entries) :
          Represents(r, b) /\ (BlockEndpoints(b) # <<>> \/ Configured(b))
    /\ \A b \in ToSet(config.entries) :
          BlockEndpoints(b) # <<>> \/ Configured(b) => \E r \in T : Represents(r, b)

(* What the acceptance of the blocks says of them.                           *)
BlocksAreFine ==
    \A b \in ToSet(config.entries) :
        b.scoped \in BOOLEAN /\ (b.scoped => b.interface # 0) /\ Len(b.domain) \in Nat
        /\ (b.domain = <<>> <=> Len(b.domain) = 0)

(* The default scope matches every name.                                     *)
LEMMA EmptyIsSuffix ==
    ASSUME NEW S, NEW name \in Seq(S)
    PROVE  IsSuffix(<<>>, name)
<1>1. Len(Reverse(<<>>)) = 0 /\ Len(Reverse(name)) = Len(name) /\ Len(name) \in Nat
  BY DEF Reverse
<1>2. \A s : SubSeq(s, 1, 0) = <<>>
  OBVIOUS
<1> QED
  BY <1>1, <1>2 DEF IsSuffix, IsPrefix

(* A client answers if its route is eligible and matches.                    *)
LEMMA RepresentedAnswers ==
    ASSUME NEW p, NEW b, NEW r, Represents(r, b), b.scoped => b.interface # 0,
           BlockEndpoints(b) # <<>> \/ Configured(b)
    PROVE  Answers(b, p) <=> Eligible(r, p.interface) /\ Matches(r, p.name)
BY DEF Answers, Represents, Eligible, Matches

(* The preferred of such routes are those of the owners.                     *)
LEMMA PreferredOwns ==
    ASSUME NEW p, NEW S, p.name \in Seq(S), BlocksAreFine, NEW T, Stands(T),
           NEW r \in T, NEW b \in ToSet(config.entries), Represents(r, b),
           BlockEndpoints(b) # <<>> \/ Configured(b)
    PROVE  r \in Preferred(T, p.name, p.interface) <=> b \in Owners(p)
<1> DEFINE i == p.interface
           eligible == {q \in T : Eligible(q, i)}
           matching == {q \in eligible : q.domain # <<>> /\ Matches(q, p.name)}
           default == {q \in eligible : q.domain = <<>>}
           ofInterface == {q \in default : q.scoped /\ i # 0 /\ q.interface = i}
<1>1. b \in Owners(p) <=> Answers(b, p) /\ \A c \in Clients(p) : ~Closer(c, b)
  BY DEF Owners, Clients, Answers, Closer
<1>2. r \in Preferred(T, p.name, i) <=>
         IF matching # {} THEN r \in matching /\ \A q \in matching : Len(q.domain) <= Len(r.domain)
         ELSE IF ofInterface # {} THEN r \in ofInterface ELSE r \in default
  BY DEF Preferred
<1>3. \A c \in ToSet(config.entries) :
         c.scoped \in BOOLEAN /\ (c.scoped => c.interface # 0) /\ Len(c.domain) \in Nat
         /\ (c.domain = <<>> <=> Len(c.domain) = 0)
  BY DEF BlocksAreFine
<1>4. \A q \in T : q.domain = <<>> => Matches(q, p.name)
  BY EmptyIsSuffix DEF Matches
<1>5. Answers(b, p) <=> r \in eligible /\ Matches(r, p.name)
  BY <1>3, RepresentedAnswers
\* Every client has its route, and every route that matches is of a client.
<1>6. ASSUME NEW c \in Clients(p)
      PROVE  \E q \in eligible : Matches(q, p.name) /\ Represents(q, c)
  <2>1. c \in ToSet(config.entries) /\ Answers(c, p) /\ (BlockEndpoints(c) # <<>> \/ Configured(c))
    BY <1>6 DEF Clients, Answers
  <2>2. PICK q \in T : Represents(q, c)
    BY <2>1 DEF Stands
  <2> QED
    BY <1>3, <2>1, <2>2, RepresentedAnswers
<1>7. ASSUME NEW q \in eligible, Matches(q, p.name)
      PROVE  \E c \in Clients(p) : Represents(q, c)
  <2>1. PICK c \in ToSet(config.entries) :
           Represents(q, c) /\ (BlockEndpoints(c) # <<>> \/ Configured(c))
    BY DEF Stands
  <2> QED
    BY <1>3, <1>7, <2>1, RepresentedAnswers DEF Clients
<1> HIDE DEF i
<1>8. ASSUME r \in Preferred(T, p.name, i)
      PROVE  b \in Owners(p)
  <2>1. Answers(b, p)
    BY <1>2, <1>4, <1>5, <1>8
  <2>2. ASSUME NEW c \in Clients(p), Closer(c, b)
        PROVE  FALSE
    <3>1. PICK q \in eligible : Matches(q, p.name) /\ Represents(q, c)
      BY <1>6
    <3>2. c \in ToSet(config.entries) /\ q.domain = c.domain /\ q.scoped = c.scoped /\ q.interface = c.interface
      BY <3>1 DEF Clients, Represents
    <3>3. r.domain = b.domain /\ r.scoped = b.scoped /\ r.interface = b.interface
      BY DEF Represents
    <3>4. CASE matching # {}
      <4>1. r \in matching /\ \A x \in matching : Len(x.domain) <= Len(r.domain)
        BY <1>2, <1>8, <3>4
      <4>2. r.domain # <<>> /\ Len(c.domain) > Len(b.domain)
        BY <2>2, <3>3, <4>1 DEF Closer
      <4>3. c.domain # <<>>
        BY <1>3, <3>2, <4>2
      <4>4. q \in matching
        BY <3>1, <3>2, <4>3
      <4> QED
        BY <1>3, <3>2, <3>3, <4>1, <4>2, <4>4
    <3>5. CASE matching = {}
      <4>1. c.domain = <<>> /\ q \in default
        BY <3>1, <3>2, <3>5
      <4>2. r.domain = <<>>
        BY <1>2, <1>8, <3>5
      <4>3. c.scoped /\ ~b.scoped
        BY <1>3, <2>2, <3>2, <3>3, <4>1, <4>2 DEF Closer
      <4>4. q \in ofInterface
        BY <3>2, <4>1, <4>3 DEF Eligible
      <4>5. r \in ofInterface
        BY <1>2, <1>8, <3>5, <4>4
      <4> QED
        BY <3>3, <4>3, <4>5
    <3> QED
      BY <3>4, <3>5
  <2> QED
    BY <1>1, <2>1, <2>2
<1>9. ASSUME b \in Owners(p)
      PROVE  r \in Preferred(T, p.name, i)
  <2>1. r \in eligible /\ Matches(r, p.name) /\ \A c \in Clients(p) : ~Closer(c, b)
    BY <1>1, <1>5, <1>9
  <2>2. r.domain = b.domain /\ r.scoped = b.scoped /\ r.interface = b.interface
    BY DEF Represents
  <2>3. ASSUME NEW q \in eligible, Matches(q, p.name)
        PROVE  /\ Len(q.domain) \in Nat /\ Len(q.domain) <= Len(r.domain)
               /\ q.domain = <<>> <=> Len(q.domain) = 0
               /\ q.domain = <<>> /\ r.domain = <<>> /\ q.scoped => r.scoped
    <3>1. PICK c \in Clients(p) : Represents(q, c)
      BY <1>7, <2>3
    <3>2. c \in ToSet(config.entries) /\ q.domain = c.domain /\ q.scoped = c.scoped /\ q.interface = c.interface
      BY <3>1 DEF Clients, Represents
    <3>3. ~Closer(c, b)
      BY <2>1
    <3> QED
      BY <1>3, <2>2, <3>2, <3>3 DEF Closer
  <2>4. Len(r.domain) \in Nat /\ (r.domain = <<>> <=> Len(r.domain) = 0)
    BY <1>3, <2>2
  <2>5. CASE matching # {}
    <3>1. PICK q \in matching : TRUE
      BY <2>5
    <3>2. Len(q.domain) # 0 /\ Len(q.domain) \in Nat /\ Len(q.domain) <= Len(r.domain)
      BY <2>3
    <3>3. r.domain # <<>>
      BY <2>4, <3>2
    <3>4. r \in matching /\ \A x \in matching : Len(x.domain) <= Len(r.domain)
      BY <2>1, <2>3, <3>3
    <3> QED
      BY <1>2, <2>5, <3>4
  <2>6. CASE matching = {}
    <3>1. r \in default
      BY <2>1, <2>6
    <3>2. CASE ofInterface # {}
      <4>1. PICK q \in ofInterface : TRUE
        BY <3>2
      <4>2. q \in eligible /\ q.domain = <<>> /\ Matches(q, p.name) /\ q.scoped
        BY <1>4, <4>1
      <4>3. r.scoped
        BY <2>3, <3>1, <4>2
      <4>4. r \in ofInterface
        BY <3>1, <4>3 DEF Eligible
      <4> QED
        BY <1>2, <2>6, <3>2, <4>4
    <3>3. CASE ofInterface = {}
      BY <1>2, <2>6, <3>1, <3>3
    <3> QED
      BY <3>2, <3>3
  <2> QED
    BY <2>5, <2>6
<1> QED
  BY <1>8, <1>9 DEF i

(* Among some of these routes there is one with the longest domain.          *)
HasLongest(T) ==
    \A M \in SUBSET T : M # {} => \E r \in M : \A q \in M : Len(q.domain) <= Len(r.domain)

(* There is, for the domains are those of a list of blocks.                  *)
LEMMA LongestDomain ==
    ASSUME config \in Configurations, BlocksAreFine, NEW T, Stands(T)
    PROVE  HasLongest(T)
<1> SUFFICES ASSUME NEW M \in SUBSET T, M # {}
             PROVE  \E r \in M : \A q \in M : Len(q.domain) <= Len(r.domain)
  BY DEF HasLongest
<1>1. PICK N \in Nat : N = Len(config.entries) /\ DOMAIN config.entries = 1 .. N
  BY ConfigurationIsShaped
<1> DEFINE f == [n \in 1 .. N |-> Len(config.entries[n].domain)]
           P == {n \in 1 .. N : \E r \in M : Represents(r, config.entries[n])}
<1>2. \A n \in 1 .. N : config.entries[n] \in ToSet(config.entries)
  BY <1>1 DEF ToSet
<1>3. f \in [1 .. N -> Nat]
  BY <1>2 DEF BlocksAreFine
<1>4. ASSUME NEW r \in M
      PROVE  \E n \in P : Represents(r, config.entries[n])
  <2>1. PICK b \in ToSet(config.entries) : Represents(r, b)
    BY DEF Stands
  <2>2. PICK n \in 1 .. N : b = config.entries[n]
    BY <1>1, <2>1 DEF ToSet
  <2> QED
    BY <2>1, <2>2
<1>5. PICK r \in M : TRUE
  OBVIOUS
<1>6. P \in SUBSET (1 .. N) /\ P # {}
  BY <1>4, <1>5
<1> HIDE DEF f
<1>7. PICK n \in P : \A m \in P : f[m] <= f[n]
  <2> HIDE DEF P
  <2> QED
    BY <1>3, <1>6, LongestExists
<1>8. PICK q \in M : Represents(q, config.entries[n])
  OBVIOUS
<1>9. ASSUME NEW x \in M
      PROVE  Len(x.domain) <= Len(q.domain)
  <2>1. PICK m \in P : Represents(x, config.entries[m])
    BY <1>4
  <2>2. f[m] = Len(x.domain) /\ f[n] = Len(q.domain)
    BY <1>8, <2>1 DEF Represents, f
  <2> QED
    BY <1>7, <2>2
<1> QED
  BY <1>9

\* A name that is not refused is answered as if the others were not there.
LEMMA PreferredAmong ==
    ASSUME NEW A, NEW B, NEW name, NEW i, HasLongest(A \cup B),
           \A r \in A \cup B : Len(r.domain) \in Nat,
           Preferred(A \cup B, name, i) \cap B = {}
    PROVE  \A r \in A : r \in Preferred(A, name, i) <=> r \in Preferred(A \cup B, name, i)
<1> DEFINE eligible(T) == {r \in T : Eligible(r, i)}
           matching(T) == {r \in eligible(T) : r.domain # <<>> /\ Matches(r, name)}
           default(T) == {r \in eligible(T) : r.domain = <<>>}
           ofInterface(T) == {r \in default(T) : r.scoped /\ i # 0 /\ r.interface = i}
           T == A \cup B
<1>1. \A S, r : r \in Preferred(S, name, i) <=>
         IF matching(S) # {} THEN r \in matching(S) /\ \A q \in matching(S) : Len(q.domain) <= Len(r.domain)
         ELSE IF ofInterface(S) # {} THEN r \in ofInterface(S) ELSE r \in default(S)
  BY DEF Preferred
<1>2. /\ \A r \in A : (r \in matching(A) <=> r \in matching(T)) /\ (r \in default(A) <=> r \in default(T))
                      /\ (r \in ofInterface(A) <=> r \in ofInterface(T))
      /\ matching(T) \in SUBSET T /\ default(T) \in SUBSET T /\ ofInterface(T) \in SUBSET default(T)
      /\ matching(A) \in SUBSET A /\ default(A) \in SUBSET A /\ ofInterface(A) \in SUBSET default(A)
  OBVIOUS
<1>3. \A r \in T : Len(r.domain) \in Nat /\ (r \in Preferred(T, name, i) => r \in A)
  OBVIOUS
<1>4. \A S : (matching(S) = {} \/ \E x \in matching(S) : TRUE)
             /\ (ofInterface(S) = {} \/ \E x \in ofInterface(S) : TRUE)
  OBVIOUS
<1> HIDE DEF matching, default, ofInterface
<1>5. CASE matching(T) # {}
  <2>1. PICK l \in matching(T) : \A q \in matching(T) : Len(q.domain) <= Len(l.domain)
    BY <1>2, <1>5 DEF HasLongest
  <2>2. l \in A
    BY <1>1, <1>2, <1>3, <1>5, <2>1
  <2>3. matching(A) # {} /\ l \in matching(A)
    BY <1>2, <2>2
  <2>4. ASSUME NEW r \in A
        PROVE  r \in Preferred(A, name, i) <=> r \in Preferred(T, name, i)
    <3>1. r \in Preferred(A, name, i) <=>
             r \in matching(A) /\ \A q \in matching(A) : Len(q.domain) <= Len(r.domain)
      BY <1>1, <2>3
    <3>2. r \in Preferred(T, name, i) <=>
             r \in matching(T) /\ \A q \in matching(T) : Len(q.domain) <= Len(r.domain)
      BY <1>1, <1>5
    <3>3. \A x, y, z \in Nat : x <= y /\ y <= z => x <= z
      OBVIOUS
    <3>4. ASSUME r \in matching(A), \A q \in matching(A) : Len(q.domain) <= Len(r.domain),
                 NEW q \in matching(T)
          PROVE  Len(q.domain) <= Len(r.domain)
      <4>1. Len(q.domain) <= Len(l.domain) /\ Len(l.domain) <= Len(r.domain)
        BY <2>1, <2>3, <3>4
      <4>2. Len(q.domain) \in Nat /\ Len(l.domain) \in Nat /\ Len(r.domain) \in Nat
        BY <1>2, <1>3
      <4> QED
        BY <3>3, <4>1, <4>2
    <3> QED
      BY <1>2, <3>1, <3>2, <3>4
  <2> QED
    BY <2>4
<1>6. CASE matching(T) = {}
  <2>1. matching(A) = {}
    BY <1>2, <1>4, <1>6
  <2>2. CASE ofInterface(T) # {}
    <3>1. PICK x \in ofInterface(T) : TRUE
      BY <2>2
    <3>2. x \in Preferred(T, name, i)
      BY <1>1, <1>6, <2>2
    <3>3. x \in ofInterface(A)
      BY <1>2, <1>3, <3>2
    <3> QED
      BY <1>1, <1>2, <1>6, <2>1, <2>2, <3>3
  <2>3. CASE ofInterface(T) = {}
    <3>1. ofInterface(A) = {}
      BY <1>2, <1>4, <2>3
    <3> QED
      BY <1>1, <1>2, <1>6, <2>1, <2>3, <3>1
  <2> QED
    BY <2>2, <2>3
<1> QED
  BY <1>5, <1>6

\* What was read stands for what there is.
LEMMA BlocksStand ==
    ASSUME SystemTypeOK, config.platform = "darwin", BlocksRead(Len(config.entries))
    PROVE  /\ BlocksAreFine
           /\ Stands(ToSet(found.resolvers) \cup ToSet(found.unsupported))
<1> DEFINE N == Len(config.entries)
           R == found.resolvers
           U == found.unsupported
           T == ToSet(R) \cup ToSet(U)
<1>1. /\ config \in Configurations /\ N \in Nat /\ DOMAIN config.entries = 1 .. N
      /\ \A n \in 1 .. N : BlockShape(config.entries[n])
  BY ConfigurationIsShaped DEF SystemTypeOK, EntryShape
<1>2. /\ \A r \in ToSet(R) : \E m \in 1 .. Len(R) : r = R[m]
      /\ \A m \in 1 .. Len(R) : R[m] \in ToSet(R)
      /\ \A r \in ToSet(U) : \E m \in 1 .. Len(U) : r = U[m]
      /\ \A m \in 1 .. Len(U) : U[m] \in ToSet(U)
  <2>1. DOMAIN R = 1 .. Len(R) /\ DOMAIN U = 1 .. Len(U)
    <3>1. PICK S, Q, V, t : FoundIs(Q, V, t) /\ Q \in Seq(S) /\ V \in Seq(S)
      BY DEF SystemTypeOK
    <3>2. R = Q /\ U = V
      BY <3>1 DEF FoundIs
    <3> QED
      BY <3>1, <3>2
  <2> QED
    BY <2>1 DEF ToSet
<1>3. /\ \A b \in ToSet(config.entries) : \E n \in 1 .. N : b = config.entries[n]
      /\ \A n \in 1 .. N : config.entries[n] \in ToSet(config.entries)
  BY <1>1 DEF ToSet
<1>4. BlocksAreFine
  <2>1. ASSUME NEW n \in 1 .. N
        PROVE  LET c == config.entries[n] IN
               c.scoped \in BOOLEAN /\ (c.scoped => c.interface # 0) /\ Len(c.domain) \in Nat
               /\ (c.domain = <<>> <=> Len(c.domain) = 0)
    <3>1. BlockShape(config.entries[n]) /\ BlockAccepted(config.entries[n])
      BY <1>1 DEF BlocksRead
    <3>2. PICK d, S : d = config.entries[n].domain /\ d \in Seq(S)
      BY <3>1 DEF BlockShape
    <3>3. Len(d) \in Nat /\ (d = <<>> <=> Len(d) = 0)
      BY <3>2
    <3> QED
      BY <3>1, <3>2, <3>3 DEF BlockShape, BlockAccepted
  <2> QED
    BY <1>3, <2>1 DEF BlocksAreFine
<1>5. PICK en, pl : Tells(en, pl, R, Offered, N)
  BY DEF BlocksRead, Accounted
<1>6. ASSUME NEW m \in 1 .. Len(R)
      PROVE  \E n \in 1 .. N : Represents(R[m], config.entries[n]) /\ BlockEndpoints(config.entries[n]) # <<>>
  <2>1. en[m] \in 1 .. N /\ pl[m] \in 1 .. Len(Offered[en[m]]) /\ R[m] = Offered[en[m]][pl[m]]
    BY <1>5 DEF Tells
  <2>2. PICK n, k : n \in 1 .. N /\ R[m] = Offered[n][k] /\ k \in 1 .. Len(Offered[n])
    BY <2>1
  <2>3. Offered[n] = BlockOffers(config.entries[n], n) /\ BlockShape(config.entries[n])
    BY <1>1, <2>2, OfferedAre
  <2>4. Len(BlockEndpoints(config.entries[n])) \in Nat
    BY <2>3, BlockIsList
  <2>5. k \in 1 .. Len(BlockEndpoints(config.entries[n])) /\ Len(BlockEndpoints(config.entries[n])) # 0
    <3>1. PICK c \in Nat : c = Len(BlockEndpoints(config.entries[n]))
      BY <2>4
    <3>2. Len(Offered[n]) = c
      BY <2>3, <3>1 DEF BlockOffers
    <3>3. k \in 1 .. c /\ c # 0
      BY <2>2, <3>2
    <3> QED
      BY <3>1, <3>3
  <2>6. Represents(R[m], config.entries[n])
    BY <2>2, <2>3, <2>5 DEF BlockOffers, Represents, Resolver
  <2> QED
    BY <2>2, <2>3, <2>5, <2>6, BlockIsList
<1>7. ASSUME NEW m \in 1 .. Len(U)
      PROVE  \E n \in 1 .. N : Represents(U[m], config.entries[n]) /\ Configured(config.entries[n])
  <2>1. PICK n \in 1 .. N : Mute(config.entries[n]) /\ U[m] = MuteRoute(config.entries[n], n)
    BY DEF BlocksRead
  <2> QED
    BY <2>1 DEF Mute, MuteRoute, Represents, Resolver
<1>8. ASSUME NEW n \in 1 .. N, BlockEndpoints(config.entries[n]) # <<>>
      PROVE  \E m \in 1 .. Len(R) : Represents(R[m], config.entries[n])
  <2>1. Offered[n] = BlockOffers(config.entries[n], n) /\ BlockShape(config.entries[n])
    BY <1>1, OfferedAre
  <2>2. Len(BlockEndpoints(config.entries[n])) \in Nat \ {0}
    BY <1>8, <2>1, BlockIsList
  <2>3. 1 \in 1 .. Len(Offered[n]) /\ Len(Offered[n]) = Len(BlockEndpoints(config.entries[n]))
    BY <2>1, <2>2 DEF BlockOffers
  <2>4. FirstIn(Offered[n], 1)
    BY DEF FirstIn
  <2>5. PICK m \in 1 .. Len(R) : en[m] = n /\ pl[m] = 1
    BY <1>5, <2>3, <2>4 DEF Tells
  <2>6. R[m] = Offered[n][1]
    BY <1>5, <2>5 DEF Tells
  <2>7. Represents(R[m], config.entries[n])
    BY <2>1, <2>3, <2>6 DEF BlockOffers, Represents, Resolver
  <2> QED
    BY <2>7
<1>9. ASSUME NEW n \in 1 .. N, BlockEndpoints(config.entries[n]) = <<>>, Configured(config.entries[n])
      PROVE  \E m \in 1 .. Len(U) : Represents(U[m], config.entries[n])
  <2>1. Mute(config.entries[n])
    BY <1>1, <1>9, BlockIsList DEF Mute
  <2>2. PICK m \in 1 .. Len(U) : U[m] = MuteRoute(config.entries[n], n)
    BY <2>1 DEF BlocksRead
  <2> QED
    BY <2>2 DEF MuteRoute, Represents, Resolver
<1>10. ASSUME NEW r \in T
       PROVE  \E b \in ToSet(config.entries) : Represents(r, b) /\ (BlockEndpoints(b) # <<>> \/ Configured(b))
  <2>1. (\E m \in 1 .. Len(R) : r = R[m]) \/ (\E m \in 1 .. Len(U) : r = U[m])
    BY <1>2
  <2> QED
    BY <1>3, <1>6, <1>7, <2>1
<1>11. ASSUME NEW b \in ToSet(config.entries), BlockEndpoints(b) # <<>> \/ Configured(b)
       PROVE  \E r \in T : Represents(r, b)
  <2>1. PICK n \in 1 .. N : b = config.entries[n]
    BY <1>3
  <2>2. (\E m \in 1 .. Len(R) : Represents(R[m], b)) \/ (\E m \in 1 .. Len(U) : Represents(U[m], b))
    BY <1>8, <1>9, <1>11, <2>1
  <2> QED
    BY <1>2, <2>2
<1> QED
  BY <1>4, <1>10, <1>11 DEF Stands

(* scutil's order, an order before none.                                     *)
Lower(a, b) == a # <<>> /\ (b = <<>> \/ a[1] < b[1])

(* An order is none or one number.                                           *)
Short(q) == q = <<>> \/ \E o \in Nat : q = <<o>>

(* As the configuration has it.                                              *)
LEMMA OrderIsShort ==
    ASSUME NEW q \in Seq(Nat), Len(q) <= 1
    PROVE  Short(q)
<1>1. CASE Len(q) = 0
  BY <1>1 DEF Short
<1>2. CASE Len(q) = 1
  <2>1. PICK o \in Nat : o = q[1]
    BY <1>2
  <2>2. q = <<o>>
    BY <1>2, <2>1
  <2> QED
    BY <2>2 DEF Short
<1>3. PICK l \in Nat : l = Len(q) /\ l <= 1
  OBVIOUS
<1>4. l = 0 \/ l = 1
  BY <1>3
<1> QED
  BY <1>1, <1>2, <1>3, <1>4

(* The places of two servers with and without an order.                      *)
LEMMA PairAppended ==
    ASSUME NEW n \in Nat, NEW k \in Nat
    PROVE  /\ <<>> \o <<n, k>> = <<n, k>>
           /\ \A o \in Nat : <<o>> \o <<n, k>> = <<o, n, k>>
<1>1. <<n, k>> \in Seq(Nat) /\ Len(<<n, k>>) = 2 /\ <<n, k>>[1] = n /\ <<n, k>>[2] = k
  OBVIOUS
<1>2. <<>> \o <<n, k>> = <<n, k>>
  BY <1>1, ConcatEmptySeq
<1>3. ASSUME NEW o \in Nat
      PROVE  <<o>> \o <<n, k>> = <<o, n, k>>
  <2>1. <<o>> \in Seq(Nat) /\ Len(<<o>>) = 1 /\ <<o>>[1] = o
    OBVIOUS
  <2> DEFINE s == <<o>>
             t == <<n, k>>
  <2>2. s \in Seq(Nat) /\ t \in Seq(Nat) /\ Len(s) = 1 /\ Len(t) = 2 /\ s[1] = o /\ t[1] = n /\ t[2] = k
    BY <1>1, <2>1
  <2> HIDE DEF s, t
  <2>3. /\ s \o t \in Seq(Nat) /\ Len(s \o t) = Len(s) + Len(t)
        /\ \A i \in 1 .. Len(s) + Len(t) : (s \o t)[i] = IF i <= Len(s) THEN s[i] ELSE t[i - Len(s)]
    BY <2>2, ConcatProperties
  <2>4. Len(s) + Len(t) = 3
    BY <2>2
  <2> DEFINE u == s \o t
  <2>5. u \in Seq(Nat) /\ Len(u) = 3 /\ \A i \in 1 .. 3 : u[i] = IF i <= 1 THEN s[i] ELSE t[i - 1]
    BY <2>2, <2>3, <2>4
  <2> HIDE DEF u
  <2>6. u[1] = o /\ u[2] = n /\ u[3] = k
    <3>1. 2 - 1 = 1 /\ 3 - 1 = 2 /\ 1 \in 1 .. 3 /\ 2 \in 1 .. 3 /\ 3 \in 1 .. 3 /\ ~(2 <= 1) /\ ~(3 <= 1) /\ 1 <= 1
      OBVIOUS
    <3> QED
      BY <2>2, <2>5, <3>1
  <2>7. u = <<o, n, k>>
    <3>1. PICK w : w \in Seq(Nat) /\ w = <<o, n, k>>
      <4>1. <<o, n, k>> \in Seq(Nat)
        OBVIOUS
      <4> QED
        BY <4>1
    <3>2. Len(w) = 3 /\ w[1] = o /\ w[2] = n /\ w[3] = k
      BY <3>1
    <3>3. \A i \in 1 .. 3 : i = 1 \/ i = 2 \/ i = 3
      OBVIOUS
    <3>4. \A i \in 1 .. Len(u) : u[i] = w[i]
      BY <2>5, <2>6, <3>2, <3>3
    <3>5. u = w
      BY <2>5, <3>1, <3>2, <3>4, SeqEqual
    <3> QED
      BY <3>1, <3>5
  <2> QED
    BY <2>7 DEF s, t, u
<1> QED
  BY <1>2, <1>3

(* This order is total.                                                      *)
LEMMA LowerIsTotal ==
    /\ \A a, b : Short(a) /\ Short(b) => a = b \/ Lower(a, b) \/ Lower(b, a)
    /\ \A a, b, c : Short(a) /\ Short(b) /\ Short(c) /\ Lower(a, b) /\ Lower(b, c) => Lower(a, c)
    /\ \A a : Short(a) => ~Lower(a, a)
<1>1. \A o \in Nat : <<o>>[1] = o /\ <<o>> # <<>>
  OBVIOUS
<1>2. ASSUME NEW a, NEW b, Short(a), Short(b)
      PROVE  a = b \/ Lower(a, b) \/ Lower(b, a)
  <2>1. CASE a = <<>> \/ b = <<>>
    BY <2>1 DEF Lower
  <2>2. CASE a # <<>> /\ b # <<>>
    <3>1. PICK x \in Nat, y \in Nat : a = <<x>> /\ b = <<y>>
      BY <1>2, <2>2 DEF Short
    <3>2. x = y \/ x < y \/ y < x
      OBVIOUS
    <3> QED
      BY <1>1, <3>1, <3>2 DEF Lower
  <2> QED
    BY <2>1, <2>2
<1>3. ASSUME NEW a, NEW b, NEW c, Short(a), Short(b), Short(c), Lower(a, b), Lower(b, c)
      PROVE  Lower(a, c)
  <2>1. a # <<>> /\ b # <<>>
    BY <1>3 DEF Lower
  <2>2. CASE c = <<>>
    BY <2>1, <2>2 DEF Lower
  <2>3. CASE c # <<>>
    <3>1. PICK x \in Nat, y \in Nat, z \in Nat : a = <<x>> /\ b = <<y>> /\ c = <<z>>
      BY <1>3, <2>1, <2>3 DEF Short
    <3>2. x < y /\ y < z
      BY <1>1, <1>3, <3>1, <2>1, <2>3 DEF Lower
    <3>3. x < z
      BY <3>2
    <3> QED
      BY <1>1, <3>1, <3>3 DEF Lower
  <2> QED
    BY <2>2, <2>3
<1>4. ASSUME NEW a, Short(a)
      PROVE  ~Lower(a, a)
  <2>1. CASE a = <<>>
    BY <2>1 DEF Lower
  <2>2. CASE a # <<>>
    <3>1. PICK x \in Nat : a = <<x>>
      BY <1>4, <2>2 DEF Short
    <3>2. ~(x < x)
      OBVIOUS
    <3> QED
      BY <1>1, <3>1, <3>2 DEF Lower
  <2> QED
    BY <2>1, <2>2
<1> QED
  BY <1>2, <1>3, <1>4

(* A lower order, or the same and an earlier place, comes before.            *)
LEMMA PlacesAreOrdered ==
    ASSUME NEW a, NEW b, Short(a), Short(b),
           NEW n \in Nat, NEW k \in Nat, NEW x \in Nat, NEW y \in Nat,
           \/ a = b /\ (n < x \/ (n = x /\ k < y))
           \/ Lower(a, b)
    PROVE  Before(a \o <<n, k>>, b \o <<x, y>>)
<1>1. /\ <<>> \o <<n, k>> = <<n, k>> /\ <<>> \o <<x, y>> = <<x, y>>
      /\ \A o \in Nat : <<o>> \o <<n, k>> = <<o, n, k>> /\ <<o>> \o <<x, y>> = <<o, x, y>>
  BY PairAppended
<1>2. CASE a = <<>> /\ b = <<>>
  <2>1. n < x \/ (n = x /\ k < y)
    BY <1>2 DEF Lower
  <2>2. Before(<<n, k>>, <<x, y>>)
    <3>1. CASE n < x
      <4>1. 1 \in DOMAIN <<n, k>> /\ <<n, k>>[1] < <<x, y>>[1] /\ \A j \in 1 .. 1 - 1 : <<n, k>>[j] = <<x, y>>[j]
        BY <3>1
      <4> QED
        BY <4>1 DEF Before
    <3>2. CASE n = x /\ k < y
      <4>1. 2 \in DOMAIN <<n, k>> /\ <<n, k>>[2] < <<x, y>>[2]
        BY <3>2
      <4>2. \A j \in 1 .. 2 - 1 : <<n, k>>[j] = <<x, y>>[j]
        <5>1. \A j \in 1 .. 2 - 1 : j = 1
          OBVIOUS
        <5> QED
          BY <3>2, <5>1
      <4>3. Len(<<n, k>>) = Len(<<x, y>>)
        OBVIOUS
      <4> QED
        BY <4>1, <4>2, <4>3 DEF Before
    <3> QED
      BY <2>1, <3>1, <3>2
  <2> QED
    BY <1>1, <1>2, <2>2
<1>3. CASE a # <<>> /\ b = <<>>
  <2>1. PICK o \in Nat : a = <<o>>
    BY <1>3 DEF Short
  <2>2. Before(<<o, n, k>>, <<x, y>>)
    BY DEF Before
  <2> QED
    BY <1>1, <1>3, <2>1, <2>2
<1>4. CASE a # <<>> /\ b # <<>>
  <2>1. PICK o \in Nat, q \in Nat : a = <<o>> /\ b = <<q>>
    BY <1>4 DEF Short
  <2>2. o < q \/ (o = q /\ n < x) \/ (o = q /\ n = x /\ k < y)
    <3>1. <<o>>[1] = o /\ <<q>>[1] = q
      OBVIOUS
    <3> QED
      BY <1>4, <2>1, <3>1 DEF Lower
  <2> DEFINE s == <<o, n, k>>
             t == <<q, x, y>>
  <2>3. Before(s, t)
    <3>1. /\ Len(s) = Len(t) /\ 1 \in DOMAIN s /\ 2 \in DOMAIN s /\ 3 \in DOMAIN s
          /\ s[1] = o /\ s[2] = n /\ s[3] = k /\ t[1] = q /\ t[2] = x /\ t[3] = y
      OBVIOUS
    <3>2. /\ 1 .. 1 - 1 = {} /\ \A j \in 1 .. 2 - 1 : j = 1
          /\ \A j \in 1 .. 3 - 1 : j = 1 \/ j = 2
      OBVIOUS
    <3> HIDE DEF s, t
    <3>3. CASE o < q
      <4>1. s[1] < t[1] /\ \A j \in 1 .. 1 - 1 : s[j] = t[j]
        BY <3>1, <3>2, <3>3
      <4> QED
        BY <3>1, <4>1 DEF Before
    <3>4. CASE o = q /\ n < x
      <4>1. s[2] < t[2] /\ \A j \in 1 .. 2 - 1 : s[j] = t[j]
        BY <3>1, <3>2, <3>4
      <4> QED
        BY <3>1, <4>1 DEF Before
    <3>5. CASE o = q /\ n = x /\ k < y
      <4>1. s[3] < t[3] /\ \A j \in 1 .. 3 - 1 : s[j] = t[j]
        BY <3>1, <3>2, <3>5
      <4> QED
        BY <3>1, <4>1 DEF Before
    <3> QED
      BY <2>2, <3>3, <3>4, <3>5
  <2> QED
    BY <1>1, <2>1, <2>3
<1>5. CASE a = <<>> /\ b # <<>>
  BY <1>5 DEF Lower
<1> QED
  BY <1>2, <1>3, <1>4, <1>5

(* Resolver m is the k-th server of block n.                                 *)
OfBlock(m, n, k) ==
    /\ n \in 1 .. Len(config.entries) /\ k \in 1 .. Len(BlockEndpoints(config.entries[n]))
    /\ found.resolvers[m] = Resolver(BlockEndpoints(config.entries[n])[k], n - 1, config.entries[n],
                                     config.entries[n].interface, 0, 0)
    /\ BlockEndpoints(config.entries[n]) # <<>>

(* Each is of the block that offers it.                                      *)
LEMMA ResolverIsOfBlock ==
    ASSUME config \in Configurations, config.platform = "darwin", NEW en, NEW pl,
           Tells(en, pl, found.resolvers, Offered, Len(config.entries)),
           NEW m \in 1 .. Len(found.resolvers)
    PROVE  OfBlock(m, en[m], pl[m])
<1>1. /\ en[m] \in 1 .. Len(config.entries) /\ pl[m] \in 1 .. Len(Offered[en[m]])
      /\ found.resolvers[m] = Offered[en[m]][pl[m]]
  BY DEF Tells
<1>2. PICK n, k : n = en[m] /\ k = pl[m] /\ n \in 1 .. Len(config.entries)
                  /\ k \in 1 .. Len(Offered[n]) /\ found.resolvers[m] = Offered[n][k]
  BY <1>1
<1>3. Offered[n] = BlockOffers(config.entries[n], n) /\ BlockShape(config.entries[n])
  BY <1>2, ConfigurationIsShaped, OfferedAre DEF EntryShape
<1>4. PICK c \in Nat : c = Len(BlockEndpoints(config.entries[n]))
  BY <1>3, BlockIsList
<1>5. Len(Offered[n]) = c
  BY <1>3, <1>4 DEF BlockOffers
<1>6. k \in 1 .. c /\ c # 0
  BY <1>2, <1>5
<1>7. BlockEndpoints(config.entries[n]) # <<>>
  BY <1>3, <1>4, <1>6, BlockIsList
<1>8. found.resolvers[m] = Resolver(BlockEndpoints(config.entries[n])[k], n - 1, config.entries[n],
                                     config.entries[n].interface, 0, 0)
  BY <1>2, <1>3, <1>4, <1>6 DEF BlockOffers
<1> QED
  BY <1>2, <1>4, <1>6, <1>7, <1>8 DEF OfBlock

\* Of the resolvers that were read those of the owners are considered.
LEMMA OwnersAreConsidered ==
    ASSUME SystemTypeOK, config.platform = "darwin", BlocksRead(Len(config.entries)),
           NEW p, NEW S, p.name \in Seq(S), ~RefusedRoute(p.name, p.interface)
    PROVE  /\ \A b \in Owners(p) : BlockEndpoints(b) # <<>>
           /\ \A m \in 1 .. Len(found.resolvers) : \A n, k :
                 OfBlock(m, n, k) =>
                    (m \in ConsideredAt(p.name, p.interface) <=> config.entries[n] \in Owners(p))
<1> DEFINE R == found.resolvers
           A == ToSet(R)
           B == ToSet(found.unsupported)
           i == p.interface
<1>1. /\ config \in Configurations /\ DOMAIN config.entries = 1 .. Len(config.entries)
  BY ConfigurationIsShaped DEF SystemTypeOK
<1>2. BlocksAreFine /\ Stands(A \cup B)
  BY BlocksStand
<1>3. HasLongest(A \cup B)
  <2> HIDE DEF A, B
  <2> QED
    BY <1>1, <1>2, LongestDomain
<1>4. \A r \in A \cup B : Len(r.domain) \in Nat
  BY <1>2 DEF Stands, Represents, BlocksAreFine
<1>5. Preferred(A \cup B, p.name, i) \cap B = {}
  BY DEF RefusedRoute
<1>6. \A r \in A : r \in Preferred(A, p.name, i) <=> r \in Preferred(A \cup B, p.name, i)
  <2> HIDE DEF A, B, i
  <2> QED
    BY <1>3, <1>4, <1>5, PreferredAmong
<1>7. ASSUME NEW r \in A \cup B, NEW b \in ToSet(config.entries), Represents(r, b),
             BlockEndpoints(b) # <<>> \/ Configured(b)
      PROVE  r \in Preferred(A \cup B, p.name, i) <=> b \in Owners(p)
  <2> HIDE DEF A, B
  <2> QED
    BY <1>2, <1>7, PreferredOwns
<1>8. ASSUME NEW b \in Owners(p)
      PROVE  BlockEndpoints(b) # <<>>
  <2> SUFFICES ASSUME BlockEndpoints(b) = <<>>
               PROVE  FALSE
    OBVIOUS
  <2>1. b \in ToSet(config.entries) /\ Configured(b)
    BY DEF Owners
  <2>2. PICK n \in 1 .. Len(config.entries) : b = config.entries[n]
    BY <1>1, <2>1 DEF ToSet
  <2>3. Mute(b)
    BY <1>1, <2>1, <2>2, BlockIsList, ConfigurationIsShaped DEF Mute, EntryShape
  <2>4. PICK u \in 1 .. Len(found.unsupported) : found.unsupported[u] = MuteRoute(b, n)
    BY <2>2, <2>3 DEF BlocksRead
  <2>5. found.unsupported[u] \in B
    <3>1. DOMAIN found.unsupported = 1 .. Len(found.unsupported)
      <4>1. PICK T, Q, V, t : FoundIs(Q, V, t) /\ V \in Seq(T)
        BY DEF SystemTypeOK
      <4>2. found.unsupported = V
        BY <4>1 DEF FoundIs
      <4> QED
        BY <4>1, <4>2
    <3> QED
      BY <3>1 DEF ToSet
  <2>6. Represents(found.unsupported[u], b)
    BY <2>4 DEF MuteRoute, Represents, Resolver
  <2>7. found.unsupported[u] \in Preferred(A \cup B, p.name, i)
    BY <1>7, <2>1, <2>5, <2>6
  <2> QED
    BY <1>5, <2>5, <2>7
<1>9. ASSUME NEW m \in 1 .. Len(R), NEW n, NEW k, OfBlock(m, n, k)
      PROVE  m \in ConsideredAt(p.name, i) <=> config.entries[n] \in Owners(p)
  <2>1. DOMAIN R = 1 .. Len(R)
    BY ConsideredAreListed
  <2>2. R[m] \in A
    BY <2>1 DEF ToSet
  <2>3. m \in ConsideredAt(p.name, i) <=> R[m] \in Preferred(A, p.name, i)
    BY <2>1 DEF ConsideredAt
  <2>4. config.entries[n] \in ToSet(config.entries) /\ Represents(R[m], config.entries[n])
    BY <1>1, <1>9 DEF OfBlock, ToSet, Represents, Resolver
  <2>5. R[m] \in Preferred(A \cup B, p.name, i) <=> config.entries[n] \in Owners(p)
    BY <1>7, <1>9, <2>2, <2>4 DEF OfBlock
  <2> QED
    BY <1>6, <2>2, <2>3, <2>5
<1> QED
  BY <1>8, <1>9

-----------------------------------------------------------------------------
(* scutil: the servers of the owners in their order.                         *)

(* lessDarwin compares orders first, then the order of discovery.            *)
LEMMA DarwinIsTotal ==
    ASSUME config \in Configurations, config.platform = "darwin", NEW K \in SUBSET Nat,
           \A m \in K : \E n, k : OfBlock(m, n, k)
    PROVE  /\ TotalOn(K)
           /\ \A m, o \in K : Precedes(m, o) <=>
                 \/ Lower(found.resolvers[m].order, found.resolvers[o].order)
                 \/ found.resolvers[m].order = found.resolvers[o].order /\ m < o
<1> DEFINE ord(m) == found.resolvers[m].order
<1>1. \A m \in K : Short(ord(m)) /\ m \in Nat
  <2> TAKE m \in K
  <2>1. PICK n, k : OfBlock(m, n, k)
    OBVIOUS
  <2>2. ord(m) = config.entries[n].order /\ BlockShape(config.entries[n])
    BY <2>1, ConfigurationIsShaped DEF OfBlock, Resolver, EntryShape
  <2> QED
    BY <2>2, OrderIsShort DEF BlockShape
<1>2. \A m, o \in K : found.resolvers[m].group = found.resolvers[o].group => ord(m) = ord(o)
  <2> TAKE m \in K, o \in K
  <2> SUFFICES ASSUME found.resolvers[m].group = found.resolvers[o].group
               PROVE  ord(m) = ord(o)
    OBVIOUS
  <2>1. PICK n, k : OfBlock(m, n, k)
    OBVIOUS
  <2>2. PICK x, y : OfBlock(o, x, y)
    OBVIOUS
  <2>3. /\ ord(m) = config.entries[n].order /\ ord(o) = config.entries[x].order
        /\ n - 1 = x - 1 /\ n \in 1 .. Len(config.entries) /\ x \in 1 .. Len(config.entries)
    BY <2>1, <2>2 DEF OfBlock, Resolver
  <2>4. n = x
    BY <2>3
  <2> QED
    BY <2>3, <2>4
<1>3. ASSUME NEW m \in K, NEW o \in K
      PROVE  Precedes(m, o) <=> Lower(ord(m), ord(o)) \/ (ord(m) = ord(o) /\ m < o)
  <2>1. CASE ord(m) = ord(o)
    <3>1. Precedes(m, o) <=> m < o
      BY <2>1 DEF Precedes
    <3> QED
      BY <1>1, <2>1, <3>1, LowerIsTotal
  <2>2. CASE ord(m) # ord(o)
    <3>1. found.resolvers[m].group # found.resolvers[o].group
      BY <1>2, <2>2
    <3>2. Precedes(m, o) <=> Lower(ord(m), ord(o))
      BY <2>2, <3>1 DEF Precedes, Lower
    <3> QED
      BY <2>2, <3>2
  <2> QED
    BY <2>1, <2>2
<1> HIDE DEF ord
<1>4. ASSUME NEW y \in K, NEW z \in K
      PROVE  y = z \/ Precedes(y, z) \/ Precedes(z, y)
  <2>1. ord(y) = ord(z) \/ Lower(ord(y), ord(z)) \/ Lower(ord(z), ord(y))
    BY <1>1, LowerIsTotal
  <2>2. y = z \/ y < z \/ z < y
    BY <1>1
  <2> QED
    BY <1>3, <2>1, <2>2
<1>5. ASSUME NEW w \in K, NEW y \in K, NEW z \in K, Precedes(w, y), Precedes(y, z)
      PROVE  Precedes(w, z)
  <2>1. /\ Lower(ord(w), ord(y)) \/ (ord(w) = ord(y) /\ w < y)
        /\ Lower(ord(y), ord(z)) \/ (ord(y) = ord(z) /\ y < z)
    BY <1>3, <1>5
  <2>2. Lower(ord(w), ord(y)) /\ Lower(ord(y), ord(z)) => Lower(ord(w), ord(z))
    BY <1>1, LowerIsTotal
  <2>3. w < y /\ y < z => w < z
    BY <1>1
  <2>4. Lower(ord(w), ord(z)) \/ (ord(w) = ord(z) /\ w < z)
    BY <2>1, <2>2, <2>3
  <2> QED
    BY <1>3, <2>4
<1> QED
  BY <1>3, <1>4, <1>5 DEF TotalOn, ord

\* The k-th server of block n, and its place.
HasServer(n, k) ==
    n \in 1 .. Len(config.entries) /\ k \in 1 .. Len(BlockEndpoints(config.entries[n]))

(* Its place in the preference, and what it offers there.                    *)
PlaceIn(n, k) == config.entries[n].order \o <<n, k>>

BlockPlace(n, k) == [endpoint |-> BlockEndpoints(config.entries[n])[k], place |-> PlaceIn(n, k)]

(* Every resolver is a server of its block, and every server has a resolver. *)
LEMMA BlocksServe ==
    ASSUME config \in Configurations, config.platform = "darwin", NEW en, NEW pl,
           Tells(en, pl, found.resolvers, Offered, Len(config.entries))
    PROVE  /\ \A m, n, k : OfBlock(m, n, k) =>
                 /\ HasServer(n, k) /\ n \in Nat /\ k \in Nat
                 /\ EndpointOf(found.resolvers, m) = BlockEndpoints(config.entries[n])[k]
                 /\ found.resolvers[m].order = config.entries[n].order
                 /\ found.resolvers[m].interface = config.entries[n].interface
           /\ \A n, k : HasServer(n, k) =>
                 /\ n \in Nat /\ k \in Nat
                 /\ \E m \in 1 .. Len(found.resolvers) :
                       /\ en[m] = n /\ pl[m] <= k
                       /\ EndpointOf(found.resolvers, m) = BlockEndpoints(config.entries[n])[k]
<1>1. \A n, k : HasServer(n, k) => n \in Nat /\ k \in Nat /\ Len(BlockEndpoints(config.entries[n])) \in Nat
  <2> SUFFICES ASSUME NEW n, NEW k, HasServer(n, k)
               PROVE  n \in Nat /\ k \in Nat /\ Len(BlockEndpoints(config.entries[n])) \in Nat
    OBVIOUS
  <2>1. n \in 1 .. Len(config.entries) /\ Len(config.entries) \in Nat /\ BlockShape(config.entries[n])
    BY ConfigurationIsShaped DEF HasServer, EntryShape
  <2>2. Len(BlockEndpoints(config.entries[n])) \in Nat
    BY <2>1, BlockIsList
  <2> QED
    BY <2>1, <2>2 DEF HasServer
<1>2. ASSUME NEW m, NEW n, NEW k, OfBlock(m, n, k)
      PROVE  /\ HasServer(n, k)
             /\ EndpointOf(found.resolvers, m) = BlockEndpoints(config.entries[n])[k]
             /\ found.resolvers[m].order = config.entries[n].order
             /\ found.resolvers[m].interface = config.entries[n].interface
  BY <1>2 DEF OfBlock, HasServer, EndpointOf, Resolver
<1>3. ASSUME NEW n, NEW k, HasServer(n, k)
      PROVE  \E m \in 1 .. Len(found.resolvers) :
                /\ en[m] = n /\ pl[m] <= k
                /\ EndpointOf(found.resolvers, m) = BlockEndpoints(config.entries[n])[k]
  <2>1. n \in 1 .. Len(config.entries) /\ k \in 1 .. Len(BlockEndpoints(config.entries[n]))
    BY <1>3 DEF HasServer
  <2>2. Offered[n] = BlockOffers(config.entries[n], n)
    BY <2>1, OfferedAre
  <2>3. PICK c \in Nat : c = Len(BlockEndpoints(config.entries[n]))
    BY <1>1, <1>3
  <2>4. k \in 1 .. Len(Offered[n]) /\ Offered[n][k].endpoint = BlockEndpoints(config.entries[n])[k]
    BY <2>1, <2>2, <2>3 DEF BlockOffers, Resolver
  <2>5. \E m \in 1 .. Len(found.resolvers) :
           en[m] = n /\ pl[m] <= k /\ EndpointOf(found.resolvers, m) = Offered[n][k].endpoint
    BY <2>1, <2>4, OfferIsTold, SMTT(40)
  <2> QED
    BY <2>4, <2>5
<1> QED
  BY <1>1, <1>2, <1>3

\* What the owners offer.
LEMMA OwnersOffer ==
    ASSUME config \in Configurations, config.platform = "darwin", NEW p
    PROVE  /\ \A n, k : HasServer(n, k) /\ config.entries[n] \in Owners(p)
                            => BlockPlace(n, k) \in Offers(p)
           /\ \A o \in Offers(p) : \E n, k :
                 HasServer(n, k) /\ config.entries[n] \in Owners(p) /\ o = BlockPlace(n, k)
<1>1. DOMAIN config.entries = 1 .. Len(config.entries)
  BY ConfigurationIsShaped
<1>2. ASSUME NEW n \in 1 .. Len(config.entries)
      PROVE  BlockPlaces(n) = {BlockPlace(n, k) : k \in 1 .. Len(BlockEndpoints(config.entries[n]))}
  <2>1. DOMAIN BlockEndpoints(config.entries[n]) = 1 .. Len(BlockEndpoints(config.entries[n]))
    BY ConfigurationIsShaped, BlockIsList DEF EntryShape
  <2> QED
    BY <2>1 DEF BlockPlaces, BlockPlace, PlaceIn
<1>3. Offers(p) = UNION {BlockPlaces(n) : n \in {m \in 1 .. Len(config.entries) : config.entries[m] \in Owners(p)}}
  BY <1>1 DEF Offers
<1>4. ASSUME NEW n, NEW k, HasServer(n, k), config.entries[n] \in Owners(p)
      PROVE  BlockPlace(n, k) \in Offers(p)
  <2>1. n \in 1 .. Len(config.entries) /\ BlockPlace(n, k) \in BlockPlaces(n)
    BY <1>2, <1>4 DEF HasServer
  <2> QED
    BY <1>3, <1>4, <2>1
<1>5. ASSUME NEW o \in Offers(p)
      PROVE  \E n, k : HasServer(n, k) /\ config.entries[n] \in Owners(p) /\ o = BlockPlace(n, k)
  <2>1. PICK n \in 1 .. Len(config.entries) : config.entries[n] \in Owners(p) /\ o \in BlockPlaces(n)
    BY <1>3
  <2>2. PICK k \in 1 .. Len(BlockEndpoints(config.entries[n])) : o = BlockPlace(n, k)
    BY <1>2, <2>1
  <2> QED
    BY <2>1, <2>2 DEF HasServer
<1> QED
  BY <1>4, <1>5

(* scutil: the servers of the owners, at the best of their places.           *)
LEMMA DarwinIsOwed ==
    ASSUME SystemTypeOK, config.platform = "darwin", BlocksRead(Len(config.entries)),
           NEW p, NEW S, p.name \in Seq(S), ~RefusedRoute(p.name, p.interface), BindsTo(p),
           NEW s, OrderIs(p, s), Sifted(s, ConsideredAt(p.name, p.interface))
    PROVE  Owed(p)
<1> DEFINE R == found.resolvers
           N == Len(config.entries)
           K == ConsideredAt(p.name, p.interface)
           e(m) == EndpointOf(R, m)
           Own(n) == config.entries[n] \in Owners(p)
<1>1. /\ config \in Configurations /\ N \in Nat
      /\ \A n, k : HasServer(n, k) => DOMAIN BlockEndpoints(config.entries[n]) = 1 .. Len(BlockEndpoints(config.entries[n]))
  BY BlockIsList, ConfigurationIsShaped DEF SystemTypeOK, EntryShape, HasServer
<1>2. PICK en, pl : Tells(en, pl, R, Offered, N)
  BY DEF BlocksRead, Accounted
<1>3. \A m \in 1 .. Len(R) : OfBlock(m, en[m], pl[m])
  BY <1>1, <1>2, ResolverIsOfBlock
<1>4. /\ \A b \in Owners(p) : BlockEndpoints(b) # <<>>
      /\ \A m \in 1 .. Len(R) : m \in K <=> Own(en[m])
  BY <1>3, OwnersAreConsidered
<1>5. K \in SUBSET (1 .. Len(R)) /\ Len(R) \in Nat /\ K \in SUBSET Nat
  <2>1. K \in SUBSET (1 .. Len(R)) /\ Len(R) \in Nat
    BY ConsideredAreListed
  <2>2. 1 .. Len(R) \subseteq Nat
    BY <2>1
  <2> HIDE DEF K, R
  <2> QED
    BY <2>1, <2>2
<1> HIDE DEF K
\* A resolver is a server of its block, and a server of a block a resolver.
<1>6. ASSUME NEW m \in K
      PROVE  /\ HasServer(en[m], pl[m]) /\ en[m] \in Nat /\ pl[m] \in Nat /\ Own(en[m])
             /\ e(m) = BlockEndpoints(config.entries[en[m]])[pl[m]]
             /\ R[m].order = config.entries[en[m]].order
             /\ R[m].interface = config.entries[en[m]].interface
  <2>1. OfBlock(m, en[m], pl[m]) /\ Own(en[m])
    BY <1>3, <1>4, <1>5
  <2> HIDE DEF Own
  <2> QED
    BY <1>1, <1>2, <2>1, BlocksServe
<1>7. ASSUME NEW n, NEW k, HasServer(n, k), Own(n)
      PROVE  /\ n \in Nat /\ k \in Nat
             /\ \E m \in K : en[m] = n /\ pl[m] <= k /\ e(m) = BlockEndpoints(config.entries[n])[k]
  <2>1. /\ n \in Nat /\ k \in Nat
        /\ \E m \in 1 .. Len(R) : /\ en[m] = n /\ pl[m] <= k
                                 /\ e(m) = BlockEndpoints(config.entries[n])[k]
    BY <1>1, <1>2, <1>7, BlocksServe
  <2> QED
    BY <1>4, <1>7, <2>1
<1>8. /\ \A i \in 1 .. Len(s) : s[i] \in K
      /\ \A m \in K : \E i \in 1 .. Len(s) : e(s[i]) = e(m) /\ (TotalOn(K) => s[i] = m \/ Precedes(s[i], m))
      /\ \A i, j \in 1 .. Len(s) : i < j => e(s[i]) # e(s[j]) /\ (TotalOn(K) => Precedes(s[i], s[j]))
  BY DEF Sifted, K
<1>9. /\ TotalOn(K)
      /\ \A m, o \in K : Precedes(m, o) <=>
            Lower(R[m].order, R[o].order) \/ (R[m].order = R[o].order /\ m < o)
  <2>1. \A m \in K : \E n, k : OfBlock(m, n, k)
    BY <1>3, <1>5
  <2> QED
    BY <1>1, <1>5, <2>1, DarwinIsTotal
\* Where the servers of the owners stand.
<1>10. /\ \A n, k : HasServer(n, k) /\ Own(n) => BlockPlace(n, k) \in Offers(p)
       /\ \A o \in Offers(p) : \E n, k : HasServer(n, k) /\ Own(n) /\ o = BlockPlace(n, k)
       /\ \A n, k : /\ BlockPlace(n, k).endpoint = BlockEndpoints(config.entries[n])[k]
                   /\ BlockPlace(n, k).place = PlaceIn(n, k)
  BY <1>1, OwnersOffer DEF BlockPlace
<1>11. AsksItsOwners(p)
  <2>1. ASSUME NEW i \in 1 .. Len(s)
        PROVE  \E o \in Offers(p) : e(s[i]) = o.endpoint
    <3>1. PICK n, k : /\ n = en[s[i]] /\ k = pl[s[i]] /\ HasServer(n, k) /\ Own(n)
                      /\ e(s[i]) = BlockEndpoints(config.entries[n])[k]
      BY <1>6, <1>8
    <3> QED
      BY <1>10, <3>1
  <2>2. ASSUME NEW o \in Offers(p)
        PROVE  \E i \in 1 .. Len(s) : e(s[i]) = o.endpoint
    <3>1. PICK n, k : HasServer(n, k) /\ Own(n) /\ o.endpoint = BlockEndpoints(config.entries[n])[k]
      BY <1>10
    <3>2. PICK m \in K : e(m) = o.endpoint
      BY <1>7, <3>1
    <3> QED
      BY <1>8, <3>2
  <2>3. EndpointsOf(s) = {o.endpoint : o \in Offers(p)}
    BY <2>1, <2>2 DEF EndpointsOf
  <2>4. Asked(p) = EndpointsOf(s)
    BY OrderTells
  <2> QED
    BY <1>4, <2>3, <2>4 DEF AsksItsOwners, Asked
<1>12. DialsItsInterface(p)
  <2>1. ASSUME NEW i \in DOMAIN p.servers
        PROVE  \E b \in Owners(p) :
                  /\ EndpointAt(p, i) \in ToSet(BlockEndpoints(b))
                  /\ p.bound[i] = b.interface
                  /\ b.interface # 0 => EndpointAt(p, i).zone \in {"", b.name, ToString(b.interface)}
    <3>1. PICK m \in K : p.servers[i] = m
      <4>1. i \in 1 .. Len(s)
        BY DEF OrderIs
      <4>2. PICK j \in 1 .. Len(s) : p.servers[i] = s[j]
        BY <4>1 DEF OrderIs
      <4> QED
        BY <1>8, <4>2
    <3>2. EndpointAt(p, i) = e(m) /\ p.bound[i] = R[m].interface
      BY <3>1 DEF EndpointAt, EndpointOf, BindsTo, BindInterface
    <3>3. PICK b, k : b = config.entries[en[m]] /\ k = pl[m] /\ b \in Owners(p)
                      /\ k \in 1 .. Len(BlockEndpoints(b)) /\ e(m) = BlockEndpoints(b)[k]
                      /\ R[m].interface = b.interface
      BY <1>6 DEF HasServer
    <3>4. DOMAIN BlockEndpoints(b) = 1 .. Len(BlockEndpoints(b)) /\ BlockAccepted(b)
      BY <1>1, <1>6, <3>3 DEF BlocksRead, HasServer
    <3>5. e(m) \in ToSet(BlockEndpoints(b))
      BY <3>3, <3>4 DEF ToSet
    <3>6. b.interface # 0 => e(m).zone \in {"", b.name, ToString(b.interface)}
      <4>1. ZoneIsOfBlock(e(m), b)
        BY <3>3, <3>4 DEF BlockAccepted
      <4> QED
        BY <4>1 DEF ZoneIsOfBlock
    <3> QED
      BY <3>2, <3>3, <3>5, <3>6
  <2> QED
    BY <2>1 DEF DialsItsInterface
<1>13. KeepsOrder(p)
  <2> SUFFICES ASSUME NEW i \in 1 .. Len(s), NEW j \in 1 .. Len(s), i < j
               PROVE  \E a \in PlacesOf(p, e(s[i])) : \A b \in PlacesOf(p, e(s[j])) : Before(a, b)
    BY OrderTells
  <2> DEFINE x == s[i]
  <2>1. x \in K /\ s[j] \in K /\ Precedes(x, s[j])
    BY <1>8, <1>9
  <2>2. PlaceIn(en[x], pl[x]) \in PlacesOf(p, e(x))
    <3>1. PICK o \in Offers(p) : o.endpoint = e(x) /\ o.place = PlaceIn(en[x], pl[x])
      <4>1. PICK n, k : /\ n = en[x] /\ k = pl[x] /\ HasServer(n, k) /\ Own(n)
                        /\ e(x) = BlockEndpoints(config.entries[n])[k]
        BY <1>6, <2>1
      <4> QED
        BY <1>10, <4>1
    <3> QED
      BY <3>1 DEF PlacesOf
  <2>3. ASSUME NEW b \in PlacesOf(p, e(s[j]))
        PROVE  Before(PlaceIn(en[x], pl[x]), b)
    <3>1. PICK o \in Offers(p) : o.endpoint = e(s[j]) /\ b = o.place
      BY DEF PlacesOf
    <3>2. PICK n, k : /\ HasServer(n, k) /\ Own(n)
                      /\ e(s[j]) = BlockEndpoints(config.entries[n])[k]
                      /\ b = PlaceIn(n, k)
      BY <1>10, <3>1
    <3>3. PICK m \in K : en[m] = n /\ pl[m] <= k /\ e(m) = e(s[j])
      BY <1>7, <3>2
    <3>4. Precedes(x, m)
      <4>1. PICK h \in 1 .. Len(s) : e(s[h]) = e(m) /\ (s[h] = m \/ Precedes(s[h], m))
        BY <1>8, <1>9
      <4>2. h = j
        <5>1. Len(s) \in Nat
          BY DEF OrderIs
        <5>2. h = j \/ h < j \/ j < h
          BY <5>1
        <5> QED
          BY <1>8, <3>3, <4>1, <5>2
      <4> QED
        BY <1>9, <2>1, <4>1, <4>2 DEF TotalOn
    <3>5. \/ Lower(R[x].order, R[m].order)
          \/ R[x].order = R[m].order /\ x < m
      BY <1>9, <2>1, <3>4
    <3>6. /\ R[x].order = config.entries[en[x]].order /\ R[m].order = config.entries[n].order
          /\ x \in 1 .. Len(R) /\ m \in 1 .. Len(R) /\ en[x] \in Nat /\ n \in Nat
          /\ pl[x] \in Nat /\ pl[m] \in Nat /\ k \in Nat
          /\ en[x] \in 1 .. N /\ n \in 1 .. N
      BY <1>5, <1>6, <1>7, <2>1, <3>2, <3>3 DEF HasServer
    <3>7. x < m => en[x] < n \/ (en[x] = n /\ pl[x] < k)
      <4>1. x < m => en[x] < en[m] \/ (en[x] = en[m] /\ pl[x] < pl[m])
        BY <1>2, <3>6 DEF Tells
      <4>2. \A u, v, w \in Nat : u < v /\ v <= w => u < w
        OBVIOUS
      <4> QED
        BY <3>3, <3>6, <4>1, <4>2
    <3>8. Short(R[x].order) /\ Short(R[m].order)
      <4>1. BlockShape(config.entries[en[x]]) /\ BlockShape(config.entries[n])
        BY <1>1, <3>6, ConfigurationIsShaped DEF EntryShape
      <4> QED
        BY <3>6, <4>1, OrderIsShort DEF BlockShape
    <3>9. Before(R[x].order \o <<en[x], pl[x]>>, R[m].order \o <<n, k>>)
      <4>1. PICK a, c, u, v : a = R[x].order /\ c = R[m].order /\ u = en[x] /\ v = pl[x]
        OBVIOUS
      <4>2. /\ Short(a) /\ Short(c) /\ u \in Nat /\ v \in Nat /\ n \in Nat /\ k \in Nat
            /\ (a = c /\ (u < n \/ (u = n /\ v < k))) \/ Lower(a, c)
        BY <3>5, <3>6, <3>7, <3>8, <4>1
      <4>3. Before(a \o <<u, v>>, c \o <<n, k>>)
        BY <4>2, PlacesAreOrdered
      <4> QED
        BY <4>1, <4>3
    <3> QED
      BY <3>2, <3>6, <3>9 DEF PlaceIn
  <2> QED
    BY <2>2, <2>3
<1> QED
  BY <1>11, <1>12, <1>13 DEF Owed

-----------------------------------------------------------------------------
(* Windows: routes and adapters.                                             *)

(* Windows: the route that dials a server is the cheapest of the best.       *)
Way(address, r, a) ==
    /\ a \in UpAdapters /\ a.metric[address.family] \in Nat
    /\ InterfaceOf(a, address.family) = config.routes[r].interface

(* The metric of a route is that of the route and of its adapter.            *)
LEMMA RoutesCost ==
    ASSUME config \in Configurations, config.platform = "windows", MetricsAgree,
           NEW address, address.family \in {4, 6}, NEW i, RouteFound(address, i),
           NEW r \in LongestRoutes(address, i)
    PROVE  /\ r \in 1 .. Len(config.routes) /\ r \in Nat /\ RouteMetric(address, r) \in Nat
           /\ \E a : Way(address, r, a)
           /\ \A a \in UpAdapters : InterfaceOf(a, address.family) = config.routes[r].interface =>
                 Way(address, r, a) /\ RouteMetric(address, r) = config.routes[r].metric + a.metric[address.family]
<1> DEFINE f == address.family
           itf == config.routes[r].interface
<1>1. r \in 1 .. Len(config.routes) /\ r \in Nat /\ config.routes[r].metric \in Nat
  <2>1. /\ Len(config.routes) \in Nat /\ DOMAIN config.routes = 1 .. Len(config.routes)
        /\ \A q \in 1 .. Len(config.routes) : config.routes[q].metric \in Nat
    BY ConfigurationIsShaped
  <2>2. r \in DOMAIN config.routes
    BY DEF LongestRoutes
  <2> QED
    BY <2>1, <2>2
<1>2. \A a \in UpAdapters : a.metric[f] \in Nat
  <2> TAKE a \in UpAdapters
  <2>1. DOMAIN config.entries = 1 .. Len(config.entries)
    BY ConfigurationIsShaped
  <2>2. PICK n \in 1 .. Len(config.entries) : a = config.entries[n]
    BY <2>1 DEF UpAdapters, ToSet
  <2>3. AdapterShape(a)
    BY <2>2, ConfigurationIsShaped DEF EntryShape
  <2> QED
    BY <2>3 DEF AdapterShape
<1>3. InterfaceMetrics(f, itf) # {}
  BY DEF RouteFound
<1>4. PICK a \in UpAdapters : itf # 0 /\ InterfaceOf(a, f) = itf
  BY <1>3 DEF InterfaceMetrics
<1>5. ASSUME NEW b \in UpAdapters, InterfaceOf(b, f) = itf
      PROVE  /\ InterfaceMetrics(f, itf) = {b.metric[f]}
             /\ RouteMetric(address, r) = config.routes[r].metric + b.metric[f]
  <2>1. \A c \in UpAdapters : InterfaceOf(c, f) = itf => c.metric[f] = b.metric[f]
    BY <1>4, <1>5 DEF MetricsAgree
  <2>2. InterfaceMetrics(f, itf) = {b.metric[f]}
    BY <1>4, <1>5, <2>1 DEF InterfaceMetrics
  <2>3. (CHOOSE m \in InterfaceMetrics(f, itf) : TRUE) = b.metric[f]
    BY <2>2
  <2> QED
    BY <2>2, <2>3 DEF RouteMetric
<1>6. RouteMetric(address, r) \in Nat
  BY <1>1, <1>2, <1>4, <1>5
<1> QED
  BY <1>1, <1>2, <1>4, <1>5, <1>6 DEF Way

(* BestRoute is one of the longest and the cheapest of them.                 *)
LEMMA BestRouteIs ==
    ASSUME config \in Configurations, config.platform = "windows", MetricsAgree,
           NEW address, address.family \in {4, 6}, NEW i, RouteFound(address, i)
    PROVE  /\ BestRoute(address, i) \in LongestRoutes(address, i)
           /\ \A q \in LongestRoutes(address, i) :
                 RouteMetric(address, BestRoute(address, i)) <= RouteMetric(address, q)
<1> DEFINE L == LongestRoutes(address, i)
           cost(r) == RouteMetric(address, r)
           Costs == {cost(r) : r \in L}
<1>1. L # {} /\ \A r \in L : r \in Nat /\ cost(r) \in Nat
  <2>1. L # {}
    BY DEF RouteFound
  <2>2. ASSUME NEW r \in L
        PROVE  r \in Nat /\ cost(r) \in Nat
    BY RoutesCost
  <2> QED
    BY <2>1, <2>2
<1>2. Costs \in SUBSET Nat /\ Costs # {}
  BY <1>1
<1>3. PICK m \in Costs : \A x \in Costs : m <= x
  <2> HIDE DEF Costs
  <2> QED
    BY <1>2, LeastExists
<1> DEFINE Cheap == {r \in L : cost(r) = m}
<1>4. Cheap \in SUBSET Nat /\ Cheap # {}
  BY <1>1
<1>5. PICK r \in Cheap : \A q \in Cheap : r <= q
  <2> HIDE DEF Cheap
  <2> QED
    BY <1>4, LeastExists
<1>6. m \in Nat
  BY <1>2
<1>7. \A q \in L : m <= cost(q) /\ (cost(q) = m => r <= q)
  BY <1>3, <1>5
<1>8. r \in L /\ cost(r) = m
  OBVIOUS
<1> HIDE DEF L, cost, Cheap
<1>9. \A q \in L : cost(r) < cost(q) \/ (cost(r) = cost(q) /\ r <= q)
  <2> TAKE q \in L
  <2>1. cost(q) \in Nat /\ (m < cost(q) \/ m = cost(q))
    BY <1>1, <1>6, <1>7
  <2> QED
    BY <1>7, <1>8, <2>1
<1>10. /\ BestRoute(address, i) \in L
       /\ \A q \in L : \/ cost(BestRoute(address, i)) < cost(q)
                       \/ cost(BestRoute(address, i)) = cost(q) /\ BestRoute(address, i) <= q
  BY <1>8, <1>9 DEF BestRoute, L, cost
<1>11. \A x, y \in Nat : x < y \/ x = y => x <= y
  OBVIOUS
<1>12. \A q \in L : cost(BestRoute(address, i)) <= cost(q)
  BY <1>1, <1>10, <1>11
<1> QED
  BY <1>10, <1>12 DEF L, cost

(* What the configuration says it costs is what the route found costs.       *)
LEMMA CheapestIsBest ==
    ASSUME config \in Configurations, config.platform = "windows", MetricsAgree,
           NEW s, s.address.family \in {4, 6}, NEW a,
           RouteFound(s.address, InterfaceOf(a, s.address.family))
    PROVE  CheapestRoute(s, a)
             = RouteMetric(s.address, BestRoute(s.address, InterfaceOf(a, s.address.family)))
<1> DEFINE d == s.address
           f == s.address.family
           i == InterfaceOf(a, f)
           L == LongestRoutes(d, i)
           usable == {r \in ToSet(config.routes) :
                         d \in r.reaches /\ (d.class = "loopback" \/ r.interface = i)}
           longest == {r \in usable : \A q \in usable : q.bits <= r.bits}
           ways == {w \in longest \X UpAdapters : InterfaceOf(w[2], f) = w[1].interface}
           M == {way[1].metric + way[2].metric[f] : way \in ways}
           best == RouteMetric(d, BestRoute(d, i))
<1>1. CheapestRoute(s, a) = CHOOSE x \in M : \A y \in M : x <= y
  BY DEF CheapestRoute, Min
<1>2. /\ \A r \in longest : \E q \in L : r = config.routes[q]
      /\ \A q \in L : config.routes[q] \in longest
  <2>1. /\ \A r \in usable : \E q \in DOMAIN config.routes : r = config.routes[q]
        /\ \A q \in DOMAIN config.routes : config.routes[q] \in usable <=>
              d \in config.routes[q].reaches /\ (d.class = "loopback" \/ config.routes[q].interface = i)
    BY DEF ToSet
  <2>2. \A q : q \in L <=>
           /\ q \in DOMAIN config.routes /\ config.routes[q] \in usable
           /\ \A x \in DOMAIN config.routes :
                 config.routes[x] \in usable => config.routes[x].bits <= config.routes[q].bits
    BY <2>1 DEF LongestRoutes
  <2> HIDE DEF usable, L
  <2> QED
    BY <2>1, <2>2
<1>3. \A q \in L : /\ RouteMetric(d, q) \in Nat
                   /\ \E b \in UpAdapters : InterfaceOf(b, f) = config.routes[q].interface
                   /\ \A b \in UpAdapters : InterfaceOf(b, f) = config.routes[q].interface =>
                         RouteMetric(d, q) = config.routes[q].metric + b.metric[f]
  BY RoutesCost DEF Way
<1>4. /\ BestRoute(d, i) \in L
      /\ \A q \in L : best <= RouteMetric(d, q)
  BY BestRouteIs
<1> HIDE DEF longest, L
<1>5. \A x \in M : \E q \in L : x = RouteMetric(d, q)
  <2> TAKE x \in M
  <2>1. PICK way \in ways : x = way[1].metric + way[2].metric[f]
    OBVIOUS
  <2>2. PICK r \in longest, b \in UpAdapters : way = <<r, b>> /\ InterfaceOf(b, f) = r.interface
    BY <2>1
  <2>3. x = r.metric + b.metric[f]
    BY <2>1, <2>2
  <2>4. PICK q \in L : r = config.routes[q]
    BY <1>2
  <2> QED
    BY <1>3, <2>2, <2>3, <2>4
<1>6. \A q \in L : RouteMetric(d, q) \in M
  <2> TAKE q \in L
  <2>1. PICK b \in UpAdapters : InterfaceOf(b, f) = config.routes[q].interface
    BY <1>3
  <2>2. <<config.routes[q], b>> \in ways
    BY <1>2, <2>1
  <2>3. RouteMetric(d, q) = config.routes[q].metric + b.metric[f]
    BY <1>3, <2>1
  <2>4. RouteMetric(d, q) = <<config.routes[q], b>>[1].metric + <<config.routes[q], b>>[2].metric[f]
    BY <2>3
  <2> QED
    BY <2>2, <2>4
<1> HIDE DEF M
<1>7. best \in M /\ best \in Nat /\ \A y \in M : y \in Nat /\ best <= y
  BY <1>3, <1>4, <1>5, <1>6
<1> HIDE DEF best
<1>8. PICK c : c \in M /\ (\A y \in M : c <= y) /\ CheapestRoute(s, a) = c
  BY <1>1, <1>7
<1>9. c <= best /\ best <= c /\ c \in Nat
  BY <1>7, <1>8
<1>10. c = best
  BY <1>7, <1>9
<1> QED
  BY <1>8, <1>10 DEF best

(* Resolver m is the k-th server of adapter n.                               *)
OfAdapter(m, n, k) ==
    /\ n \in 1 .. Len(config.entries) /\ k \in 1 .. Len(RealServers(config.entries[n]))
    /\ config.entries[n].up
    /\ found.resolvers[m] = AdapterOffer(RealServers(config.entries[n])[k], config.entries[n], n)

(* Adapter n has a k-th server.                                              *)
AdapterHas(n, k) ==
    /\ n \in 1 .. Len(config.entries) /\ k \in 1 .. Len(RealServers(config.entries[n]))
    /\ config.entries[n].up

(* That server, its endpoint and its place in the preference.                *)
ServerOf(n, k) == RealServers(config.entries[n])[k]

ServerEndpoint(n, k) == AdapterEndpoint(ServerOf(n, k), config.entries[n])

AdapterPlace(n, k) ==
    [endpoint |-> ServerEndpoint(n, k),
     place |-> <<CheapestRoute(ServerOf(n, k), config.entries[n]), n, k>>]

\* The way an accepted server is reached.
Reached(n, k) ==
    /\ config.entries[n] \in UpAdapters /\ MetricsAgree
    /\ DOMAIN RealServers(config.entries[n]) = 1 .. Len(RealServers(config.entries[n]))
    /\ ServerOf(n, k).address.family \in {4, 6}
    /\ RouteFound(ServerOf(n, k).address,
                  InterfaceOf(config.entries[n], ServerOf(n, k).address.family))

(* As all of them are.                                                       *)
LEMMA AdapterServersAreReached ==
    ASSUME config \in Configurations, config.platform = "windows", AdaptersRead(Len(config.entries)),
           NEW n, NEW k, AdapterHas(n, k)
    PROVE  Reached(n, k) /\ n \in Nat /\ k \in Nat
<1> DEFINE a == config.entries[n]
<1>1. n \in 1 .. Len(config.entries) /\ k \in 1 .. Len(RealServers(a)) /\ a.up
  BY DEF AdapterHas
<1>2. /\ DOMAIN config.entries = 1 .. Len(config.entries) /\ Len(config.entries) \in Nat
      /\ AdapterShape(a)
  BY <1>1, ConfigurationIsShaped DEF EntryShape
<1>3. a \in UpAdapters
  BY <1>1, <1>2 DEF UpAdapters, ToSet
<1>4. /\ Len(RealServers(a)) \in Nat /\ DOMAIN RealServers(a) = 1 .. Len(RealServers(a))
      /\ \A j \in 1 .. Len(RealServers(a)) : RealServers(a)[j].address.family \in {4, 6}
  BY <1>2, AdapterIsList
<1>5. n \in Nat /\ k \in Nat /\ Len(RealServers(a)) > 0
  BY <1>1, <1>2, <1>4
<1>6. AdapterAccepted(a)
  BY <1>1 DEF AdaptersRead
<1>7. MetricsAgree /\ ServerAccepted(RealServers(a)[k], a)
  BY <1>1, <1>5, <1>6 DEF AdapterAccepted
<1>8. RouteFound(RealServers(a)[k].address, InterfaceOf(a, RealServers(a)[k].address.family))
  BY <1>7 DEF ServerAccepted
<1> QED
  BY <1>1, <1>3, <1>4, <1>5, <1>7, <1>8 DEF Reached, ServerOf

(* Every resolver is a server of its adapter, and every server has a resolver.*)
LEMMA AdaptersServe ==
    ASSUME config \in Configurations, config.platform = "windows", AdaptersRead(Len(config.entries)),
           NEW en, NEW pl, Tells(en, pl, found.resolvers, Offered, Len(config.entries))
    PROVE  /\ \A m \in 1 .. Len(found.resolvers) : OfAdapter(m, en[m], pl[m])
           /\ \A m, n, k : OfAdapter(m, n, k) =>
                 /\ AdapterHas(n, k) /\ EndpointOf(found.resolvers, m) = ServerEndpoint(n, k)
                 /\ found.resolvers[m].group = n - 1
                 /\ found.resolvers[m].metric = CheapestRoute(ServerOf(n, k), config.entries[n])
           /\ \A n, k : AdapterHas(n, k) =>
                 \E m \in 1 .. Len(found.resolvers) :
                    en[m] = n /\ pl[m] <= k /\ EndpointOf(found.resolvers, m) = ServerEndpoint(n, k)
<1>1. ASSUME NEW m \in 1 .. Len(found.resolvers)
      PROVE  OfAdapter(m, en[m], pl[m])
  <2>1. /\ en[m] \in 1 .. Len(config.entries) /\ pl[m] \in 1 .. Len(Offered[en[m]])
        /\ found.resolvers[m] = Offered[en[m]][pl[m]]
    BY DEF Tells
  <2>2. PICK n, k : n = en[m] /\ k = pl[m] /\ n \in 1 .. Len(config.entries)
                    /\ k \in 1 .. Len(Offered[n]) /\ found.resolvers[m] = Offered[n][k]
    BY <2>1
  <2>3. /\ Offered[n] = IF config.entries[n].up THEN AdapterOffers(config.entries[n], n) ELSE <<>>
        /\ AdapterShape(config.entries[n])
    BY <2>2, OfferedAre, ConfigurationIsShaped DEF EntryShape
  <2>4. config.entries[n].up
    <3> SUFFICES ASSUME ~config.entries[n].up PROVE FALSE
      OBVIOUS
    <3>1. Offered[n] = <<>>
      BY <2>3
    <3> QED
      BY <2>2, <3>1
  <2>5. PICK c \in Nat : c = Len(RealServers(config.entries[n]))
    BY <2>3, AdapterIsList
  <2>6. Len(Offered[n]) = c
    BY <2>3, <2>4, <2>5 DEF AdapterOffers
  <2>7. k \in 1 .. c
    BY <2>2, <2>6
  <2>8. found.resolvers[m] = AdapterOffer(RealServers(config.entries[n])[k], config.entries[n], n)
    BY <2>2, <2>3, <2>4, <2>5, <2>7 DEF AdapterOffers
  <2> QED
    BY <2>2, <2>4, <2>5, <2>7, <2>8 DEF OfAdapter
<1>2. ASSUME NEW m, NEW n, NEW k, OfAdapter(m, n, k)
      PROVE  /\ AdapterHas(n, k) /\ EndpointOf(found.resolvers, m) = ServerEndpoint(n, k)
             /\ found.resolvers[m].group = n - 1
             /\ found.resolvers[m].metric = CheapestRoute(ServerOf(n, k), config.entries[n])
  <2>1. AdapterHas(n, k)
    BY <1>2 DEF OfAdapter, AdapterHas
  <2>2. Reached(n, k)
    BY <2>1, AdapterServersAreReached
  <2>3. CheapestRoute(ServerOf(n, k), config.entries[n])
          = RouteMetric(ServerOf(n, k).address,
                        BestRoute(ServerOf(n, k).address,
                                  InterfaceOf(config.entries[n], ServerOf(n, k).address.family)))
    BY <2>2, CheapestIsBest DEF Reached
  <2> QED
    BY <1>2, <2>1, <2>3 DEF OfAdapter, AdapterOffer, Resolver, EndpointOf, ServerEndpoint, ServerOf
<1>3. ASSUME NEW n, NEW k, AdapterHas(n, k)
      PROVE  \E m \in 1 .. Len(found.resolvers) :
                en[m] = n /\ pl[m] <= k /\ EndpointOf(found.resolvers, m) = ServerEndpoint(n, k)
  <2>1. /\ n \in 1 .. Len(config.entries) /\ k \in 1 .. Len(RealServers(config.entries[n]))
        /\ config.entries[n].up
    BY <1>3 DEF AdapterHas
  <2>2. Offered[n] = AdapterOffers(config.entries[n], n) /\ AdapterShape(config.entries[n])
    BY <2>1, OfferedAre, ConfigurationIsShaped DEF EntryShape
  <2>3. PICK c \in Nat : c = Len(RealServers(config.entries[n]))
    BY <2>2, AdapterIsList
  <2>4. k \in 1 .. Len(Offered[n]) /\ Offered[n][k].endpoint = ServerEndpoint(n, k)
    <3>1. Offered[n] = [j \in 1 .. c |-> AdapterOffer(RealServers(config.entries[n])[j], config.entries[n], n)]
      BY <2>2, <2>3 DEF AdapterOffers
    <3>2. k \in 1 .. c /\ Len(Offered[n]) = c
      BY <2>1, <2>3, <3>1
    <3>3. Offered[n][k] = AdapterOffer(ServerOf(n, k), config.entries[n], n)
      BY <3>1, <3>2 DEF ServerOf
    <3> QED
      BY <3>2, <3>3 DEF AdapterOffer, Resolver, ServerEndpoint
  <2>5. \E m \in 1 .. Len(found.resolvers) :
           en[m] = n /\ pl[m] <= k /\ EndpointOf(found.resolvers, m) = Offered[n][k].endpoint
    BY <2>1, <2>4, OfferIsTold
  <2> QED
    BY <2>4, <2>5
<1> QED
  BY <1>1, <1>2, <1>3

(* What the adapters offer.                                                  *)
LEMMA AdaptersOffer ==
    ASSUME config \in Configurations, config.platform = "windows", NEW p
    PROVE  /\ \A n, k : AdapterHas(n, k) => AdapterPlace(n, k) \in Offers(p)
           /\ \A o \in Offers(p) : \E n, k : AdapterHas(n, k) /\ o = AdapterPlace(n, k)
<1>1. DOMAIN config.entries = 1 .. Len(config.entries)
  BY ConfigurationIsShaped
<1>2. ASSUME NEW n \in 1 .. Len(config.entries)
      PROVE  AdapterPlaces(n) = {AdapterPlace(n, k) : k \in 1 .. Len(RealServers(config.entries[n]))}
  <2>1. DOMAIN RealServers(config.entries[n]) = 1 .. Len(RealServers(config.entries[n]))
    BY ConfigurationIsShaped, AdapterIsList DEF EntryShape
  <2> QED
    BY <2>1 DEF AdapterPlaces, AdapterPlace, ServerEndpoint, ServerOf
<1>3. Offers(p) = UNION {AdapterPlaces(n) : n \in {m \in 1 .. Len(config.entries) : config.entries[m].up}}
  BY <1>1 DEF Offers
<1>4. ASSUME NEW n, NEW k, AdapterHas(n, k)
      PROVE  AdapterPlace(n, k) \in Offers(p)
  <2>1. n \in 1 .. Len(config.entries) /\ config.entries[n].up /\ AdapterPlace(n, k) \in AdapterPlaces(n)
    BY <1>2, <1>4 DEF AdapterHas
  <2> QED
    BY <1>3, <2>1
<1>5. ASSUME NEW o \in Offers(p)
      PROVE  \E n, k : AdapterHas(n, k) /\ o = AdapterPlace(n, k)
  <2>1. PICK n \in 1 .. Len(config.entries) : config.entries[n].up /\ o \in AdapterPlaces(n)
    BY <1>3
  <2>2. PICK k \in 1 .. Len(RealServers(config.entries[n])) : o = AdapterPlace(n, k)
    BY <1>2, <2>1
  <2> QED
    BY <2>1, <2>2 DEF AdapterHas
<1> QED
  BY <1>4, <1>5

(* lessWindows compares metrics first, then the order of discovery, if every *)
(* adapter has one metric for all its servers.                               *)
LEMMA WindowsIsTotal ==
    ASSUME config.platform = "windows", NEW K \in SUBSET Nat,
           \A m \in K : found.resolvers[m].metric \in Nat,
           \A m, o \in K : found.resolvers[m].group = found.resolvers[o].group =>
               found.resolvers[m].metric = found.resolvers[o].metric
    PROVE  /\ TotalOn(K)
           /\ \A m, o \in K : Precedes(m, o) <=>
                 \/ found.resolvers[m].metric < found.resolvers[o].metric
                 \/ found.resolvers[m].metric = found.resolvers[o].metric /\ m < o
<1> DEFINE cost(m) == found.resolvers[m].metric
<1>1. \A m \in K : cost(m) \in Nat /\ m \in Nat
  OBVIOUS
<1>2. ASSUME NEW m \in K, NEW o \in K
      PROVE  Precedes(m, o) <=> cost(m) < cost(o) \/ (cost(m) = cost(o) /\ m < o)
  <2>1. CASE cost(m) = cost(o)
    <3>1. Precedes(m, o) <=> m < o
      BY <2>1 DEF Precedes
    <3>2. ~(cost(m) < cost(o))
      BY <1>1, <2>1
    <3> QED
      BY <2>1, <3>1, <3>2
  <2>2. CASE cost(m) # cost(o)
    <3>1. found.resolvers[m].group # found.resolvers[o].group
      BY <2>2
    <3>2. Precedes(m, o) <=> cost(m) < cost(o)
      BY <2>2, <3>1 DEF Precedes
    <3> QED
      BY <2>2, <3>2
  <2> QED
    BY <2>1, <2>2
<1>3. \A a, b, c \in Nat : (a = b \/ a < b \/ b < a) /\ (a < b /\ b < c => a < c)
  OBVIOUS
<1> HIDE DEF cost
<1>4. ASSUME NEW y \in K, NEW z \in K
      PROVE  y = z \/ Precedes(y, z) \/ Precedes(z, y)
  <2>1. cost(y) = cost(z) \/ cost(y) < cost(z) \/ cost(z) < cost(y)
    BY <1>1, <1>3
  <2>2. y = z \/ y < z \/ z < y
    BY <1>1, <1>3
  <2> QED
    BY <1>2, <2>1, <2>2
<1>5. ASSUME NEW w \in K, NEW y \in K, NEW z \in K, Precedes(w, y), Precedes(y, z)
      PROVE  Precedes(w, z)
  <2>1. /\ cost(w) < cost(y) \/ (cost(w) = cost(y) /\ w < y)
        /\ cost(y) < cost(z) \/ (cost(y) = cost(z) /\ y < z)
    BY <1>2, <1>5
  <2>2. cost(w) < cost(y) /\ cost(y) < cost(z) => cost(w) < cost(z)
    BY <1>1, <1>3
  <2>3. w < y /\ y < z => w < z
    BY <1>1, <1>3
  <2>4. cost(w) < cost(z) \/ (cost(w) = cost(z) /\ w < z)
    BY <2>1, <2>2, <2>3
  <2> QED
    BY <1>2, <2>4
<1> QED
  BY <1>2, <1>4, <1>5 DEF TotalOn, cost

(* A lower cost, or the same and an earlier place, comes before.             *)
LEMMA CostsAreOrdered ==
    ASSUME NEW c \in Nat, NEW n \in Nat, NEW k \in Nat, NEW d \in Nat, NEW x \in Nat, NEW y \in Nat,
           c < d \/ (c = d /\ n < x) \/ (c = d /\ n = x /\ k < y)
    PROVE  Before(<<c, n, k>>, <<d, x, y>>)
<1> DEFINE s == <<c, n, k>>
           t == <<d, x, y>>
<1>1. /\ Len(s) = Len(t) /\ 1 \in DOMAIN s /\ 2 \in DOMAIN s /\ 3 \in DOMAIN s
      /\ s[1] = c /\ s[2] = n /\ s[3] = k /\ t[1] = d /\ t[2] = x /\ t[3] = y
  OBVIOUS
<1>2. /\ 1 .. 1 - 1 = {} /\ \A j \in 1 .. 2 - 1 : j = 1
      /\ \A j \in 1 .. 3 - 1 : j = 1 \/ j = 2
  OBVIOUS
<1> HIDE DEF s, t
<1>3. CASE c < d
  <2>1. s[1] < t[1] /\ \A j \in 1 .. 1 - 1 : s[j] = t[j]
    BY <1>1, <1>2, <1>3
  <2> QED
    BY <1>1, <2>1 DEF Before, s, t
<1>4. CASE c = d /\ n < x
  <2>1. s[2] < t[2] /\ \A j \in 1 .. 2 - 1 : s[j] = t[j]
    BY <1>1, <1>2, <1>4
  <2>2. Before(s, t)
    BY <1>1, <2>1 DEF Before
  <2> QED
    BY <2>2 DEF s, t
<1>5. CASE c = d /\ n = x /\ k < y
  <2>1. s[3] < t[3] /\ \A j \in 1 .. 3 - 1 : s[j] = t[j]
    BY <1>1, <1>2, <1>5
  <2>2. Before(s, t)
    BY <1>1, <2>1 DEF Before
  <2> QED
    BY <2>2 DEF s, t
<1> QED
  BY <1>3, <1>4, <1>5

(* Windows: all servers of the adapters, at the best of their places.        *)
LEMMA WindowsIsOwed ==
    ASSUME SystemTypeOK, config.platform = "windows", AdaptersRead(Len(config.entries)),
           NEW p, BindsTo(p), NEW s, OrderIs(p, s), Sifted(s, ConsideredAt(p.name, p.interface))
    PROVE  Owed(p)
<1> DEFINE R == found.resolvers
           N == Len(config.entries)
           K == ConsideredAt(p.name, p.interface)
           e(m) == EndpointOf(R, m)
           cost(n, k) == CheapestRoute(ServerOf(n, k), config.entries[n])
<1>1. config \in Configurations
  BY DEF SystemTypeOK
<1>2. PICK en, pl : Tells(en, pl, R, Offered, N)
  BY DEF AdaptersRead, Accounted
<1>3. K = 1 .. Len(R) /\ Len(R) \in Nat /\ DOMAIN R = 1 .. Len(R) /\ K \in SUBSET Nat
  <2>1. Len(R) \in Nat /\ DOMAIN R = 1 .. Len(R)
    BY ConsideredAreListed
  <2>2. K = 1 .. Len(R)
    BY <2>1 DEF ConsideredAt
  <2> HIDE DEF K
  <2> QED
    BY <2>1, <2>2
<1> HIDE DEF K
<1>4. ASSUME NEW n, NEW k, AdapterHas(n, k)
      PROVE  /\ Reached(n, k) /\ n \in Nat /\ k \in Nat /\ cost(n, k) \in Nat
             /\ ServerEndpoint(n, k).address = ServerOf(n, k).address
  <2>1. Reached(n, k) /\ n \in Nat /\ k \in Nat
    BY <1>1, <1>4, AdapterServersAreReached
  <2> DEFINE d == ServerOf(n, k).address
             i == InterfaceOf(config.entries[n], d.family)
  <2>2. d.family \in {4, 6} /\ MetricsAgree /\ RouteFound(d, i)
    BY <2>1 DEF Reached
  <2>3. cost(n, k) = RouteMetric(d, BestRoute(d, i))
    BY <1>1, <2>2, CheapestIsBest
  <2>4. BestRoute(d, i) \in LongestRoutes(d, i)
    BY <1>1, <2>2, BestRouteIs
  <2>5. RouteMetric(d, BestRoute(d, i)) \in Nat
    BY <1>1, <2>2, <2>4, RoutesCost
  <2>6. ServerEndpoint(n, k).address = d
    BY DEF ServerEndpoint, AdapterEndpoint, ParsedEndpoint
  <2> QED
    BY <2>1, <2>3, <2>5, <2>6
<1> HIDE DEF cost
<1>5. ASSUME NEW m \in K
      PROVE  /\ OfAdapter(m, en[m], pl[m]) /\ AdapterHas(en[m], pl[m]) /\ en[m] \in Nat /\ pl[m] \in Nat
             /\ e(m) = ServerEndpoint(en[m], pl[m])
             /\ R[m].metric = cost(en[m], pl[m]) /\ R[m].metric \in Nat
  <2>1. OfAdapter(m, en[m], pl[m])
    BY <1>1, <1>2, <1>3, AdaptersServe
  <2>2. /\ AdapterHas(en[m], pl[m]) /\ e(m) = ServerEndpoint(en[m], pl[m])
        /\ R[m].metric = cost(en[m], pl[m])
    BY <1>1, <1>2, <2>1, AdaptersServe DEF cost
  <2> QED
    BY <1>4, <2>1, <2>2
<1>6. ASSUME NEW n, NEW k, AdapterHas(n, k)
      PROVE  \E m \in K : en[m] = n /\ pl[m] <= k /\ e(m) = ServerEndpoint(n, k)
  BY <1>1, <1>2, <1>3, <1>6, AdaptersServe
<1>7. /\ \A i \in 1 .. Len(s) : s[i] \in K
      /\ \A m \in K : \E i \in 1 .. Len(s) : e(s[i]) = e(m) /\ (TotalOn(K) => s[i] = m \/ Precedes(s[i], m))
      /\ \A i, j \in 1 .. Len(s) : i < j => e(s[i]) # e(s[j]) /\ (TotalOn(K) => Precedes(s[i], s[j]))
  BY DEF Sifted, K
<1>8. /\ \A n, k : AdapterHas(n, k) => AdapterPlace(n, k) \in Offers(p)
      /\ \A o \in Offers(p) : \E n, k : AdapterHas(n, k) /\ o = AdapterPlace(n, k)
      /\ \A n, k : /\ AdapterPlace(n, k).endpoint = ServerEndpoint(n, k)
                   /\ AdapterPlace(n, k).place = <<cost(n, k), n, k>>
  BY <1>1, AdaptersOffer DEF AdapterPlace, cost
<1>9. AsksItsOwners(p)
  <2>1. ASSUME NEW i \in 1 .. Len(s)
        PROVE  \E o \in Offers(p) : e(s[i]) = o.endpoint
    <3>1. PICK n, k : AdapterHas(n, k) /\ e(s[i]) = ServerEndpoint(n, k)
      BY <1>5, <1>7
    <3> QED
      BY <1>8, <3>1
  <2>2. ASSUME NEW o \in Offers(p)
        PROVE  \E i \in 1 .. Len(s) : e(s[i]) = o.endpoint
    <3>1. PICK n, k : AdapterHas(n, k) /\ o.endpoint = ServerEndpoint(n, k)
      BY <1>8
    <3>2. PICK m \in K : e(m) = o.endpoint
      BY <1>6, <3>1
    <3> QED
      BY <1>7, <3>2
  <2>3. EndpointsOf(s) = {o.endpoint : o \in Offers(p)}
    BY <2>1, <2>2 DEF EndpointsOf
  <2>4. Asked(p) = EndpointsOf(s)
    BY OrderTells
  <2> QED
    BY <2>3, <2>4 DEF AsksItsOwners, Asked
<1>10. DialsItsInterface(p)
  <2>1. ASSUME NEW i \in DOMAIN p.servers
        PROVE  RouteLeadsTo(EndpointAt(p, i).address, p.bound[i])
    <3>1. PICK m \in K : p.servers[i] = m
      <4>1. i \in 1 .. Len(s)
        BY DEF OrderIs
      <4>2. PICK j \in 1 .. Len(s) : p.servers[i] = s[j]
        BY <4>1 DEF OrderIs
      <4> QED
        BY <1>7, <4>2
    <3>2. EndpointAt(p, i) = e(m) /\ p.bound[i] = R[m].route
      BY <3>1 DEF EndpointAt, EndpointOf, BindsTo, BindInterface
    <3>3. PICK n, k : OfAdapter(m, n, k) /\ AdapterHas(n, k) /\ e(m) = ServerEndpoint(n, k)
      BY <1>5
    <3> DEFINE a == config.entries[n]
               d == ServerOf(n, k).address
               itf == InterfaceOf(a, d.family)
               r == BestRoute(d, itf)
    <3>4. e(m).address = d /\ R[m].route = config.routes[r].interface
      BY <1>4, <3>3 DEF OfAdapter, AdapterOffer, Resolver, ServerOf
    <3>5. /\ a \in UpAdapters /\ d.family \in {4, 6} /\ MetricsAgree /\ RouteFound(d, itf)
          /\ DOMAIN RealServers(a) = 1 .. Len(RealServers(a))
      BY <1>4, <3>3 DEF Reached
    <3>6. r \in LongestRoutes(d, itf)
      BY <1>1, <3>5, BestRouteIs
    <3>7. /\ config.routes[r] \in ToSet(config.routes) /\ d \in config.routes[r].reaches
          /\ d.class = "loopback" \/ config.routes[r].interface = itf
      BY <3>6 DEF LongestRoutes, ToSet
    <3>8. d.class = "loopback" => config.routes[r].loopback
      BY <3>5 DEF RouteFound
    <3>9. ServerOf(n, k) \in ToSet(RealServers(a))
      BY <3>3, <3>5 DEF AdapterHas, ServerOf, ToSet
    <3>10. RouteLeadsTo(d, config.routes[r].interface)
      BY <3>5, <3>7, <3>8, <3>9 DEF RouteLeadsTo
    <3> QED
      BY <3>2, <3>4, <3>10
  <2> QED
    BY <2>1 DEF DialsItsInterface
<1>11. ASSUME AdaptersAreUniform
       PROVE  KeepsOrder(p)
  <2>1. /\ TotalOn(K)
        /\ \A m, o \in K : Precedes(m, o) <=>
              R[m].metric < R[o].metric \/ (R[m].metric = R[o].metric /\ m < o)
    <3>1. \A m, o \in K : R[m].group = R[o].group => R[m].metric = R[o].metric
      BY <1>3, <1>11 DEF AdaptersAreUniform
    <3> QED
      BY <1>3, <1>5, <3>1, WindowsIsTotal
  <2> SUFFICES ASSUME NEW i \in 1 .. Len(s), NEW j \in 1 .. Len(s), i < j
               PROVE  \E a \in PlacesOf(p, e(s[i])) : \A b \in PlacesOf(p, e(s[j])) : Before(a, b)
    BY OrderTells
  <2> DEFINE x == s[i]
  <2>2. x \in K /\ s[j] \in K /\ Precedes(x, s[j])
    BY <1>7, <2>1
  <2>3. <<cost(en[x], pl[x]), en[x], pl[x]>> \in PlacesOf(p, e(x))
    <3>1. PICK n, k : n = en[x] /\ k = pl[x] /\ AdapterHas(n, k) /\ e(x) = ServerEndpoint(n, k)
      BY <1>5, <2>2
    <3>2. AdapterPlace(n, k) \in Offers(p) /\ AdapterPlace(n, k).endpoint = e(x)
      BY <1>8, <3>1
    <3>3. AdapterPlace(n, k).place \in PlacesOf(p, e(x))
      BY <3>2 DEF PlacesOf
    <3> QED
      BY <1>8, <3>1, <3>3
  <2>4. ASSUME NEW b \in PlacesOf(p, e(s[j]))
        PROVE  Before(<<cost(en[x], pl[x]), en[x], pl[x]>>, b)
    <3>1. PICK o \in Offers(p) : o.endpoint = e(s[j]) /\ b = o.place
      BY DEF PlacesOf
    <3>2. PICK n, k : AdapterHas(n, k) /\ e(s[j]) = ServerEndpoint(n, k) /\ b = AdapterPlace(n, k).place
      BY <1>8, <3>1
    <3>3. PICK m \in K : en[m] = n /\ pl[m] <= k /\ e(m) = e(s[j])
      BY <1>6, <3>2
    <3>4. Precedes(x, m)
      <4>1. PICK h \in 1 .. Len(s) : e(s[h]) = e(m) /\ (s[h] = m \/ Precedes(s[h], m))
        BY <1>7, <2>1
      <4>2. h = j
        <5>1. Len(s) \in Nat
          BY DEF OrderIs
        <5>2. h = j \/ h < j \/ j < h
          BY <5>1
        <5> QED
          BY <1>7, <3>3, <4>1, <5>2
      <4> QED
        BY <2>1, <2>2, <4>1, <4>2 DEF TotalOn
    \* The same endpoint of the same adapter costs the same.
    <3>5. R[m].metric = cost(n, k)
      <4>1. R[m].metric = cost(n, pl[m]) /\ AdapterHas(n, pl[m]) /\ ServerEndpoint(n, pl[m]) = ServerEndpoint(n, k)
        BY <1>5, <3>2, <3>3
      <4>2. ServerOf(n, pl[m]).address = ServerOf(n, k).address
        BY <1>4, <3>2, <4>1
      <4>3. cost(n, pl[m]) = cost(n, k)
        BY <4>2 DEF cost, CheapestRoute
      <4> QED
        BY <4>1, <4>3
    <3>6. /\ x \in 1 .. Len(R) /\ m \in 1 .. Len(R) /\ n \in Nat /\ k \in Nat /\ cost(n, k) \in Nat
          /\ en[x] \in Nat /\ pl[x] \in Nat /\ pl[m] \in Nat
          /\ R[x].metric = cost(en[x], pl[x]) /\ R[x].metric \in Nat
      BY <1>3, <1>4, <1>5, <2>2, <3>2
    <3>7. x < m => en[x] < n \/ (en[x] = n /\ pl[x] < k)
      <4>1. x < m => en[x] < en[m] \/ (en[x] = en[m] /\ pl[x] < pl[m])
        BY <1>2, <3>6 DEF Tells
      <4>2. \A u, v, w \in Nat : u < v /\ v <= w => u < w
        OBVIOUS
      <4> QED
        BY <3>3, <3>6, <4>1, <4>2
    <3>8. R[x].metric < cost(n, k) \/ (R[x].metric = cost(n, k) /\ x < m)
      BY <2>1, <2>2, <3>4, <3>5
    <3>9. Before(<<cost(en[x], pl[x]), en[x], pl[x]>>, <<cost(n, k), n, k>>)
      <4>1. PICK c, d, u, v : c = cost(en[x], pl[x]) /\ d = cost(n, k) /\ u = en[x] /\ v = pl[x]
        OBVIOUS
      <4>2. /\ c \in Nat /\ d \in Nat /\ u \in Nat /\ v \in Nat /\ n \in Nat /\ k \in Nat
            /\ c < d \/ (c = d /\ u < n) \/ (c = d /\ u = n /\ v < k)
        BY <3>6, <3>7, <3>8, <4>1
      <4>3. Before(<<c, u, v>>, <<d, n, k>>)
        BY <4>2, CostsAreOrdered
      <4> QED
        BY <4>1, <4>3
    <3> QED
      BY <1>8, <3>2, <3>9
  <2> QED
    BY <2>3, <2>4
<1> QED
  BY <1>9, <1>10, <1>11 DEF Owed

-----------------------------------------------------------------------------
(* The invariant, from the start and step by step.                           *)

(* A planned name, from the configuration that was read.                     *)
LEMMA SelectIsRight ==
    ASSUME SystemTypeOK, AllRead, NEW p, NEW S, p.name \in Seq(S), p.turn \in Nat,
           p.servers = Select(p.name, p.interface, p.turn), p.servers # <<>>, BindsTo(p)
    PROVE  Owed(p)
<1>1. PICK s : s = Ordered(p.name, p.interface)
  OBVIOUS
<1>2. /\ OrderIs(p, s)
      /\ config.platform = "darwin" => ~RefusedRoute(p.name, p.interface)
      /\ config.platform # "linux" => Sifted(s, ConsideredAt(p.name, p.interface))
  BY <1>1, SelectTells
<1>3. config.platform \in {"linux", "darwin", "windows"}
  BY ConfigurationIsShaped DEF SystemTypeOK
<1>4. config.platform # "linux" => EntriesRead(Len(config.entries))
  BY DEF AllRead
<1>5. CASE config.platform = "linux"
  BY <1>1, <1>2, <1>5, LinuxIsOwed
<1>6. CASE config.platform = "darwin"
  <2>1. BlocksRead(Len(config.entries))
    BY <1>4, <1>6 DEF EntriesRead
  <2> QED
    BY <1>2, <1>6, <2>1, DarwinIsOwed
<1>7. CASE config.platform = "windows"
  <2>1. AdaptersRead(Len(config.entries))
    BY <1>4, <1>7 DEF EntriesRead
  <2> QED
    BY <1>2, <1>7, <2>1, WindowsIsOwed
<1> QED
  BY <1>3, <1>5, <1>6, <1>7

(* Nothing is read to begin with.                                            *)
LEMMA SystemStarts ==
    ASSUME SystemDNSInit
    PROVE  SystemInv
<1>1. config \in Configurations /\ questions \in Questions /\ entries = 0 /\ discovery = "reading"
      /\ plan = <<>> /\ turns = 0
      /\ found = [resolvers |-> <<>>, unsupported |-> <<>>, rotate |-> FALSE]
  BY DEF SystemDNSInit
<1>2. Len(config.entries) \in Nat
  BY <1>1, ConfigurationIsShaped
<1>3. SystemTypeOK
  <2>1. \E S, R, U, t : FoundIs(R, U, t) /\ R \in Seq(S) /\ U \in Seq(S) /\ t \in BOOLEAN
    <3>1. FoundIs(<<>>, <<>>, FALSE) /\ <<>> \in Seq({}) /\ FALSE \in BOOLEAN
      BY <1>1 DEF FoundIs
    <3> QED
      BY <3>1
  <2>2. \E S : plan \in Seq(S)
    <3>1. plan \in Seq({})
      BY <1>1
    <3> QED
      BY <3>1
  <2> QED
    BY <1>1, <1>2, <2>1, <2>2 DEF SystemTypeOK
<1>4. found.resolvers = <<>> /\ found.unsupported = <<>> /\ Len(found.resolvers) = 0 /\ Len(found.unsupported) = 0
  BY <1>1
<1>5. LinesRead(0)
  <2>1. {k \in NameServerLines : k < 0 + 1} = {}
    <3>1. NameServerLines \in SUBSET (1 .. Len(config.entries))
      BY <1>1, ConfigurationIsShaped DEF NameServerLines
    <3>2. \A k \in 1 .. Len(config.entries) : ~(k < 0 + 1)
      BY <1>2
    <3> QED
      BY <3>1, <3>2
  <2>2. UpToThree(Cardinality({k \in NameServerLines : k < 0 + 1})) = 0
    BY <2>1, FS_EmptySet DEF UpToThree, MaximumNameServers
  <2>3. 1 .. Len(found.resolvers) = {}
    BY <1>4
  <2> QED
    BY <1>4, <2>2, <2>3 DEF LinesRead
<1>6. Accounted(0)
  BY <1>4, TellsNothing DEF Accounted
<1>7. 1 .. 0 = {} /\ 1 .. Len(found.unsupported) = {}
  BY <1>4
<1>8. EntriesRead(0)
  BY <1>5, <1>6, <1>7 DEF EntriesRead, BlocksRead, AdaptersRead
<1> QED
  BY <1>1, <1>3, <1>8 DEF SystemInv

(* What every step starts from.                                              *)
LEMMA SystemFacts ==
    ASSUME SystemInv
    PROVE  /\ SystemTypeOK /\ config \in Configurations /\ entries \in Nat
           /\ Len(config.entries) \in Nat
           /\ discovery = "reading" => EntriesRead(entries) /\ plan = <<>>
           /\ discovery = "found" => AllRead
           /\ \A k \in DOMAIN plan : Owed(plan[k])
<1>1. config \in Configurations /\ entries \in 0 .. Len(config.entries)
  BY DEF SystemInv, SystemTypeOK
<1>2. Len(config.entries) \in Nat
  BY <1>1, ConfigurationIsShaped
<1>3. entries \in Nat
  BY <1>1, <1>2
<1> QED
  BY <1>1, <1>2, <1>3 DEF SystemInv

(* A step of the discovery leaves nothing planned behind.                    *)
LEMMA DiscoverySteps ==
    ASSUME SystemInv, NEW e \in Nat, e <= Len(config.entries), entries' = e,
           config' = config, questions' = questions, turns' = turns, plan' = <<>>, FoundTyped',
           discovery' \in {"reading", "found", "unavailable"},
           discovery' = "reading" => EntriesRead(e)', discovery' = "found" => AllRead'
    PROVE  SystemInv'
<1>1. SystemTypeOK'
  <2>1. entries' \in 0 .. Len(config'.entries)
    BY SystemFacts
  <2>2. \E S : plan' \in Seq(S)
    <3>1. plan' \in Seq({})
      OBVIOUS
    <3> QED
      BY <3>1
  <2> QED
    BY <2>1, <2>2, SystemFacts DEF SystemTypeOK, FoundTyped
<1>2. \A k \in DOMAIN plan' : Owed(plan[k])'
  <2>1. DOMAIN plan' = {}
    OBVIOUS
  <2> QED
    BY <2>1
<1>3. discovery' = "reading" => EntriesRead(entries)'
  <2>1. entries' = e /\ e' = e
    OBVIOUS
  <2> QED
    BY <2>1
<1> QED
  BY <1>1, <1>2, <1>3 DEF SystemInv

(* One line, block or adapter more.                                          *)
LEMMA EntrySteps ==
    ASSUME SystemInv, ReadLine \/ ReadBlock \/ ReadAdapter
    PROVE  SystemInv'
<1>1. /\ discovery = "reading" /\ entries < Len(config.entries) /\ entries' = entries + 1
      /\ config' = config /\ questions' = questions /\ plan' = plan /\ turns' = turns
  BY DEF ReadLine, ReadBlock, ReadAdapter, NextEntry
<1>2. PICK e \in Nat : e = entries
  BY SystemFacts
<1>3. PICK f \in Nat : f = e + 1
  OBVIOUS
<1>4. f <= Len(config.entries) /\ entries' = f /\ plan' = <<>> /\ EntriesRead(e)
  BY <1>1, <1>2, <1>3, SystemFacts
<1>5. /\ FoundTyped' /\ discovery' \in {"reading", "unavailable"}
      /\ discovery' = "reading" => EntriesRead(f)'
  <2>1. CASE ReadLine
    <3>1. config.platform = "linux" /\ LinesRead(e)
      BY <1>4, <2>1 DEF ReadLine, NextEntry, EntriesRead
    <3>2. /\ FoundTyped' /\ discovery' \in {"reading", "unavailable"}
          /\ discovery' = "reading" => LinesRead(e + 1)'
      BY <1>2, <2>1, <3>1, SystemFacts, LineStep
    <3> QED
      BY <1>1, <1>3, <3>1, <3>2 DEF EntriesRead
  <2>2. CASE ReadBlock
    <3>1. config.platform = "darwin" /\ BlocksRead(e)
      BY <1>4, <2>2 DEF ReadBlock, NextEntry, EntriesRead
    <3>2. /\ FoundTyped' /\ discovery' \in {"reading", "unavailable"}
          /\ discovery' = "reading" => BlocksRead(e + 1)'
      BY <1>2, <2>2, <3>1, SystemFacts, BlockStep
    <3> QED
      BY <1>1, <1>3, <3>1, <3>2 DEF EntriesRead
  <2>3. CASE ReadAdapter
    <3>1. config.platform = "windows" /\ AdaptersRead(e)
      BY <1>4, <2>3 DEF ReadAdapter, NextEntry, EntriesRead
    <3>2. /\ FoundTyped' /\ discovery' \in {"reading", "unavailable"}
          /\ discovery' = "reading" => AdaptersRead(e + 1)'
      BY <1>2, <2>3, <3>1, SystemFacts, AdapterStep
    <3> QED
      BY <1>1, <1>3, <3>1, <3>2 DEF EntriesRead
  <2> QED
    BY <2>1, <2>2, <2>3
<1>6. discovery' \in {"reading", "found", "unavailable"} /\ discovery' # "found"
  BY <1>5
<1> QED
  BY <1>1, <1>4, <1>5, <1>6, DiscoverySteps

(* The reading ends, or the source of it fails.                              *)
LEMMA EndSteps ==
    ASSUME SystemInv, EndOfEntries \/ SourceFails
    PROVE  SystemInv'
<1>1. /\ discovery = "reading" /\ entries' = entries
      /\ config' = config /\ questions' = questions /\ plan' = plan /\ turns' = turns
  BY DEF EndOfEntries, SourceFails
<1>2. PICK e \in Nat : e = entries
  BY SystemFacts
<1>3. e <= Len(config.entries) /\ entries' = e /\ plan' = <<>> /\ EntriesRead(entries)
  <2>1. entries \in 0 .. Len(config.entries)
    BY SystemFacts DEF SystemTypeOK
  <2> QED
    BY <1>1, <1>2, <2>1, SystemFacts
<1>4. FoundTyped' /\ discovery' \in {"found", "unavailable"} /\ (discovery' = "found" => AllRead')
  <2>1. CASE EndOfEntries
    BY <1>3, <2>1, SystemFacts, EndStep
  <2>2. CASE SourceFails
    <3>1. found' = found /\ discovery' = "unavailable"
      BY <2>2 DEF SourceFails
    <3>2. FoundTyped
      BY SystemFacts DEF SystemTypeOK, FoundTyped
    <3> QED
      BY <3>1, <3>2 DEF FoundTyped, FoundIs
  <2> QED
    BY <2>1, <2>2
<1>5. discovery' \in {"reading", "found", "unavailable"} /\ discovery' # "reading"
  BY <1>4
<1> QED
  BY <1>1, <1>3, <1>4, <1>5, DiscoverySteps

(* While nothing is read, what was planned is still owed.                    *)
LEMMA PlanSteps ==
    ASSUME SystemInv, config' = config, questions' = questions, entries' = entries, found' = found,
           \E S : plan' \in Seq(S), turns' \in Nat, discovery' \in {discovery, "unavailable"},
           discovery' = "reading" => plan' = plan,
           \A k \in DOMAIN plan' : Owed(plan'[k])
    PROVE  SystemInv'
<1>1. SystemTypeOK'
  <2>1. SystemTypeOK
    BY SystemFacts
  <2>2. FoundTyped
    BY <2>1 DEF SystemTypeOK, FoundTyped
  <2>3. FoundTyped'
    BY <2>2 DEF FoundTyped, FoundIs
  <2> QED
    BY <2>1, <2>3 DEF SystemTypeOK, FoundTyped
<1>2. \A k \in DOMAIN plan' : Owed(plan[k])'
  BY OwedStays
<1>3. discovery' = "reading" => EntriesRead(entries)' /\ plan' = <<>>
  BY SystemFacts, ReadingStays
<1>4. discovery' = "found" => AllRead'
  BY SystemFacts, ReadingStays
<1> QED
  BY <1>1, <1>2, <1>3, <1>4 DEF SystemInv

(* A name of the task is a sequence of labels.                               *)
LEMMA QuestionsAreNames ==
    ASSUME questions \in Questions, NEW n \in 1 .. Len(questions)
    PROVE  \E S : questions[n] \in Seq(S)
<1>1. PICK q : q = questions /\ q \in Questions
  OBVIOUS
<1>2. q \in Seq(ToSet(q)) /\ \A name \in ToSet(q) : name \in Seq(ToSet(name))
  BY <1>1, SystemDNSAssumption
<1>3. q[n] \in ToSet(q)
  BY <1>1, <1>2 DEF ToSet
<1>4. q[n] \in Seq(ToSet(q[n]))
  BY <1>2, <1>3
<1> QED
  BY <1>1, <1>4

(* The servers of one more name.                                             *)
LEMMA PlanOperationSteps ==
    ASSUME SystemInv, PlanOperation
    PROVE  SystemInv'
<1>1. /\ discovery = "found" /\ Len(plan) < Len(questions)
      /\ config' = config /\ questions' = questions /\ entries' = entries /\ found' = found
  BY DEF PlanOperation
<1>2. PICK turn \in turns .. MaxTurn, interface \in Interfaces :
          LET name == questions[Len(plan) + 1]
              servers == Select(name, interface, turn)
          IN  /\ turns' = turn + 1
              /\ IF servers = <<>>
                 THEN discovery' = "unavailable" /\ UNCHANGED plan
                 ELSE /\ plan' = Append(plan,
                            [name |-> name, interface |-> interface, turn |-> turn,
                             servers |-> servers,
                             bound |-> [i \in DOMAIN servers |->
                                            BindInterface(found.resolvers[servers[i]])]])
                      /\ UNCHANGED discovery
  BY DEF PlanOperation
<1>3. PICK S : plan \in Seq(S)
  BY SystemFacts DEF SystemTypeOK
<1>4. turn \in Nat /\ turns' \in Nat
  <2>1. turns \in Nat /\ MaxTurn \in Nat
    BY SystemFacts, SystemDNSAssumption DEF SystemTypeOK
  <2>2. turn \in Nat /\ turns' = turn + 1
    BY <1>2, <2>1
  <2> QED
    BY <2>2
<1>5. SystemTypeOK /\ AllRead /\ \A k \in DOMAIN plan : Owed(plan[k])
  BY <1>1, SystemFacts
<1>6. PICK name : name = questions[Len(plan) + 1]
  OBVIOUS
<1>7. PICK servers : servers = Select(name, interface, turn)
  OBVIOUS
<1>8. CASE servers = <<>>
  <2>1. discovery' = "unavailable" /\ plan' = plan
    BY <1>2, <1>6, <1>7, <1>8
  <2> QED
    BY <1>1, <1>3, <1>4, <1>5, <2>1, PlanSteps
<1>9. CASE servers # <<>>
  <2>1. PICK p : p = [name |-> name, interface |-> interface, turn |-> turn, servers |-> servers,
                      bound |-> [i \in DOMAIN servers |->
                                     BindInterface(found.resolvers[servers[i]])]]
    OBVIOUS
  <2>2. plan' = Append(plan, p) /\ discovery' = "found"
    BY <1>1, <1>2, <1>6, <1>7, <1>9, <2>1
  <2>3. /\ p.name = name /\ p.interface = interface /\ p.turn = turn /\ p.servers = servers
        /\ p.bound = [i \in DOMAIN p.servers |-> BindInterface(found.resolvers[p.servers[i]])]
    BY <2>1
  <2>4. Owed(p)
    <3>1. PICK T : p.name \in Seq(T)
      <4>1. questions \in Questions
        BY <1>5 DEF SystemTypeOK
      <4>2. PICK q : q = questions /\ q \in Seq(ToSet(q))
        BY <4>1, SystemDNSAssumption
      <4>3. Len(plan) \in Nat /\ Len(questions) \in Nat
        BY <1>3, <4>2
      <4>4. Len(plan) + 1 \in 1 .. Len(questions)
        BY <1>1, <4>3
      <4> QED
        BY <1>6, <2>3, <4>1, <4>4, QuestionsAreNames
    <3>2. BindsTo(p)
      BY <2>3 DEF BindsTo
    <3>3. p.turn \in Nat /\ p.servers = Select(p.name, p.interface, p.turn) /\ p.servers # <<>>
      BY <1>4, <1>7, <1>9, <2>3
    <3> QED
      BY <1>5, <3>1, <3>2, <3>3, SelectIsRight
  <2>5. \E T : plan' \in Seq(T)
    <3>1. S \subseteq S \cup {p}
      OBVIOUS
    <3>2. plan \in Seq(S \cup {p})
      BY <1>3, <3>1, SeqMonotonic
    <3>3. plan' \in Seq(S \cup {p})
      BY <2>2, <3>2
    <3> QED
      BY <3>3
  <2>6. \A k \in DOMAIN plan' : Owed(plan'[k])
    <3>1. Len(plan) \in Nat /\ DOMAIN plan = 1 .. Len(plan)
      BY <1>3
    <3>2. /\ DOMAIN plan' = 1 .. Len(plan) + 1 /\ plan'[Len(plan) + 1] = p
          /\ \A k \in 1 .. Len(plan) : plan'[k] = plan[k]
      BY <1>3, <2>2
    <3>3. \A k \in DOMAIN plan' : k \in DOMAIN plan \/ k = Len(plan) + 1
      BY <3>1, <3>2
    <3> QED
      BY <1>5, <2>4, <3>1, <3>2, <3>3
  <2> QED
    BY <1>1, <1>4, <2>2, <2>5, <2>6, PlanSteps
<1> QED
  BY <1>8, <1>9

(* Every step keeps the invariant.                                           *)
LEMMA SystemSteps ==
    ASSUME SystemInv, [SystemDNSNext]_sysVars
    PROVE  SystemInv'
<1>1. CASE ReadLine \/ ReadBlock \/ ReadAdapter
  BY <1>1, EntrySteps
<1>2. CASE EndOfEntries \/ SourceFails
  BY <1>2, EndSteps
<1>3. CASE PlanOperation
  BY <1>3, PlanOperationSteps
<1>4. CASE UNCHANGED sysVars
  <2>1. /\ config' = config /\ questions' = questions /\ entries' = entries /\ found' = found
        /\ discovery' = discovery /\ plan' = plan /\ turns' = turns
    BY <1>4 DEF sysVars
  <2>2. turns \in Nat /\ \E S : plan \in Seq(S)
    BY SystemFacts DEF SystemTypeOK
  <2> QED
    BY <2>1, <2>2, SystemFacts, PlanSteps
<1> QED
  BY <1>1, <1>2, <1>3, <1>4 DEF SystemDNSNext

(* Every name of every plan is asked where it is owed to be asked.           *)
THEOREM NamesAlwaysGoToTheirServers == SystemDNSSpec => []NamesGoToTheirServers
<1>1. SystemDNSInit => SystemInv
  BY SystemStarts
<1>2. SystemInv /\ [SystemDNSNext]_sysVars => SystemInv'
  BY SystemSteps
<1>3. SystemInv => NamesGoToTheirServers
  BY SystemFacts DEF Owed, NamesGoToTheirServers
<1> QED
  BY <1>1, <1>2, <1>3, PTL DEF SystemDNSSpec
=============================================================================
