------------------------- MODULE DurableStateProofs -------------------------
(***************************************************************************)
(* Proofs about what an agent keeps in its state directory: the store of   *)
(* the signed root hints (RootHintsStore), for any finite set of versions, *)
(* any publication times and any number of faults; the trust anchor        *)
(* (TrustAnchorStore), for any finite set of anchors, verdicts and faults; *)
(* the cached snapshot of what depends on them (DependencyCache), for any  *)
(* lifetimes and bounds; and the identity of the agent (AgentIdentity),    *)
(* for any bounds on ids, tokens and kills.                                *)
(***************************************************************************)
EXTENDS RootHintsStore, TrustAnchorStore, DependencyCache, AgentIdentity,
        FiniteSetTheorems, SequenceTheorems, WellFoundedInduction, TLAPS

-----------------------------------------------------------------------------
(* A finite set that R orders totally has a greatest element: the smallest  *)
(* subset without one would be one element away from a subset with one.     *)
LEMMA GreatestExists ==
    ASSUME NEW S, IsFiniteSet(S), NEW R,
           \A x, y \in S : x = y \/ <<x, y>> \in R \/ <<y, x>> \in R,
           \A x, y, z \in S : <<x, y>> \in R /\ <<y, z>> \in R => <<x, z>> \in R
    PROVE  \A T \in SUBSET S : T # {} => \E x \in T : \A y \in T \ {x} : <<x, y>> \in R
<1> DEFINE Tops(T) == \E x \in T : \A y \in T \ {x} : <<x, y>> \in R
           Topless == {T \in SUBSET S : T # {} /\ ~Tops(T)}
<1> SUFFICES ASSUME Topless # {}
             PROVE  FALSE
  OBVIOUS
<1>1. IsWellFoundedOn(StrictSubsetOrdering(S), SUBSET S)
  BY FS_StrictSubsetOrderingWellFounded, FS_FiniteSubsetsOfFinite
<1>2. PICK T \in Topless : \A U \in Topless : ~(<<U, T>> \in StrictSubsetOrdering(S))
  <2>1. Topless \subseteq SUBSET S
    OBVIOUS
  <2> HIDE DEF Topless
  <2> QED
    BY <1>1, <2>1, WFMin
<1>3. PICK x \in T : TRUE
  BY <1>2
<1>4. T \ {x} # {} /\ T \ {x} \notin Topless
  <2>1. <<T \ {x}, T>> \in StrictSubsetOrdering(S)
    BY <1>2, <1>3 DEF StrictSubsetOrdering
  <2> QED
    BY <1>2, <1>3, <2>1
<1>5. PICK m \in T \ {x} : \A y \in (T \ {x}) \ {m} : <<m, y>> \in R
  BY <1>2, <1>4
<1>6. CASE <<m, x>> \in R
  BY <1>2, <1>3, <1>5, <1>6
<1>7. CASE <<x, m>> \in R
  <2>1. \A y \in T \ {x} : <<x, y>> \in R
    BY <1>2, <1>3, <1>5, <1>7
  <2> QED
    BY <1>2, <1>3, <2>1
<1> QED
  BY <1>2, <1>3, <1>5, <1>6, <1>7

(* NewestOf means what its name says, on every set of versions.             *)
LEMMA NewestIsNewest ==
    ASSUME IsFiniteSet(Versions), NEW S \in SUBSET Versions, S # {}
    PROVE  /\ NewestOf(S) \in S
           /\ \A v \in S \ {NewestOf(S)} : Newer(NewestOf(S), v)
<1> DEFINE R == {p \in Versions \X Versions : Newer(p[1], p[2])}
<1>1. \A x, y \in Versions : x = y \/ <<x, y>> \in R \/ <<y, x>> \in R
  BY HintsAssumption DEF Newer
<1>2. \A x, y, z \in Versions : <<x, y>> \in R /\ <<y, z>> \in R => <<x, z>> \in R
  BY HintsAssumption DEF Newer
<1>3. \A x \in S, y \in S : <<x, y>> \in R => Newer(x, y)
  OBVIOUS
<1>4. \E x \in S : \A y \in S \ {x} : <<x, y>> \in R
  <2> HIDE DEF R
  <2> QED
    BY <1>1, <1>2, GreatestExists
<1>5. \E x \in S : \A y \in S \ {x} : Newer(x, y)
  BY <1>3, <1>4
<1> QED
  BY <1>5 DEF NewestOf

-----------------------------------------------------------------------------
(* The writes of a plan; those of state.json name versions.                 *)
Writes == [file : {"manifest", "blob", "collision"}, value : Versions]
          \cup [file : {"state", "rebuild"}, value : Pointers]
Names(w) == w.file \in {"state", "rebuild"}

HintsOps == [kind : {"free", "activate", "fallback", "read", "rollback"},
             writes : Seq(Writes), result : Versions \cup {None}]

HintsTypeOK ==
    /\ manifest \in [Versions -> Condition] /\ blob \in [Versions -> Condition]
    /\ hintsState \in Pointers \cup {Empty}
    /\ configured \in Versions \cup {Torn} /\ selected \in Versions \cup {None}
    /\ materialFaults \in Nat /\ hintsFaults \in Nat
    /\ hintsOp \in HintsOps

(* Before the i-th write of a plan file f of version v is in place, if no   *)
(* write before it meets a damaged file.                                    *)
Precedes(ws, i, f, v) ==
    \E j \in 1 .. (i - 1) : ws[j].file = "collision" \/ (ws[j].file = f /\ ws[j].value = v)
Backed(ws, i, v) ==
    /\ v \in Versions
    /\ manifest[v] = "intact" \/ Precedes(ws, i, "manifest", v)
    /\ blob[v] = "intact" \/ Precedes(ws, i, "blob", v)
BackedPair(ws, i, s) == Backed(ws, i, s.current) /\ (s.previous # None => Backed(ws, i, s.previous))

(* A write of state.json names what is on the disk by then; and no write of *)
(* it names older hints than the selected ones or than the write before.    *)
Sound(ws) == \A i \in DOMAIN ws : Names(ws[i]) => BackedPair(ws, i, ws[i].value)

NotOlder(v, w) == PublishedAt[v] <= PublishedAt[w]
Ascends(ws) ==
    \A i \in DOMAIN ws : Names(ws[i]) =>
        /\ selected # None => NotOlder(selected, ws[i].value.current)
        /\ \A j \in 1 .. (i - 1) :
              Names(ws[j]) => NotOlder(ws[j].value.current, ws[i].value.current)

(* Nothing is older than what state.json last named, which is on the disk.  *)
SelectedStands ==
    /\ Readable => hintsState.current = selected
    /\ selected # None /\ ~Readable => hintsFaults > 0
    /\ materialFaults = 0 /\ selected # None => Loadable(selected)

(* The writes to come of the operation that holds the lock.                 *)
PlanStands ==
    materialFaults = 0 =>
        /\ Sound(hintsOp.writes)
        /\ hintsOp.kind # "rollback" /\ hintsFaults <= 1 => Ascends(hintsOp.writes)

HintsInv == HintsTypeOK /\ StateNamesIntactHints /\ SelectedStands /\ PlanStands

-----------------------------------------------------------------------------
LEMMA OneMore ==
    ASSUME NEW s \in Seq(Writes), NEW w \in Writes
    PROVE  /\ s \o <<w>> \in Seq(Writes)
           /\ Len(s \o <<w>>) = Len(s) + 1
           /\ (s \o <<w>>)[Len(s) + 1] = w
           /\ \A i \in 1 .. Len(s) : (s \o <<w>>)[i] = s[i]
<1> HIDE DEF Writes
<1> QED
  OBVIOUS

LEMMA AppendStands ==
    ASSUME NEW s \in Seq(Writes), NEW w \in Writes,
           Sound(s), Names(w) => BackedPair(s, Len(s) + 1, w.value)
    PROVE  Sound(s \o <<w>>)
<1> DEFINE t == s \o <<w>>
<1>1. /\ t \in Seq(Writes) /\ Len(t) = Len(s) + 1 /\ t[Len(s) + 1] = w
      /\ \A i \in 1 .. Len(s) : t[i] = s[i]
  BY OneMore
<1>2. Len(s) \in Nat
  OBVIOUS
<1> HIDE DEF t
<1>3. \A i \in 1 .. (Len(s) + 1) : \A f, v : Precedes(s, i, f, v) => Precedes(t, i, f, v)
  BY <1>1, <1>2 DEF Precedes
<1>4. \A i \in 1 .. (Len(s) + 1) : \A p : BackedPair(s, i, p) => BackedPair(t, i, p)
  BY <1>3 DEF BackedPair, Backed
<1>5. DOMAIN t = 1 .. (Len(s) + 1) /\ DOMAIN s = 1 .. Len(s)
  BY <1>1
<1>6. Sound(t)
  <2>1. SUFFICES ASSUME NEW i \in DOMAIN t, Names(t[i])
                 PROVE  BackedPair(t, i, t[i].value)
    BY DEF Sound
  <2>2. CASE i = Len(s) + 1
    BY <2>1, <2>2, <1>1, <1>2, <1>4
  <2>3. CASE i \in 1 .. Len(s)
    BY <2>1, <2>3, <1>1, <1>2, <1>4, <1>5 DEF Sound
  <2> QED
    BY <2>2, <2>3, <1>2, <1>5
<1> QED
  BY <1>6 DEF t

LEMMA AppendAscends ==
    ASSUME NEW s \in Seq(Writes), NEW w \in Writes, Ascends(s),
           Names(w) => /\ selected # None => NotOlder(selected, w.value.current)
                       /\ \A j \in 1 .. Len(s) :
                             Names(s[j]) => NotOlder(s[j].value.current, w.value.current)
    PROVE  Ascends(s \o <<w>>)
<1> DEFINE t == s \o <<w>>
<1>1. /\ t \in Seq(Writes) /\ Len(t) = Len(s) + 1 /\ t[Len(s) + 1] = w
      /\ \A i \in 1 .. Len(s) : t[i] = s[i]
  BY OneMore
<1>2. Len(s) \in Nat
  OBVIOUS
<1> HIDE DEF t
<1>5. DOMAIN t = 1 .. (Len(s) + 1) /\ DOMAIN s = 1 .. Len(s)
  BY <1>1
<1>6. Ascends(t)
  <2>1. SUFFICES ASSUME NEW i \in DOMAIN t, Names(t[i])
                 PROVE  /\ selected # None => NotOlder(selected, t[i].value.current)
                        /\ \A j \in 1 .. (i - 1) :
                              Names(t[j]) => NotOlder(t[j].value.current, t[i].value.current)
    BY DEF Ascends
  <2>2. CASE i = Len(s) + 1
    BY <2>1, <2>2, <1>1, <1>2
  <2>3. CASE i \in 1 .. Len(s)
    <3>1. t[i] = s[i] /\ \A j \in 1 .. (i - 1) : t[j] = s[j]
      BY <2>3, <1>1, <1>2
    <3> QED
      BY <2>1, <2>3, <3>1, <1>5 DEF Ascends
  <2> QED
    BY <2>2, <2>3, <1>2, <1>5
<1> QED
  BY <1>6 DEF t

-----------------------------------------------------------------------------
(* A rebuilt state names the newest versions that load.                     *)
LEMMA DiscoveredStands ==
    ASSUME HintsTypeOK
    PROVE  LET d == DiscoverHintsState
           IN  /\ d \in Pointers \cup {Empty}
               /\ d.current # None => Loadable(d.current)
               /\ d.previous # None => Loadable(d.previous)
               /\ \A v \in Versions : Loadable(v) =>
                     d.current # None /\ (v = d.current \/ Newer(d.current, v))
<1> DEFINE usable == {v \in Versions : Loadable(v)}
           first == NewestOf(usable)
           second == NewestOf(usable \ {first})
<1>1. /\ usable # {} => first \in usable /\ \A v \in usable \ {first} : Newer(first, v)
      /\ usable = {} => first = None
  <2>1. usable \in SUBSET Versions
    OBVIOUS
  <2> HIDE DEF usable
  <2>2. CASE usable # {}
    BY <2>1, <2>2, HintsAssumption, NewestIsNewest
  <2>3. CASE usable = {}
    BY <2>3 DEF NewestOf
  <2> QED
    BY <2>2, <2>3
<1>2. second = None \/ second \in usable \ {first}
  <2>1. usable \ {first} \in SUBSET Versions
    OBVIOUS
  <2> HIDE DEF usable, first
  <2>2. CASE usable \ {first} # {}
    BY <2>1, <2>2, HintsAssumption, NewestIsNewest
  <2>3. CASE usable \ {first} = {}
    BY <2>3 DEF NewestOf
  <2> QED
    BY <2>2, <2>3
<1>3. usable = {} => second = None
  BY <1>2
<1>4. DiscoverHintsState = [current |-> first, previous |-> second]
  BY DEF DiscoverHintsState
<1>5. None \notin Versions
  BY HintsAssumption DEF None
<1>6. usable \subseteq Versions /\ \A v \in Versions : v \in usable <=> Loadable(v)
  OBVIOUS
<1> HIDE DEF first, second, usable
<1>7. DiscoverHintsState.current = first /\ DiscoverHintsState.previous = second
  BY <1>4
<1>8. DiscoverHintsState \in Pointers \cup {Empty}
  BY <1>1, <1>2, <1>3, <1>4, <1>6 DEF Pointers, Empty
<1> QED
  BY <1>1, <1>2, <1>3, <1>5, <1>6, <1>7, <1>8

LEMMA PairIsBacked ==
    ASSUME NEW s \in Pointers, Loadable(s.current), s.previous # None => Loadable(s.previous),
           NEW ws, NEW i
    PROVE  BackedPair(ws, i, s)
BY DEF BackedPair, Backed, Loadable, Pointers

(* What an operation finds, and the writes with which it saves what it had  *)
(* to rebuild.                                                              *)
LEMMA FoundStands ==
    ASSUME HintsTypeOK, NEW lost \in BOOLEAN
    PROVE  LET f == LoadOrDiscover(lost)
           IN  /\ f.state \in Pointers \cup {Empty}
               /\ \/ f.writes = <<>>
                  \/ /\ f.writes = <<[file |-> "rebuild", value |-> f.state]>>
                     /\ f.state \in Pointers /\ Loadable(f.state.current)
               /\ Sound(f.writes)
               /\ f.writes # <<>> \/ ~Readable => 
                     /\ f.state.current # None => Loadable(f.state.current)
                     /\ f.state.previous # None => Loadable(f.state.previous)
               /\ f.writes = <<>> => f.state \in {hintsState, Empty}
               /\ ~Readable /\ ~lost => \A v \in Versions : Loadable(v) =>
                     /\ f.state.current # None
                     /\ v = f.state.current \/ Newer(f.state.current, v)
               /\ Readable => f.state = hintsState /\ f.writes = <<>>
<1> DEFINE d == DiscoverHintsState
           f == LoadOrDiscover(lost)
           w == [file |-> "rebuild", value |-> d]
<1>1. /\ d \in Pointers \cup {Empty}
      /\ d.current # None => Loadable(d.current)
      /\ d.previous # None => Loadable(d.previous)
      /\ \A v \in Versions : Loadable(v) =>
            d.current # None /\ (v = d.current \/ Newer(d.current, v))
  BY DiscoveredStands
<1>2. CASE Readable
  BY <1>2 DEF LoadOrDiscover, HintsTypeOK, Sound
<1>3. CASE ~Readable /\ (d.current = None \/ lost)
  BY <1>1, <1>3 DEF LoadOrDiscover, Sound, Empty
<1>4. CASE ~Readable /\ d.current # None /\ ~lost
  <2>1. f = [state |-> d, writes |-> <<w>>]
    BY <1>4 DEF LoadOrDiscover
  <2>2. d \in Pointers
    <3> HIDE DEF d
    <3> QED
      BY <1>1, <1>4 DEF Empty
  <2>3. Sound(<<w>>)
    <3> HIDE DEF d
    <3>1. BackedPair(<<w>>, 1, d)
      BY <1>1, <1>4, <2>2, PairIsBacked
    <3> QED
      BY <3>1 DEF Sound
  <2> HIDE DEF d
  <2> QED
    BY <1>1, <1>4, <2>1, <2>2, <2>3
<1> QED
  BY <1>2, <1>3, <1>4

(* Putting a file in place: the plan grows by it, by an error, or not.      *)
LEMMA ImmutableStands ==
    ASSUME NEW s \in Seq(Writes), NEW f \in {"manifest", "blob"}, NEW v \in Versions,
           NEW c \in Condition
    PROVE  LET t == s \o WriteImmutable(f, v, c)
           IN  /\ t \in Seq(Writes) /\ Len(s) <= Len(t)
               /\ \A i \in 1 .. Len(s) : t[i] = s[i]
               /\ \A i \in 1 .. Len(t) : Names(t[i]) => i <= Len(s)
               /\ Sound(s) => Sound(t)
               /\ Ascends(s) => Ascends(t)
               /\ c = "intact" \/ Precedes(t, Len(t) + 1, f, v)
<1>1. CASE c = "intact"
  <2>1. s \o <<>> = s /\ DOMAIN s = 1 .. Len(s) /\ Len(s) \in Nat
    <3> HIDE DEF Writes
    <3> QED
      OBVIOUS
  <2> QED
    BY <1>1, <2>1 DEF WriteImmutable
<1>2. CASE c # "intact"
  <2> DEFINE w == [file |-> IF c = "absent" THEN f ELSE "collision", value |-> v]
             t == s \o <<w>>
  <2>1. WriteImmutable(f, v, c) = <<w>>
    BY <1>2 DEF WriteImmutable, Condition
  <2>2. w \in Writes /\ ~Names(w) /\ w.value = v /\ w.file \in {f, "collision"}
    BY DEF Writes, Names
  <2> HIDE DEF w
  <2>3. /\ t \in Seq(Writes) /\ Len(t) = Len(s) + 1 /\ t[Len(s) + 1] = w
        /\ \A i \in 1 .. Len(s) : t[i] = s[i]
    BY <2>2, OneMore
  <2>4. Sound(s) => Sound(t)
    BY <2>2, AppendStands
  <2>5. Ascends(s) => Ascends(t)
    BY <2>2, AppendAscends
  <2>6. Len(s) \in Nat
    OBVIOUS
  <2> HIDE DEF t
  <2>7. Precedes(t, Len(t) + 1, f, v)
    BY <2>2, <2>3, <2>6 DEF Precedes
  <2>8. \A i \in 1 .. Len(t) : Names(t[i]) => i <= Len(s)
    BY <2>2, <2>3, <2>6
  <2>9. Len(s) <= Len(t)
    BY <2>3, <2>6
  <2> QED
    BY <2>1, <2>3, <2>4, <2>5, <2>7, <2>8, <2>9 DEF t
<1> QED
  BY <1>1, <1>2

(* After persistHintsMaterial the version it was for may be named.          *)
LEMMA PersistStands ==
    ASSUME HintsTypeOK, NEW s \in Seq(Writes), NEW v \in Versions
    PROVE  LET t == s \o PersistHintsMaterial(v)
           IN  /\ t \in Seq(Writes)
               /\ \A i \in 1 .. Len(t) : Names(t[i]) => i \in 1 .. Len(s) /\ t[i] = s[i]
               /\ Sound(s) => Sound(t)
               /\ Ascends(s) => Ascends(t)
               /\ Backed(t, Len(t) + 1, v)
<1> DEFINE m == WriteImmutable("manifest", v, manifest[v])
           b == WriteImmutable("blob", v, blob[v])
           r == s \o m
           t == r \o b
<1>1. manifest[v] \in Condition /\ blob[v] \in Condition
  BY DEF HintsTypeOK
<1>2. s \o PersistHintsMaterial(v) = t
  <2>1. m \in Seq(Writes) /\ b \in Seq(Writes)
    <3>1. ASSUME NEW f \in {"manifest", "blob"}, NEW c \in Condition
          PROVE  WriteImmutable(f, v, c) \in Seq(Writes)
      <4> DEFINE w == [file |-> IF c = "absent" THEN f ELSE "collision", value |-> v]
      <4>1. w \in Writes
        BY DEF Writes
      <4>2. WriteImmutable(f, v, c) = <<>> \/ WriteImmutable(f, v, c) = <<w>>
        BY DEF WriteImmutable, Condition
      <4> HIDE DEF w, Writes
      <4>3. <<w>> \in Seq(Writes) /\ <<>> \in Seq(Writes)
        BY <4>1
      <4> QED
        BY <4>2, <4>3
    <3> QED
      BY <1>1, <3>1
  <2> HIDE DEF m, b, Writes
  <2>2. s \o (m \o b) = (s \o m) \o b
    BY <2>1
  <2> QED
    BY <2>2 DEF PersistHintsMaterial, m, b
<1>3. /\ r \in Seq(Writes) /\ Len(s) <= Len(r)
      /\ \A i \in 1 .. Len(s) : r[i] = s[i]
      /\ \A i \in 1 .. Len(r) : Names(r[i]) => i <= Len(s)
      /\ Sound(s) => Sound(r)
      /\ Ascends(s) => Ascends(r)
      /\ manifest[v] = "intact" \/ Precedes(r, Len(r) + 1, "manifest", v)
  BY <1>1, ImmutableStands
<1> HIDE DEF r
<1>4. /\ t \in Seq(Writes) /\ Len(r) <= Len(t)
      /\ \A i \in 1 .. Len(r) : t[i] = r[i]
      /\ \A i \in 1 .. Len(t) : Names(t[i]) => i <= Len(r)
      /\ Sound(r) => Sound(t)
      /\ Ascends(r) => Ascends(t)
      /\ blob[v] = "intact" \/ Precedes(t, Len(t) + 1, "blob", v)
  BY <1>1, <1>3, ImmutableStands
<1>5. Len(s) \in Nat /\ Len(r) \in Nat /\ Len(t) \in Nat
  BY <1>3, <1>4
<1> HIDE DEF t
<1>6. Precedes(r, Len(r) + 1, "manifest", v) => Precedes(t, Len(t) + 1, "manifest", v)
  BY <1>3, <1>4, <1>5 DEF Precedes
<1>7. Backed(t, Len(t) + 1, v)
  BY <1>3, <1>4, <1>6 DEF Backed
<1>8. \A i \in 1 .. Len(t) : Names(t[i]) => i \in 1 .. Len(s) /\ t[i] = s[i]
  BY <1>3, <1>4, <1>5
<1> QED
  BY <1>2, <1>3, <1>4, <1>7, <1>8

(* What makes a plan safe to carry out up to any of its writes.  A rebuilt  *)
(* state that cannot be saved is not trusted to be the newest.              *)
PlanGood(op, lost) ==
    /\ op \in HintsOps
    /\ materialFaults = 0 =>
          /\ Sound(op.writes)
          /\ op.kind # "rollback" /\ (lost => selected = None) => Ascends(op.writes)

LEMMA Chronology ==
    /\ \A u, v, w \in Versions : NotOlder(u, v) /\ NotOlder(v, w) => NotOlder(u, w)
    /\ \A v, w \in Versions : v = w \/ Newer(w, v) => NotOlder(v, w)
    /\ \A v, w \in Versions : ~(PublishedAt[v] <= PublishedAt[w]) => NotOlder(w, v)
<1>1. \A v \in Versions : PublishedAt[v] \in Nat
  BY HintsAssumption
<1> QED
  BY <1>1 DEF NotOlder, Newer

LEMMA StateAppended ==
    ASSUME NEW s \in Seq(Writes), NEW p \in Pointers
    PROVE  LET t == s \o WriteState(p)
           IN  /\ t \in Seq(Writes)
               /\ Sound(s) /\ BackedPair(s, Len(s) + 1, p) => Sound(t)
               /\ /\ Ascends(s)
                  /\ selected # None => NotOlder(selected, p.current)
                  /\ \A j \in 1 .. Len(s) :
                        Names(s[j]) => NotOlder(s[j].value.current, p.current)
                  => Ascends(t)
<1> DEFINE w == [file |-> "state", value |-> p]
<1>1. w \in Writes /\ Names(w) /\ w.value = p
  BY DEF Writes, Names
<1>2. WriteState(p) = <<w>>
  BY DEF WriteState
<1> HIDE DEF w
<1>3. s \o <<w>> \in Seq(Writes)
  BY <1>1, OneMore
<1>4. Sound(s) /\ BackedPair(s, Len(s) + 1, p) => Sound(s \o <<w>>)
  BY <1>1, AppendStands
<1>5. ASSUME Ascends(s), selected # None => NotOlder(selected, p.current),
             \A j \in 1 .. Len(s) : Names(s[j]) => NotOlder(s[j].value.current, p.current)
      PROVE  Ascends(s \o <<w>>)
  BY <1>1, <1>5, AppendAscends
<1> QED
  BY <1>2, <1>3, <1>4, <1>5

LEMMA FoundTyped ==
    ASSUME HintsTypeOK, NEW lost \in BOOLEAN
    PROVE  LoadOrDiscover(lost).writes \in Seq(Writes)
<1> DEFINE f == LoadOrDiscover(lost)
           w == [file |-> "rebuild", value |-> f.state]
<1>1. f.writes = <<>> \/ (f.writes = <<w>> /\ f.state \in Pointers)
  BY FoundStands
<1>2. f.state \in Pointers => w \in Writes
  BY DEF Writes
<1> HIDE DEF f, w
<1>3. <<>> \in Seq(Writes) /\ (f.state \in Pointers => <<w>> \in Seq(Writes))
  BY <1>2
<1> QED
  BY <1>1, <1>3 DEF f

(* With the material undamaged what an operation starts from loads, and is  *)
(* as new as the selected version.                                          *)
LEMMA FoundIsNewest ==
    ASSUME HintsTypeOK, StateNamesIntactHints, SelectedStands, materialFaults = 0,
           NEW lost \in BOOLEAN, lost => ~Readable
    PROVE  LET f == LoadOrDiscover(lost)
           IN  /\ f.state.current # None => Loadable(f.state.current)
               /\ f.state.previous # None => Loadable(f.state.previous)
               /\ (lost => selected = None) =>
                     /\ selected # None =>
                           Loadable(f.state.current) /\ NotOlder(selected, f.state.current)
                     /\ Ascends(f.writes)
<1> DEFINE f == LoadOrDiscover(lost)
<1>1. /\ f.state \in Pointers \cup {Empty}
      /\ \/ f.writes = <<>>
         \/ /\ f.writes = <<[file |-> "rebuild", value |-> f.state]>>
            /\ f.state \in Pointers /\ Loadable(f.state.current)
      /\ f.writes # <<>> \/ ~Readable => 
            /\ f.state.current # None => Loadable(f.state.current)
            /\ f.state.previous # None => Loadable(f.state.previous)
      /\ ~Readable /\ ~lost => \A v \in Versions : Loadable(v) =>
            /\ f.state.current # None
            /\ v = f.state.current \/ Newer(f.state.current, v)
      /\ Readable => f.state = hintsState /\ f.writes = <<>>
  BY FoundStands
<1> HIDE DEF f
<1>2. /\ f.state.current # None => Loadable(f.state.current)
      /\ f.state.previous # None => Loadable(f.state.previous)
  BY <1>1 DEF StateNamesIntactHints
<1>3. ASSUME lost => selected = None, selected # None
      PROVE  Loadable(f.state.current) /\ NotOlder(selected, f.state.current)
  <2>1. Loadable(selected) /\ selected \in Versions
    BY <1>3 DEF SelectedStands, HintsTypeOK
  <2>2. CASE Readable
    BY <2>1, <2>2, <1>1, Chronology DEF SelectedStands
  <2>3. CASE ~Readable
    <3>1. f.state.current # None /\ (selected = f.state.current \/ Newer(f.state.current, selected))
      BY <1>1, <1>3, <2>1, <2>3
    <3>2. f.state.current \in Versions
      BY <1>1, <3>1 DEF Pointers, Empty
    <3> QED
      BY <1>2, <2>1, <3>1, <3>2, Chronology
  <2> QED
    BY <2>2, <2>3
<1>4. ASSUME lost => selected = None
      PROVE  Ascends(f.writes)
  <2>1. CASE f.writes = <<>>
    BY <2>1 DEF Ascends
  <2>2. CASE f.writes = <<[file |-> "rebuild", value |-> f.state]>>
    BY <1>3, <1>4, <2>2 DEF Ascends
  <2> QED
    BY <1>1, <2>1, <2>2
<1> QED
  BY <1>2, <1>3, <1>4 DEF f

LEMMA ActivateGood ==
    ASSUME HintsTypeOK, StateNamesIntactHints, SelectedStands,
           NEW lost \in BOOLEAN, lost => ~Readable
    PROVE  PlanGood(ActivatePlan(lost), lost) /\ ActivatePlan(lost).kind = "activate"
<1> DEFINE f == LoadOrDiscover(lost)
           v == configured
           old == f.state.current
           new == [current |-> v, previous |-> IF old = v THEN f.state.previous ELSE old]
           s == f.writes \o PersistHintsMaterial(v)
           op == ActivatePlan(lost)
<1>1. /\ f.state \in Pointers \cup {Empty}
      /\ \/ f.writes = <<>>
         \/ /\ f.writes = <<[file |-> "rebuild", value |-> f.state]>>
            /\ f.state \in Pointers /\ Loadable(f.state.current)
      /\ Sound(f.writes)
  BY FoundStands
<1>2. materialFaults = 0 =>
        /\ f.state.current # None => Loadable(f.state.current)
        /\ f.state.previous # None => Loadable(f.state.previous)
        /\ (lost => selected = None) =>
              /\ selected # None =>
                    Loadable(f.state.current) /\ NotOlder(selected, f.state.current)
              /\ Ascends(f.writes)
  BY FoundIsNewest
<1>3. op.kind = "activate"
  BY DEF ActivatePlan, Plan
<1>4. \/ op = Plan("activate", <<>>, None)
      \/ /\ v \in Versions
         /\ \/ op = Plan("activate", f.writes, v)
            \/ op = Plan("activate", f.writes, None)
            \/ /\ ~(Loadable(old) /\ PublishedAt[v] <= PublishedAt[old])
               /\ op = Plan("activate", s \o WriteState(new), v)
  <2>1. v = Torn \/ v \in Versions
    BY DEF HintsTypeOK
  <2>2. ActivatePlan(lost) =
          IF v = Torn THEN Plan("activate", <<>>, None)
          ELSE IF Loadable(old) /\ old = v THEN Plan("activate", f.writes, v)
          ELSE IF Loadable(old) /\ PublishedAt[v] <= PublishedAt[old]
               THEN Plan("activate", f.writes, None)
          ELSE Plan("activate", s \o WriteState(new), v)
    BY DEF ActivatePlan
  <2> HIDE DEF f, s, new, old
  <2> QED
    BY <2>1, <2>2
<1>5. f.writes \in Seq(Writes)
  BY FoundTyped
<1> HIDE DEF f, op
<1>6. ASSUME op \in HintsOps, op.writes = f.writes
      PROVE  PlanGood(op, lost)
  <2>1. Sound(op.writes) /\ (Ascends(f.writes) => Ascends(op.writes))
    BY <1>1, <1>6
  <2> QED
    BY <1>2, <1>6, <2>1 DEF PlanGood
<1>7. CASE op = Plan("activate", <<>>, None)
  BY <1>7 DEF PlanGood, Plan, HintsOps, Sound, Ascends, op
<1>8. CASE v \in Versions /\ op = Plan("activate", f.writes, v)
  <2>1. op.writes = f.writes /\ op \in HintsOps
    BY <1>5, <1>8 DEF Plan, HintsOps
  <2> QED
    BY <1>3, <1>6, <2>1 DEF op
<1>9. CASE op = Plan("activate", f.writes, None)
  <2>1. op.writes = f.writes /\ op \in HintsOps
    BY <1>5, <1>9 DEF Plan, HintsOps
  <2> QED
    BY <1>3, <1>6, <2>1 DEF op
<1>10. CASE /\ v \in Versions
            /\ ~(Loadable(old) /\ PublishedAt[v] <= PublishedAt[old])
            /\ op = Plan("activate", s \o WriteState(new), v)
  <2>1. /\ s \in Seq(Writes)
        /\ \A i \in 1 .. Len(s) : Names(s[i]) => i \in 1 .. Len(f.writes) /\ s[i] = f.writes[i]
        /\ Sound(f.writes) => Sound(s)
        /\ Ascends(f.writes) => Ascends(s)
        /\ Backed(s, Len(s) + 1, v)
    BY <1>5, <1>10, PersistStands
  <2>2. new \in Pointers
    BY <1>1, <1>10 DEF Pointers, Empty
  <2> HIDE DEF s
  <2>3. /\ s \o WriteState(new) \in Seq(Writes)
        /\ Sound(s) /\ BackedPair(s, Len(s) + 1, new) => Sound(s \o WriteState(new))
        /\ /\ Ascends(s)
           /\ selected # None => NotOlder(selected, new.current)
           /\ \A j \in 1 .. Len(s) :
                 Names(s[j]) => NotOlder(s[j].value.current, new.current)
           => Ascends(s \o WriteState(new))
    BY <2>1, <2>2, StateAppended
  <2>4. materialFaults = 0 => BackedPair(s, Len(s) + 1, new)
    <3>1. materialFaults = 0 /\ new.previous # None => Loadable(new.previous) 
      BY <1>2
    <3>2. materialFaults = 0 /\ new.previous # None => Backed(s, Len(s) + 1, new.previous)
      BY <2>2, <3>1 DEF Backed, Loadable, Pointers
    <3> QED
      BY <2>1, <3>2 DEF BackedPair
  <2>5. ASSUME materialFaults = 0, lost => selected = None
        PROVE  Ascends(s \o WriteState(new))
    <3>1. old \in Versions /\ Loadable(old) => NotOlder(old, v)
      BY <1>10, Chronology
    <3>2. selected # None => NotOlder(selected, v)
      <4>1. selected # None => old \in Versions /\ NotOlder(selected, old) /\ selected \in Versions
        BY <1>1, <1>2, <2>5 DEF Loadable, Pointers, Empty, HintsTypeOK
      <4> QED
        BY <1>2, <2>5, <3>1, <4>1, <1>10, Chronology
    <3>3. \A j \in 1 .. Len(f.writes) :
             Names(f.writes[j]) => f.writes[j].value.current = old /\ old \in Versions /\ Loadable(old)
      BY <1>1 DEF Pointers
    <3>4. \A j \in 1 .. Len(s) : Names(s[j]) => NotOlder(s[j].value.current, new.current)
      BY <2>1, <3>1, <3>3
    <3> QED
      BY <1>2, <2>1, <2>3, <2>5, <3>2, <3>4
  <2> DEFINE t == s \o WriteState(new)
  <2> HIDE DEF t, new
  <2>6. op \in HintsOps /\ op.writes = t
    BY <1>10, <2>3 DEF Plan, HintsOps, t
  <2>7. t = s \o WriteState(new)
    BY DEF t
  <2> QED
    BY <1>1, <1>3, <2>1, <2>3, <2>4, <2>5, <2>6, <2>7 DEF PlanGood, op
<1> QED
  BY <1>3, <1>4, <1>7, <1>8, <1>9, <1>10 DEF op

LEMMA CurrentGood ==
    ASSUME HintsTypeOK, StateNamesIntactHints, SelectedStands,
           NEW kind \in {"fallback", "read"}, NEW lost \in BOOLEAN, lost => ~Readable
    PROVE  PlanGood(CurrentPlan(kind, lost), lost)
<1> DEFINE f == LoadOrDiscover(lost)
           d == DiscoverHintsState
           back == [current |-> f.state.previous, previous |-> None]
           op == CurrentPlan(kind, lost)
<1>1. /\ f.state \in Pointers \cup {Empty}
      /\ \/ f.writes = <<>>
         \/ /\ f.writes = <<[file |-> "rebuild", value |-> f.state]>>
            /\ f.state \in Pointers /\ Loadable(f.state.current)
      /\ Sound(f.writes)
  BY FoundStands
<1>2. materialFaults = 0 =>
        /\ f.state.current # None => Loadable(f.state.current)
        /\ (lost => selected = None) =>
              /\ selected # None => Loadable(f.state.current)
              /\ Ascends(f.writes)
  BY FoundIsNewest
<1>3. f.writes \in Seq(Writes)
  BY FoundTyped
<1>4. /\ d \in Pointers \cup {Empty}
      /\ d.current # None => Loadable(d.current)
      /\ d.previous # None => Loadable(d.previous)
  BY DiscoveredStands
<1>5. \/ \E r \in Versions \cup {None} : op = Plan(kind, f.writes, r)
      \/ /\ ~Loadable(f.state.current)
         /\ \E p \in Pointers : /\ Loadable(p.current) /\ (p.previous # None => Loadable(p.previous))
                                /\ op = Plan(kind, f.writes \o WriteState(p), p.current)
  <2>1. CurrentPlan(kind, lost) =
          IF Loadable(f.state.current) THEN Plan(kind, f.writes, f.state.current)
          ELSE IF Loadable(f.state.previous)
               THEN Plan(kind, f.writes \o WriteState(back), f.state.previous)
          ELSE IF d.current # None THEN Plan(kind, f.writes \o WriteState(d), d.current)
          ELSE Plan(kind, f.writes, None)
    BY DEF CurrentPlan
  <2>2. f.state.current \in Versions \cup {None}
    BY <1>1 DEF Pointers, Empty
  <2>3. Loadable(f.state.previous) => back \in Pointers
    BY <1>1 DEF Pointers, Empty, Loadable
  <2>4. back.current = f.state.previous /\ back.previous = None
    OBVIOUS
  <2>5. d.current # None => d \in Pointers
    BY <1>4 DEF Empty
  <2> HIDE DEF f, d, back
  <2> QED
    BY <1>4, <2>1, <2>2, <2>3, <2>4, <2>5
<1> HIDE DEF f, d, op
<1>6. CASE \E r \in Versions \cup {None} : op = Plan(kind, f.writes, r)
  <2>1. op \in HintsOps /\ op.writes = f.writes
    BY <1>3, <1>6 DEF Plan, HintsOps
  <2>2. Sound(op.writes) /\ (Ascends(f.writes) => Ascends(op.writes))
    BY <1>1, <2>1
  <2> QED
    BY <1>2, <2>1, <2>2 DEF PlanGood, op
<1>7. ASSUME ~Loadable(f.state.current), NEW p \in Pointers, Loadable(p.current),
             p.previous # None => Loadable(p.previous),
             op = Plan(kind, f.writes \o WriteState(p), p.current)
      PROVE  PlanGood(op, lost)
  <2>1. f.writes = <<>>
    BY <1>1, <1>7
  <2>2. BackedPair(f.writes, Len(f.writes) + 1, p)
    BY <1>7, PairIsBacked
  <2>3. /\ f.writes \o WriteState(p) \in Seq(Writes)
        /\ Sound(f.writes \o WriteState(p))
        /\ Ascends(f.writes) /\ selected = None => Ascends(f.writes \o WriteState(p))
    <3>1. \A j \in 1 .. Len(f.writes) : FALSE
      BY <2>1
    <3> QED
      BY <1>1, <1>3, <2>2, <3>1, StateAppended
  <2> DEFINE t == f.writes \o WriteState(p)
  <2>4. op = Plan(kind, t, p.current) /\ p.current \in Versions
    BY <1>7 DEF Pointers
  <2>5. t \in Seq(Writes) /\ Sound(t) /\ (Ascends(f.writes) /\ selected = None => Ascends(t))
    BY <2>3
  <2> HIDE DEF t
  <2>6. op \in HintsOps /\ op.writes = t
    BY <2>4, <2>5 DEF Plan, HintsOps
  <2> QED
    BY <1>2, <1>7, <2>5, <2>6 DEF PlanGood
<1> QED
  BY <1>5, <1>6, <1>7 DEF op

LEMMA RollbackGood ==
    ASSUME HintsTypeOK, StateNamesIntactHints, SelectedStands,
           NEW lost \in BOOLEAN, lost => ~Readable
    PROVE  PlanGood(RollbackPlan(lost), lost)
<1> DEFINE f == LoadOrDiscover(lost)
           p == [current |-> f.state.previous, previous |-> f.state.current]
           op == RollbackPlan(lost)
<1>1. f.state \in Pointers \cup {Empty} /\ Sound(f.writes)
  BY FoundStands
<1>2. f.writes \in Seq(Writes)
  BY FoundTyped
<1>3. RollbackPlan(lost) =
        IF Loadable(f.state.current) /\ Loadable(f.state.previous)
        THEN Plan("rollback", f.writes \o WriteState(p), f.state.previous)
        ELSE Plan("rollback", f.writes, None)
  BY DEF RollbackPlan
<1> HIDE DEF f, op
<1>4. CASE Loadable(f.state.current) /\ Loadable(f.state.previous)
  <2>1. p \in Pointers /\ p.current \in Versions
    BY <1>1, <1>4 DEF Pointers, Empty, Loadable
  <2>2. BackedPair(f.writes, Len(f.writes) + 1, p)
    BY <1>4, <2>1, PairIsBacked
  <2> DEFINE t == f.writes \o WriteState(p)
  <2> HIDE DEF p
  <2>3. t \in Seq(Writes) /\ Sound(t)
    BY <1>1, <1>2, <2>1, <2>2, StateAppended
  <2>4. op = Plan("rollback", t, p.current)
    BY <1>3, <1>4 DEF op, p
  <2> HIDE DEF t
  <2>5. op \in HintsOps /\ op.writes = t /\ op.kind = "rollback"
    BY <2>1, <2>3, <2>4 DEF Plan, HintsOps
  <2> QED
    BY <2>3, <2>5 DEF PlanGood, op
<1>5. CASE ~(Loadable(f.state.current) /\ Loadable(f.state.previous))
  <2>1. op = Plan("rollback", f.writes, None)
    BY <1>3, <1>5 DEF op
  <2>2. op \in HintsOps /\ op.writes = f.writes /\ op.kind = "rollback"
    BY <1>2, <2>1 DEF Plan, HintsOps
  <2> QED
    BY <1>1, <2>2 DEF PlanGood, op
<1> QED
  BY <1>4, <1>5

-----------------------------------------------------------------------------
LEMMA EmptyStoreStands == HintsInit => HintsInv
<1> SUFFICES ASSUME HintsInit
             PROVE  HintsInv
  OBVIOUS
<1>1. hintsOp \in HintsOps /\ hintsOp.writes = <<>>
  BY DEF HintsInit, Free, HintsOps, None
<1>2. HintsTypeOK
  BY <1>1 DEF HintsInit, HintsTypeOK, HintsOps, Condition
<1>3. PlanStands
  BY <1>1 DEF PlanStands, Sound, Ascends
<1> QED
  BY <1>2, <1>3 DEF HintsInv, HintsInit, StateNamesIntactHints, SelectedStands, Readable, Empty, None

LEMMA BeginKeeps == HintsInv /\ Begin => HintsInv'
<1> SUFFICES ASSUME HintsInv, Begin
             PROVE  HintsInv'
  OBVIOUS
<1> USE DEF HintsInv
<1>1. PICK lost \in BOOLEAN :
        /\ lost => ~Readable /\ hintsFaults < MaxFaults
        /\ hintsFaults' = IF lost THEN hintsFaults + 1 ELSE hintsFaults
        /\ \/ ~fallback /\ hintsOp' = ActivatePlan(lost)
           \/ fallback /\ hintsOp' = CurrentPlan("fallback", lost)
           \/ hintsOp' = CurrentPlan("read", lost)
           \/ hintsOp' = RollbackPlan(lost)
  BY DEF Begin
<1>2. UNCHANGED <<manifest, blob, hintsState, configured, fallback, selected, materialFaults>>
  BY DEF Begin
<1>3. PlanGood(hintsOp', lost)
  BY <1>1, ActivateGood, CurrentGood, RollbackGood
<1>4. hintsFaults' \in Nat /\ hintsFaults' >= hintsFaults /\ hintsFaults \in Nat
  BY <1>1 DEF HintsTypeOK
<1>5. HintsTypeOK'
  BY <1>2, <1>3, <1>4 DEF HintsTypeOK, PlanGood, HintsOps
<1>6. StateNamesIntactHints'
  BY <1>2 DEF StateNamesIntactHints, Loadable
<1>7. SelectedStands'
  BY <1>2, <1>4 DEF SelectedStands, Readable, Loadable
<1>8. hintsFaults' <= 1 => (lost => selected = None)
  BY <1>1, <1>4 DEF SelectedStands
<1>9. (Sound(hintsOp.writes))' = Sound(hintsOp'.writes)
  BY <1>2 DEF Sound, BackedPair, Backed, Precedes
<1>10. (Ascends(hintsOp.writes))' = Ascends(hintsOp'.writes)
  BY <1>2 DEF Ascends
<1>11. PlanStands'
  BY <1>2, <1>3, <1>8, <1>9, <1>10 DEF PlanStands, PlanGood
<1> QED
  BY <1>5, <1>6, <1>7, <1>11

(* Carrying out the first write of a plan leaves a plan that stands.        *)
LEMMA WriteKeeps == HintsInv /\ WriteHints => HintsInv'
<1> SUFFICES ASSUME HintsInv, WriteHints
             PROVE  HintsInv'
  OBVIOUS
<1> USE DEF HintsInv
<1>1. hintsOp.writes \in Seq(Writes) /\ hintsOp.writes # <<>> /\ hintsOp \in HintsOps
  BY DEF HintsTypeOK, WriteHints, HintsOps
<1> PICK ws, w, t : ws = hintsOp.writes /\ w = Head(ws) /\ t = Tail(ws)
  OBVIOUS
<1>2. /\ w \in Writes /\ w = ws[1] /\ 1 \in DOMAIN ws
      /\ t \in Seq(Writes) /\ Len(t) = Len(ws) - 1 /\ \A i \in 1 .. Len(t) : t[i] = ws[i + 1]
      /\ Len(ws) \in Nat /\ DOMAIN ws = 1 .. Len(ws) /\ DOMAIN t = 1 .. Len(t)
  <2> HIDE DEF Writes
  <2> QED
    BY <1>1
<1>3. /\ w.file # "collision"
      /\ manifest' = IF w.file = "manifest" THEN [manifest EXCEPT ![w.value] = "intact"] ELSE manifest
      /\ blob' = IF w.file = "blob" THEN [blob EXCEPT ![w.value] = "intact"] ELSE blob
      /\ hintsState' = IF Names(w) THEN w.value ELSE hintsState
      /\ selected' = IF Names(w) THEN w.value.current ELSE selected
      /\ hintsOp' = [hintsOp EXCEPT !.writes = t]
      /\ UNCHANGED <<configured, fallback, materialFaults, hintsFaults>>
  BY DEF WriteHints, Names
<1>4. hintsOp'.writes = t /\ hintsOp'.kind = hintsOp.kind /\ hintsOp' \in HintsOps
  BY <1>1, <1>2, <1>3 DEF HintsOps
<1>5. /\ w.file \in {"manifest", "blob"} => w.value \in Versions
      /\ Names(w) => w.value \in Pointers
      /\ w.file \in {"manifest", "blob", "collision", "state", "rebuild"}
  BY <1>2 DEF Writes, Names
<1>6. /\ manifest' \in [Versions -> Condition] /\ blob' \in [Versions -> Condition]
      /\ \A v \in Versions :
            /\ manifest'[v] = "intact" <=>
                  manifest[v] = "intact" \/ (w.file = "manifest" /\ w.value = v)
            /\ blob'[v] = "intact" <=> blob[v] = "intact" \/ (w.file = "blob" /\ w.value = v)
  BY <1>3, <1>5 DEF HintsTypeOK, Condition
<1>7. HintsTypeOK'
  <2>1. Names(w) => w.value.current \in Versions
    BY <1>5 DEF Pointers
  <2> QED
    BY <1>3, <1>4, <1>5, <1>6, <2>1 DEF HintsTypeOK, HintsOps
<1>8. ASSUME NEW v \in Versions, Loadable(v)
      PROVE  Loadable(v)'
  BY <1>6, <1>8 DEF Loadable
<1>9. materialFaults = 0 /\ Names(w) =>
         /\ Loadable(w.value.current)
         /\ w.value.previous # None => Loadable(w.value.previous)
  <2>1. materialFaults = 0 /\ Names(w) => BackedPair(ws, 1, w.value)
    BY <1>2 DEF PlanStands, Sound
  <2>2. \A f, v : ~Precedes(ws, 1, f, v)
    BY DEF Precedes
  <2>3. None \notin Versions
    BY HintsAssumption DEF None
  <2> QED
    BY <2>1, <2>2, <2>3 DEF BackedPair, Backed, Loadable
<1>10. StateNamesIntactHints'
  <2>1. ASSUME NEW v, v = None \/ v \in Versions, Loadable(v)
        PROVE  Loadable(v)'
    BY <1>8, <2>1 DEF Loadable
  <2>2. hintsState.current \in Versions \cup {None} /\ hintsState.previous \in Versions \cup {None}
    BY DEF HintsTypeOK, Pointers, Empty
  <2>3. Names(w) => w.value.current \in Versions /\ w.value.previous \in Versions \cup {None}
    BY <1>5 DEF Pointers
  <2>4. CASE Names(w)
    BY <1>3, <1>9, <2>1, <2>3, <2>4 DEF StateNamesIntactHints
  <2>5. CASE ~Names(w)
    BY <1>3, <2>1, <2>2, <2>5 DEF StateNamesIntactHints
  <2> QED
    BY <2>4, <2>5
<1>11. SelectedStands'
  <2>1. Names(w) => w.value.current \in Versions /\ w.value.current # None
    BY <1>5, HintsAssumption DEF Pointers, None
  <2>2. selected \in Versions \cup {None}
    BY DEF HintsTypeOK
  <2>3. CASE Names(w)
    BY <1>3, <1>8, <1>9, <2>1, <2>3 DEF SelectedStands, Readable
  <2>4. CASE ~Names(w)
    BY <1>3, <1>8, <2>2, <2>4 DEF SelectedStands, Readable
  <2> QED
    BY <2>3, <2>4
<1>12. ASSUME NEW i \in 1 .. Len(t), NEW v, Backed(ws, i + 1, v)
       PROVE  Backed(t, i, v)'
  <2>1. ASSUME NEW f, Precedes(ws, i + 1, f, v)
        PROVE  (w.file = f /\ w.value = v) \/ Precedes(t, i, f, v)
    <3>1. PICK j \in 1 .. i : ws[j].file = "collision" \/ (ws[j].file = f /\ ws[j].value = v)
      BY <1>2, <2>1 DEF Precedes
    <3>2. CASE j = 1
      BY <1>2, <1>3, <3>1, <3>2
    <3>3. CASE j # 1
      <4>1. j - 1 \in 1 .. (i - 1) /\ j - 1 \in 1 .. Len(t) /\ (j - 1) + 1 = j
        BY <1>2, <3>3
      <4>2. t[j - 1] = ws[j]
        BY <1>2, <4>1
      <4> QED
        BY <3>1, <4>1, <4>2 DEF Precedes
    <3> QED
      BY <3>2, <3>3
  <2> QED
    BY <1>6, <1>12, <2>1 DEF Backed
<1>13. materialFaults = 0 => Sound(t)'
  <2> SUFFICES ASSUME materialFaults = 0, NEW i \in DOMAIN t, Names(t[i])
               PROVE  BackedPair(t, i, t[i].value)'
    BY DEF Sound
  <2>1. t[i] = ws[i + 1] /\ i + 1 \in DOMAIN ws /\ i \in 1 .. Len(t)
    BY <1>2
  <2>2. BackedPair(ws, i + 1, t[i].value)
    BY <2>1 DEF PlanStands, Sound
  <2> QED
    BY <1>12, <2>1, <2>2 DEF BackedPair
<1>14. ASSUME Ascends(ws)
       PROVE  Ascends(t)'
  <2> SUFFICES ASSUME NEW i \in DOMAIN t, Names(t[i])
               PROVE  /\ selected' # None => NotOlder(selected', t[i].value.current)
                      /\ \A j \in 1 .. (i - 1) :
                            Names(t[j]) => NotOlder(t[j].value.current, t[i].value.current)
    BY DEF Ascends
  <2>1. t[i] = ws[i + 1] /\ i + 1 \in DOMAIN ws /\ i \in 1 .. Len(t)
    BY <1>2
  <2>2. /\ selected # None => NotOlder(selected, t[i].value.current)
        /\ \A j \in 1 .. i : Names(ws[j]) => NotOlder(ws[j].value.current, t[i].value.current)
    BY <1>14, <2>1 DEF Ascends
  <2>3. Names(w) => NotOlder(w.value.current, t[i].value.current)
    BY <1>2, <2>1, <2>2
  <2>4. \A j \in 1 .. (i - 1) : t[j] = ws[j + 1] /\ j + 1 \in 1 .. i
    BY <1>2, <2>1
  <2> QED
    BY <1>3, <2>2, <2>3, <2>4
<1>15. PlanStands'
  <2>1. hintsOp.writes' = t
    BY <1>4
  <2> QED
    BY <1>3, <1>4, <1>13, <1>14, <2>1 DEF PlanStands
<1> QED
  BY <1>7, <1>10, <1>11, <1>15

(* The other steps: nothing is left to write, or a fault has been counted.  *)
LEMMA HintsStep == HintsInv /\ [HintsNext]_hintsVars => HintsInv'
<1> SUFFICES ASSUME HintsInv, [HintsNext]_hintsVars
             PROVE  HintsInv'
  OBVIOUS
<1>1. ASSUME UNCHANGED <<manifest, blob, hintsState, selected, materialFaults, hintsFaults>>,
             hintsOp' = hintsOp \/ hintsOp' = Free, configured' \in Versions \cup {Torn}
      PROVE  HintsInv'
  <2>1. Free \in HintsOps /\ Free.writes = <<>>
    BY DEF Free, HintsOps, None
  <2>2. HintsTypeOK'
    BY <1>1, <2>1 DEF HintsInv, HintsTypeOK, HintsOps
  <2>3. StateNamesIntactHints' /\ SelectedStands'
    BY <1>1 DEF HintsInv, StateNamesIntactHints, SelectedStands, Loadable, Readable
  <2>4. PlanStands'
    <3>1. CASE hintsOp' = Free
      BY <2>1, <3>1 DEF PlanStands, Sound, Ascends
    <3>2. CASE hintsOp' = hintsOp
      BY <1>1, <3>2
         DEF HintsInv, PlanStands, Sound, Ascends, BackedPair, Backed, Precedes
    <3> QED
      BY <1>1, <3>1, <3>2
  <2> QED
    BY <2>2, <2>3, <2>4 DEF HintsInv
<1>2. configured \in Versions \cup {Torn}
  BY DEF HintsInv, HintsTypeOK
<1>3. CASE Deliver
  BY <1>1, <1>3 DEF Deliver
<1>4. CASE Begin
  BY <1>4, BeginKeeps
<1>5. CASE WriteHints
  BY <1>5, WriteKeeps
<1>6. CASE ReturnHints
  BY <1>1, <1>2, <1>6 DEF ReturnHints
<1>7. CASE WriteHintsFails
  BY <1>1, <1>2, <1>7 DEF WriteHintsFails
<1>8. CASE KilledInHints
  BY <1>1, <1>2, <1>8 DEF KilledInHints
<1>9. CASE MaterialFault
  <2>1. /\ materialFaults' = materialFaults + 1 /\ hintsFaults' = hintsFaults + 1
        /\ UNCHANGED <<hintsState, configured, hintsOp, fallback, selected>>
        /\ manifest' \in [Versions -> Condition] /\ blob' \in [Versions -> Condition]
    BY <1>9 DEF MaterialFault, HintsInv, HintsTypeOK, Condition
  <2>2. materialFaults' # 0 /\ materialFaults' \in Nat /\ hintsFaults' \in Nat /\ hintsFaults' > 0
    BY <2>1 DEF HintsInv, HintsTypeOK
  <2>3. HintsTypeOK'
    BY <2>1, <2>2 DEF HintsInv, HintsTypeOK
  <2>4. StateNamesIntactHints' /\ PlanStands'
    BY <2>2 DEF StateNamesIntactHints, PlanStands
  <2>5. SelectedStands'
    BY <2>1, <2>2 DEF HintsInv, SelectedStands, Readable
  <2> QED
    BY <2>3, <2>4, <2>5 DEF HintsInv
<1>10. CASE StateFault
  <2>1. /\ hintsFaults' = hintsFaults + 1 /\ hintsState' = Empty /\ hintsOp = Free
        /\ UNCHANGED <<manifest, blob, configured, hintsOp, fallback, selected, materialFaults>>
    BY <1>10 DEF StateFault
  <2>2. hintsFaults' \in Nat /\ hintsFaults' > 0
    BY <2>1 DEF HintsInv, HintsTypeOK
  <2>3. Free.writes = <<>>
    BY DEF Free
  <2>4. HintsTypeOK'
    BY <2>1, <2>2 DEF HintsInv, HintsTypeOK
  <2>5. StateNamesIntactHints' /\ SelectedStands'
    BY <2>1, <2>2 DEF HintsInv, StateNamesIntactHints, SelectedStands, Readable, Loadable, Empty
  <2>6. PlanStands'
    BY <2>1, <2>3 DEF PlanStands, Sound, Ascends
  <2> QED
    BY <2>4, <2>5, <2>6 DEF HintsInv
<1>11. CASE UNCHANGED hintsVars
  BY <1>1, <1>2, <1>11 DEF hintsVars
<1> QED
  BY <1>3, <1>4, <1>5, <1>6, <1>7, <1>8, <1>9, <1>10, <1>11 DEF HintsNext

-----------------------------------------------------------------------------
(* Whatever kill or failed write cuts an operation short, state.json names  *)
(* only material that is on the disk in full, as long as no fault damages   *)
(* the material (persistHintsMaterial, writeHintsState:hints_store.go).     *)
THEOREM NamedHintsLoad == HintsSpec => []StateNamesIntactHints
<1>1. HintsInv => StateNamesIntactHints
  BY DEF HintsInv
<1> QED
  BY <1>1, EmptyStoreStands, HintsStep, PTL DEF HintsSpec

(* No refresh selects older hints, for any deliveries and publication times *)
(* (ActivateHints, loadOrDiscoverHintsState:hints_store.go).                *)
THEOREM RefreshesGoForward == HintsSpec => HintsNeverGoBack
<1> DEFINE Forward ==
        selected # None /\ selected' # selected /\ hintsOp.kind # "rollback" /\ hintsFaults <= 1
        => \/ PublishedAt[selected'] >= PublishedAt[selected]
           \/ materialFaults > 0
<1>1. HintsInv /\ [HintsNext]_hintsVars => [Forward]_hintsVars
  <2> SUFFICES ASSUME HintsInv, HintsNext, selected # None, selected' # selected,
                      hintsOp.kind # "rollback", hintsFaults <= 1, ~(materialFaults > 0)
               PROVE  PublishedAt[selected'] >= PublishedAt[selected]
    OBVIOUS
  <2>1. WriteHints
    BY DEF HintsNext, Deliver, Begin, ReturnHints, WriteHintsFails, KilledInHints,
           MaterialFault, StateFault
  <2> PICK ws : ws = hintsOp.writes
    OBVIOUS
  <2>2. ws \in Seq(Writes) /\ ws # <<>> /\ materialFaults = 0
    BY <2>1 DEF WriteHints, HintsInv, HintsTypeOK, HintsOps
  <2>3. 1 \in DOMAIN ws /\ Head(ws) = ws[1] /\ ws[1] \in Writes
    <3> HIDE DEF Writes
    <3> QED
      BY <2>2
  <2>4. Names(ws[1]) /\ selected' = ws[1].value.current
    BY <2>1, <2>3 DEF WriteHints, Names
  <2>5. NotOlder(selected, selected')
    BY <2>2, <2>3, <2>4 DEF HintsInv, PlanStands, Ascends
  <2>6. ws[1].value \in Pointers
    BY <2>3, <2>4 DEF Writes, Names
  <2>7. selected \in Versions /\ selected' \in Versions
    BY <2>4, <2>6 DEF HintsInv, HintsTypeOK, Pointers
  <2>8. PublishedAt[selected] \in Nat /\ PublishedAt[selected'] \in Nat
    BY <2>7, HintsAssumption
  <2> QED
    BY <2>5, <2>8 DEF NotOlder
<1>2. HintsNeverGoBack <=> [][Forward]_hintsVars
  BY DEF HintsNeverGoBack
<1> HIDE DEF Forward
<1> QED
  BY <1>1, <1>2, EmptyStoreStands, HintsStep, PTL DEF HintsSpec

LEMMA PlanFields ==
    ASSUME NEW kind, NEW writes, NEW result
    PROVE  Plan(kind, writes, result).writes = writes /\ Plan(kind, writes, result).result = result
BY DEF Plan

(* A read serves an intact version whenever there is one.                   *)
THEOREM IntactHintsAreFound == HintsSpec => []IntactHintsAreServed
<1>1. HintsInv => IntactHintsAreServed
  <2> SUFFICES ASSUME HintsInv, NEW v \in Versions, Loadable(v)
               PROVE  LET plan == CurrentPlan("read", FALSE)
                      IN  /\ Loadable(plan.result)
                          /\ IF plan.writes = <<>> THEN hintsState.current = plan.result
                             ELSE plan.writes[Len(plan.writes)].value.current = plan.result
    BY DEF IntactHintsAreServed
  <2> DEFINE f == LoadOrDiscover(FALSE)
             d == DiscoverHintsState
             back == [current |-> f.state.previous, previous |-> None]
             plan == CurrentPlan("read", FALSE)
  <2>1. HintsTypeOK
    BY DEF HintsInv
  <2>2. d.current # None /\ Loadable(d.current)
    BY <2>1, DiscoveredStands
  <2>3. \/ Readable /\ f.state = hintsState /\ f.writes = <<>>
        \/ /\ ~Readable /\ f.state.current # None
           /\ f.writes = <<[file |-> "rebuild", value |-> f.state]>> /\ Loadable(f.state.current)
    <3>1. Readable \/ f = [state |-> d, 
                           writes |-> <<[file |-> "rebuild", value |-> d]>>]
      BY <2>2 DEF LoadOrDiscover
    <3>2. Readable => f.state = hintsState /\ f.writes = <<>>
      BY DEF LoadOrDiscover
    <3> HIDE DEF f, d
    <3> QED
      BY <2>2, <3>1, <3>2
  <2>4. plan = IF Loadable(f.state.current) THEN Plan("read", f.writes, f.state.current)
               ELSE IF Loadable(f.state.previous)
                    THEN Plan("read", f.writes \o WriteState(back), f.state.previous)
               ELSE Plan("read", f.writes \o WriteState(d), d.current)
    BY <2>2 DEF CurrentPlan
  <2>5. back.current = f.state.previous
    OBVIOUS
  <2> HIDE DEF f, d, back
  <2>6. ASSUME NEW p, NEW r, p.current = r, f.writes = <<>>,
               plan = Plan("read", f.writes \o WriteState(p), r)
        PROVE  plan.writes # <<>> /\ plan.result = r
               /\ plan.writes[Len(plan.writes)].value.current = r
    <3> PICK w : w = [file |-> "state", value |-> p]
      OBVIOUS
    <3> PICK ws : ws = f.writes \o WriteState(p)
      OBVIOUS
    <3> HIDE DEF plan
    <3>1. w.value = p /\ ws = <<w>>
      BY <2>6 DEF WriteState
    <3>2. ws # <<>> /\ Len(ws) = 1 /\ ws[1] = w
      BY <3>1
    <3>3. plan.writes = ws /\ plan.result = r
      BY <2>6, PlanFields
    <3> QED
      BY <2>6, <3>1, <3>2, <3>3
  <2>7. CASE Loadable(f.state.current)
    <3>1. plan.writes = f.writes /\ plan.result = f.state.current
      <4> HIDE DEF plan
      <4> QED
        BY <2>4, <2>7, PlanFields
    <3>2. CASE Readable /\ f.state = hintsState /\ f.writes = <<>>
      BY <2>7, <3>1, <3>2
    <3>3. CASE f.writes = <<[file |-> "rebuild", value |-> f.state]>>
      <4> PICK w : w = [file |-> "rebuild", value |-> f.state]
        OBVIOUS
      <4> PICK ws : ws = f.writes
        OBVIOUS
      <4>1. w.value = f.state /\ ws # <<>> /\ Len(ws) = 1 /\ ws[1] = w
        BY <3>3
      <4> QED
        BY <2>7, <3>1, <4>1
    <3> QED
      BY <2>3, <3>2, <3>3
  <2>8. CASE ~Loadable(f.state.current) /\ Loadable(f.state.previous)
    BY <2>3, <2>4, <2>5, <2>6, <2>8
  <2>9. CASE ~Loadable(f.state.current) /\ ~Loadable(f.state.previous)
    BY <2>2, <2>3, <2>4, <2>6, <2>9
  <2> QED
    BY <2>7, <2>8, <2>9
<1> QED
  BY <1>1, EmptyStoreStands, HintsStep, PTL DEF HintsSpec

-----------------------------------------------------------------------------
CacheStages == {"none", "activate", "read", "store"}

CacheTypeOK ==
    /\ clock \in Nat /\ generation \in 1..MaxGeneration
    /\ appeared \in [1..MaxGeneration -> Nat]
    /\ cache \in [filled : BOOLEAN, seen : Nat, expires : Nat, overtaken : BOOLEAN]
    /\ fill \in [stage : CacheStages, now : Nat, seen : Nat, overtaken : BOOLEAN]
    /\ announced \in Nat /\ announced <= generation
    /\ reported \in [seen : Nat, at : Nat] /\ reported.seen <= generation

\* When what follows generation g appeared.
Since(g) == appeared[g + 1]

(* A collection that saw older material began before the material changed;  *)
(* one that no invalidation overtook saw what the last one was about.       *)
FillsAreTimed ==
    /\ Filling => fill.now <= clock /\ clock <= fill.now + CollectTimeout
    /\ fill.stage = "store" =>
          /\ fill.seen \in 1..generation
          /\ fill.seen < generation => fill.now <= Since(fill.seen)
          /\ fill.seen < announced => fill.overtaken

(* So does what it stored, which expires a lifetime after it began.         *)
EntriesExpire ==
    cache.filled =>
      /\ cache.seen \in 1..generation
      /\ cache.expires <= clock + TTL
      /\ cache.seen < generation => cache.expires <= Since(cache.seen) + TTL
      /\ cache.seen < announced => cache.overtaken

ReportsAreTimed ==
    /\ reported.at <= clock
    /\ reported.seen # 0 /\ reported.seen < generation =>
          reported.at < Since(reported.seen) + TTL

CacheInv == CacheTypeOK /\ FillsAreTimed /\ EntriesExpire /\ ReportsAreTimed

-----------------------------------------------------------------------------
LEMMA EmptyCacheIsFresh == CacheInit => CacheInv
<1> SUFFICES ASSUME CacheInit
             PROVE  CacheInv
  OBVIOUS
<1> USE CacheAssumption DEF CacheInit, NoSnapshot, NoFill
<1>1. CacheTypeOK
  <2>1. fill \in [stage : CacheStages, now : Nat, seen : Nat, overtaken : BOOLEAN]
    BY DEF CacheStages
  <2>2. cache \in [filled : BOOLEAN, seen : Nat, expires : Nat, overtaken : BOOLEAN]
    OBVIOUS
  <2>3. appeared \in [1..MaxGeneration -> Nat] /\ generation \in 1..MaxGeneration
    OBVIOUS
  <2>4. announced \in Nat /\ announced <= generation /\ clock \in Nat
    OBVIOUS
  <2>5. reported \in [seen : Nat, at : Nat] /\ reported.seen <= generation
    OBVIOUS
  <2> QED
    BY <2>1, <2>2, <2>3, <2>4, <2>5 DEF CacheTypeOK
<1>2. FillsAreTimed /\ EntriesExpire /\ ReportsAreTimed
  BY DEF FillsAreTimed, EntriesExpire, ReportsAreTimed, Filling
<1> QED
  BY <1>1, <1>2 DEF CacheInv

(* The step that matters: new material makes every snapshot taken so far    *)
(* older than the disk, and all of them began at the latest now.            *)
LEMMA WhatIsReplaced ==
    ASSUME CacheInv, MayReplace
    PROVE  /\ generation' \in 1..MaxGeneration /\ generation <= generation'
           /\ appeared' \in [1..MaxGeneration -> Nat]
           /\ \A g \in 1..generation - 1 : appeared'[g + 1] = appeared[g + 1]
           /\ generation < generation' =>
                 generation' = generation + 1 /\ appeared'[generation + 1] = clock
<1> USE CacheAssumption
<1>1. /\ generation \in 1..MaxGeneration /\ appeared \in [1..MaxGeneration -> Nat]
      /\ clock \in Nat /\ MaxGeneration \in Nat
  BY DEF CacheInv, CacheTypeOK
<1>2. CASE Replaced
  <2> DEFINE next == generation + 1
  <2>1. /\ generation' = next /\ appeared' = [appeared EXCEPT ![next] = clock]
        /\ next \in 1..MaxGeneration /\ next = generation + 1
    BY <1>1, <1>2 DEF Replaced
  <2> HIDE DEF next
  <2>2. appeared'[next] = clock /\ appeared' \in [1..MaxGeneration -> Nat]
    BY <1>1, <2>1
  <2>3. ASSUME NEW g \in 1..generation - 1
        PROVE  appeared'[g + 1] = appeared[g + 1]
    <3>1. PICK h \in 1..MaxGeneration : h = g + 1 /\ h # next
      <4>1. g + 1 \in 1..MaxGeneration /\ g + 1 # next
        BY <1>1, <2>1
      <4> QED
        BY <4>1
    <3>2. appeared'[h] = appeared[h]
      BY <1>1, <2>1, <3>1
    <3> QED
      BY <3>1, <3>2
  <2> QED
    BY <1>1, <2>1, <2>2, <2>3
<1>3. CASE UNCHANGED <<generation, appeared>>
  BY <1>1, <1>3
<1> QED
  BY <1>2, <1>3 DEF MayReplace

(* So a snapshot that is about a generation keeps its distance to what      *)
(* replaced it, from the start of its collection to the end of its life.    *)
LEMMA DistanceIsKept ==
    ASSUME CacheInv, MayReplace, NEW g \in 1..generation, NEW n \in Nat, NEW d \in Nat,
           n <= clock + d, g < generation => n <= appeared[g + 1] + d
    PROVE  g < generation' => n <= appeared'[g + 1] + d
<1>1. /\ generation' \in 1..MaxGeneration /\ generation <= generation'
      /\ \A h \in 1..generation - 1 : appeared'[h + 1] = appeared[h + 1]
      /\ generation < generation' =>
            generation' = generation + 1 /\ appeared'[generation + 1] = clock
  BY WhatIsReplaced
<1>2. generation \in Nat /\ clock \in Nat /\ MaxGeneration \in Nat
  BY CacheAssumption DEF CacheInv, CacheTypeOK
<1>3. CASE g = generation
  BY <1>1, <1>2, <1>3
<1>4. CASE g # generation
  <2>1. g \in 1..generation - 1 /\ g < generation
    BY <1>2, <1>4
  <2> QED
    BY <1>1, <2>1
<1> QED
  BY <1>3, <1>4

(* What every step that may replace the material keeps.                     *)
LEMMA ReplacementKeepsTime ==
    ASSUME CacheInv, MayReplace, UNCHANGED <<clock, cache, announced, reported>>
    PROVE  /\ EntriesExpire' /\ ReportsAreTimed'
           /\ fill' \in [stage : CacheStages, now : Nat, seen : Nat, overtaken : BOOLEAN]
                => CacheTypeOK'
<1> USE CacheAssumption
<1>1. /\ generation' \in 1..MaxGeneration /\ generation <= generation'
      /\ appeared' \in [1..MaxGeneration -> Nat]
  BY WhatIsReplaced
<1>2. /\ generation \in 1..MaxGeneration /\ clock \in Nat /\ TTL \in Nat /\ MaxGeneration \in Nat
      /\ announced \in Nat /\ announced <= generation
      /\ cache \in [filled : BOOLEAN, seen : Nat, expires : Nat, overtaken : BOOLEAN]
      /\ reported \in [seen : Nat, at : Nat] /\ reported.seen <= generation
  BY DEF CacheInv, CacheTypeOK
<1>3. fill' \in [stage : CacheStages, now : Nat, seen : Nat, overtaken : BOOLEAN] => CacheTypeOK'
  <2>1. announced <= generation' /\ reported.seen <= generation'
    BY <1>1, <1>2
  <2> QED
    BY <1>1, <1>2, <2>1 DEF CacheTypeOK
<1>4. EntriesExpire'
  <2> SUFFICES ASSUME cache.filled
               PROVE  /\ cache.seen \in 1..generation'
                      /\ cache.expires <= clock + TTL
                      /\ cache.seen < generation' => cache.expires <= appeared'[cache.seen + 1] + TTL
                      /\ cache.seen < announced => cache.overtaken
    BY DEF EntriesExpire, Since
  <2>1. /\ cache.seen \in 1..generation /\ cache.expires <= clock + TTL /\ cache.expires \in Nat
        /\ cache.seen < generation => cache.expires <= appeared[cache.seen + 1] + TTL
        /\ cache.seen < announced => cache.overtaken
    BY <1>2 DEF CacheInv, EntriesExpire, Since
  <2>2. cache.seen < generation' => cache.expires <= appeared'[cache.seen + 1] + TTL
    BY <1>2, <2>1, DistanceIsKept
  <2>3. cache.seen \in 1..generation'
    BY <1>1, <1>2, <2>1
  <2> QED
    BY <2>1, <2>2, <2>3
<1>5. ReportsAreTimed'
  <2> DEFINE n == reported.at + 1
  <2>1. reported.at <= clock /\ reported.at \in Nat /\ n \in Nat /\ n <= clock + TTL
    BY <1>2 DEF CacheInv, ReportsAreTimed
  <2>2. ASSUME reported.seen # 0, reported.seen < generation'
        PROVE  reported.at < appeared'[reported.seen + 1] + TTL
    <3>1. reported.seen \in 1..generation
      BY <1>2, <2>2
    <3>2. reported.seen < generation =>
            appeared[reported.seen + 1] \in Nat /\ reported.at < appeared[reported.seen + 1] + TTL
      <4>1. reported.seen < generation => reported.seen + 1 \in 1..MaxGeneration
        BY <1>2, <3>1
      <4>2. appeared \in [1..MaxGeneration -> Nat]
        BY DEF CacheInv, CacheTypeOK
      <4>3. reported.seen < generation => reported.at < appeared[reported.seen + 1] + TTL
        BY <2>2 DEF CacheInv, ReportsAreTimed, Since
      <4> QED
        BY <4>1, <4>2, <4>3
    <3>3. reported.seen < generation => n <= appeared[reported.seen + 1] + TTL
      BY <1>2, <2>1, <3>2
    <3> HIDE DEF n
    <3>4. n <= appeared'[reported.seen + 1] + TTL
      BY <1>2, <2>1, <2>2, <3>1, <3>3, DistanceIsKept
    <3>5. appeared'[reported.seen + 1] \in Nat
      <4>1. reported.seen + 1 \in 1..MaxGeneration
        BY <1>1, <1>2, <2>2
      <4> QED
        BY <1>1, <4>1
    <3> QED
      BY <1>2, <2>1, <3>4, <3>5 DEF n
  <2> QED
    BY <2>1, <2>2 DEF ReportsAreTimed, Since
<1> QED
  BY <1>3, <1>4, <1>5

(* A replacement during a collection, which then saw something older.       *)
LEMMA OthersKeepTime ==
    ASSUME CacheInv, MayReplace, UNCHANGED <<clock, cache, fill, announced, reported>>
    PROVE  CacheInv'
<1> USE CacheAssumption
<1>1. /\ generation' \in 1..MaxGeneration /\ generation <= generation'
  BY WhatIsReplaced
<1>2. /\ generation \in 1..MaxGeneration /\ clock \in Nat /\ MaxGeneration \in Nat
      /\ fill \in [stage : CacheStages, now : Nat, seen : Nat, overtaken : BOOLEAN]
  BY DEF CacheInv, CacheTypeOK
<1>3. FillsAreTimed'
  <2>1. Filling => fill.now <= clock /\ clock <= fill.now + CollectTimeout
    BY DEF CacheInv, FillsAreTimed
  <2>2. ASSUME fill.stage = "store"
        PROVE  /\ fill.seen \in 1..generation'
               /\ fill.seen < generation' => fill.now <= appeared'[fill.seen + 1]
               /\ fill.seen < announced => fill.overtaken
    <3>1. /\ fill.seen \in 1..generation /\ fill.now <= clock + 0 /\ fill.now \in Nat
          /\ fill.seen < generation => fill.now <= appeared[fill.seen + 1]
          /\ fill.seen < announced => fill.overtaken
      BY <1>2, <2>1, <2>2 DEF CacheInv, FillsAreTimed, Filling, Since
    <3>2. \A g \in 1..generation : g < generation => appeared[g + 1] \in Nat
      BY <1>2 DEF CacheInv, CacheTypeOK
    <3>3. fill.seen < generation => fill.now <= appeared[fill.seen + 1] + 0
      BY <3>1, <3>2
    <3>4. fill.seen < generation' => fill.now <= appeared'[fill.seen + 1] + 0
      BY <3>1, <3>3, DistanceIsKept
    <3>5. fill.seen < generation' => appeared'[fill.seen + 1] \in Nat
      <4>1. fill.seen < generation' => fill.seen + 1 \in 1..MaxGeneration
        BY <1>1, <1>2, <3>1
      <4> QED
        BY <4>1, WhatIsReplaced
    <3>6. fill.seen \in 1..generation'
      BY <1>1, <1>2, <3>1
    <3> QED
      BY <3>1, <3>4, <3>5, <3>6
  <2> QED
    BY <2>1, <2>2 DEF FillsAreTimed, Filling, Since
<1> QED
  BY <1>2, <1>3, ReplacementKeepsTime DEF CacheInv

(* The two steps of a collection: what it saw is what the disk holds by now. *)
LEMMA CollectionKeepsTime ==
    ASSUME CacheInv, ActivateMaterial \/ ReadMaterial
    PROVE  CacheInv'
<1>1. /\ MayReplace /\ UNCHANGED <<clock, cache, announced, reported>>
      /\ fill.stage \in {"activate", "read"}
      /\ \/ fill' = [fill EXCEPT !.stage = "read"]
         \/ fill' = [fill EXCEPT !.stage = "store", !.seen = generation']
  BY DEF ActivateMaterial, ReadMaterial
<1>2. /\ generation' \in 1..MaxGeneration /\ generation <= generation'
  BY <1>1, WhatIsReplaced
<1>3. /\ fill' \in [stage : CacheStages, now : Nat, seen : Nat, overtaken : BOOLEAN]
      /\ fill'.now = fill.now /\ fill'.stage \in {"read", "store"}
      /\ fill'.stage = "store" => fill'.seen = generation'
  <2>1. fill \in [stage : CacheStages, now : Nat, seen : Nat, overtaken : BOOLEAN]
    BY DEF CacheInv, CacheTypeOK
  <2>2. generation' \in Nat
    BY <1>2, CacheAssumption
  <2>3. CASE fill' = [fill EXCEPT !.stage = "read"]
    BY <2>1, <2>3 DEF CacheStages
  <2>4. CASE fill' = [fill EXCEPT !.stage = "store", !.seen = generation']
    BY <2>1, <2>2, <2>4 DEF CacheStages
  <2> QED
    BY <1>1, <2>3, <2>4
<1>4. FillsAreTimed'
  <2>1. /\ fill.now <= clock /\ clock <= fill.now + CollectTimeout
        /\ announced <= generation' /\ generation' \in Nat
    BY <1>1, <1>2, CacheAssumption DEF CacheInv, CacheTypeOK, FillsAreTimed, Filling
  <2>2. fill'.stage = "store" =>
          fill'.seen \in 1..generation' /\ ~(fill'.seen < generation') /\ ~(fill'.seen < announced)
    BY <1>2, <1>3, <2>1 DEF CacheInv, CacheTypeOK
  <2> QED
    BY <1>1, <1>3, <2>1, <2>2 DEF FillsAreTimed, Filling, Since
<1> QED
  BY <1>1, <1>3, <1>4, ReplacementKeepsTime DEF CacheInv

(* A tick takes no collection beyond its timeout.                           *)
LEMMA TimePasses == ASSUME CacheInv, Tick PROVE CacheInv'
<1>1. /\ clock \in Nat /\ clock' = clock + 1 /\ clock <= clock'
      /\ Filling => clock' <= fill.now + CollectTimeout
      /\ UNCHANGED <<generation, appeared, refresh, cache, fill, announced, reported>>
  BY CacheAssumption DEF Tick, CacheInv, CacheTypeOK
<1>2. CacheTypeOK'
  BY <1>1 DEF CacheInv, CacheTypeOK
<1>3. FillsAreTimed'
  <2>1. Filling => fill.now <= clock'
    BY <1>1 DEF CacheInv, CacheTypeOK, FillsAreTimed, CacheStages
  <2> QED
    BY <1>1, <2>1 DEF CacheInv, FillsAreTimed, Filling, Since
<1>4. EntriesExpire'
  <2>1. cache.filled => cache.expires <= clock' + TTL
    BY <1>1, CacheAssumption DEF CacheInv, CacheTypeOK, EntriesExpire
  <2> QED
    BY <1>1, <2>1 DEF CacheInv, EntriesExpire, Since
<1>5. ReportsAreTimed'
  <2>1. reported.at <= clock'
    BY <1>1 DEF CacheInv, CacheTypeOK, ReportsAreTimed
  <2> QED
    BY <1>1, <2>1 DEF CacheInv, ReportsAreTimed, Since
<1> QED
  BY <1>2, <1>3, <1>4, <1>5 DEF CacheInv

(* A snapshot that is reported from the cache has not expired.              *)
LEMMA HitKeepsTime == ASSUME CacheInv, CacheHit PROVE CacheInv'
<1>1. /\ reported' = [seen |-> cache.seen, at |-> clock] /\ clock < cache.expires /\ cache.filled
      /\ UNCHANGED <<clock, generation, appeared, refresh, cache, fill, announced>>
  BY DEF CacheHit, Unexpired
<1>2. /\ reported'.seen = cache.seen /\ reported'.at = clock
      /\ cache.seen \in 1..generation /\ clock \in Nat /\ generation \in Nat
      /\ cache.expires \in Nat
  BY <1>1, CacheAssumption DEF CacheInv, CacheTypeOK, EntriesExpire
<1>3. CacheTypeOK'
  BY <1>1, <1>2 DEF CacheInv, CacheTypeOK
<1>4. FillsAreTimed' /\ EntriesExpire'
  BY <1>1 DEF CacheInv, FillsAreTimed, EntriesExpire, Filling, Since
<1>5. ReportsAreTimed'
  <2>1. ASSUME cache.seen < generation
        PROVE  clock < appeared[cache.seen + 1] + TTL
    <3>1. cache.expires <= appeared[cache.seen + 1] + TTL
      BY <1>1, <2>1 DEF CacheInv, EntriesExpire, Since
    <3>2. cache.seen + 1 \in 1..MaxGeneration
      BY <1>2, <2>1, CacheAssumption DEF CacheInv, CacheTypeOK
    <3>3. appeared[cache.seen + 1] \in Nat
      BY <3>2 DEF CacheInv, CacheTypeOK
    <3> QED
      BY <1>1, <1>2, <3>1, <3>3, CacheAssumption
  <2> QED
    BY <1>1, <1>2, <2>1 DEF ReportsAreTimed, Since
<1> QED
  BY <1>3, <1>4, <1>5 DEF CacheInv

(* A snapshot is stored, and reported, in time for what it saw.             *)
LEMMA StoreKeepsTime == ASSUME CacheInv, StoreFill PROVE CacheInv'
<1> USE CacheAssumption
<1> DEFINE entry == [filled |-> TRUE, seen |-> fill.seen, expires |-> fill.now + TTL,
                     overtaken |-> fill.overtaken]
<1>1. /\ fill.stage = "store" /\ cache' = entry
      /\ reported' = [seen |-> fill.seen, at |-> clock] /\ fill' = NoFill
      /\ UNCHANGED <<clock, generation, appeared, refresh, announced>>
  BY DEF StoreFill, Expiry
<1>2. /\ fill.seen \in 1..generation /\ fill.now \in Nat /\ clock \in Nat /\ generation \in Nat
      /\ fill.now <= clock /\ clock <= fill.now + CollectTimeout
      /\ fill.seen < generation => fill.now <= appeared[fill.seen + 1]
      /\ fill.seen < announced => fill.overtaken
      /\ fill.overtaken \in BOOLEAN
  BY <1>1 DEF CacheInv, CacheTypeOK, FillsAreTimed, Filling, Since
<1>3. /\ cache' \in [filled : BOOLEAN, seen : Nat, expires : Nat, overtaken : BOOLEAN]
      /\ cache'.seen = fill.seen /\ cache'.expires = fill.now + TTL /\ cache'.filled
      /\ cache'.overtaken = fill.overtaken
  BY <1>1, <1>2
<1>4. /\ reported' \in [seen : Nat, at : Nat] /\ reported'.seen = fill.seen /\ reported'.at = clock
      /\ reported'.seen <= generation
  BY <1>1, <1>2
<1>5. fill' \in [stage : CacheStages, now : Nat, seen : Nat, overtaken : BOOLEAN] /\ fill'.stage = "none"
  BY <1>1 DEF NoFill, CacheStages
<1> HIDE DEF entry
<1>6. CacheTypeOK'
  BY <1>1, <1>3, <1>4, <1>5 DEF CacheInv, CacheTypeOK
<1>7. FillsAreTimed'
  BY <1>5 DEF FillsAreTimed, Filling
<1>8. fill.seen < generation => appeared[fill.seen + 1] \in Nat
  <2>1. fill.seen < generation => fill.seen + 1 \in 1..MaxGeneration
    BY <1>2 DEF CacheInv, CacheTypeOK
  <2> QED
    BY <2>1 DEF CacheInv, CacheTypeOK
<1>9. EntriesExpire'
  <2>1. fill.now + TTL <= clock + TTL
    BY <1>2
  <2>2. fill.seen < generation => fill.now + TTL <= appeared[fill.seen + 1] + TTL
    BY <1>2, <1>8
  <2> QED
    BY <1>1, <1>2, <1>3, <2>1, <2>2 DEF EntriesExpire, Since
<1>10. ReportsAreTimed'
  <2>1. clock <= clock
    BY <1>2
  <2>2. fill.seen < generation => clock < appeared[fill.seen + 1] + TTL
    BY <1>2, <1>8
  <2> QED
    BY <1>1, <1>4, <2>1, <2>2 DEF ReportsAreTimed, Since
<1> QED
  BY <1>6, <1>7, <1>9, <1>10 DEF CacheInv

(* An invalidation empties the cache and marks the collection under way.    *)
LEMMA InvalidationKeepsTime == ASSUME CacheInv, Invalidate PROVE CacheInv'
<1>1. /\ cache' = NoSnapshot /\ fill' = [fill EXCEPT !.overtaken = Filling] /\ announced' = generation
      /\ UNCHANGED <<clock, generation, appeared, reported>>
  BY DEF Invalidate
<1>2. /\ fill \in [stage : CacheStages, now : Nat, seen : Nat, overtaken : BOOLEAN]
      /\ Filling \in BOOLEAN /\ generation \in Nat
  BY CacheAssumption DEF CacheInv, CacheTypeOK, Filling
<1>3. /\ fill' \in [stage : CacheStages, now : Nat, seen : Nat, overtaken : BOOLEAN]
      /\ fill'.stage = fill.stage /\ fill'.now = fill.now /\ fill'.seen = fill.seen
      /\ fill'.overtaken = Filling
  BY <1>1, <1>2
<1>4. /\ cache' \in [filled : BOOLEAN, seen : Nat, expires : Nat, overtaken : BOOLEAN]
      /\ cache'.filled = FALSE
  BY <1>1 DEF NoSnapshot
<1>5. announced' \in Nat /\ announced' <= generation
  BY <1>1, <1>2
<1>6. CacheTypeOK'
  BY <1>1, <1>3, <1>4, <1>5 DEF CacheInv, CacheTypeOK
<1>7. FillsAreTimed'
  BY <1>1, <1>3 DEF CacheInv, FillsAreTimed, Filling, Since
<1>8. EntriesExpire' /\ ReportsAreTimed'
  BY <1>1, <1>4 DEF CacheInv, EntriesExpire, ReportsAreTimed, Since
<1> QED
  BY <1>6, <1>7, <1>8 DEF CacheInv

(* A collection that begins now is not late.                                *)
LEMMA StartKeepsTime == CacheInv /\ StartFill => CacheInv'
<1> SUFFICES ASSUME CacheInv, StartFill
             PROVE  CacheInv'
  OBVIOUS
<1>1. /\ fill'.stage = "activate" /\ fill'.now = clock
      /\ fill' \in [stage : CacheStages, now : Nat, seen : Nat, overtaken : BOOLEAN]
      /\ UNCHANGED <<clock, generation, appeared, cache, announced, reported>>
  BY DEF StartFill, CacheInv, CacheTypeOK, CacheStages, NoFill
<1>2. CacheTypeOK'
  BY <1>1 DEF CacheInv, CacheTypeOK
<1>3. FillsAreTimed'
  BY <1>1, CacheAssumption DEF CacheInv, CacheTypeOK, FillsAreTimed, Filling
<1>4. EntriesExpire' /\ ReportsAreTimed'
  BY <1>1 DEF CacheInv, EntriesExpire, ReportsAreTimed, Since
<1> QED
  BY <1>2, <1>3, <1>4 DEF CacheInv

LEMMA CacheStep == CacheInv /\ [CacheNext]_cacheVars => CacheInv'
<1> SUFFICES ASSUME CacheInv, [CacheNext]_cacheVars
             PROVE  CacheInv'
  OBVIOUS
<1>1. CASE Tick
  BY <1>1, TimePasses
<1>2. CASE CacheHit
  BY <1>2, HitKeepsTime
<1>3. CASE StartFill
  BY <1>3, StartKeepsTime
<1>4. CASE ActivateMaterial
  BY <1>4, CollectionKeepsTime
<1>5. CASE ReadMaterial
  BY <1>5, CollectionKeepsTime
<1>6. CASE StoreFill
  BY <1>6, StoreKeepsTime
<1>7. CASE OtherCollection
  BY <1>7, OthersKeepTime DEF OtherCollection, MayReplace
<1>8. CASE StartRefresh
  BY <1>8, OthersKeepTime DEF StartRefresh
<1>9. CASE FinishRefresh
  BY <1>9, OthersKeepTime DEF FinishRefresh
<1>10. CASE Invalidate
  BY <1>10, InvalidationKeepsTime
<1>11. CASE UNCHANGED cacheVars
  BY <1>11 DEF cacheVars, CacheInv, CacheTypeOK, FillsAreTimed, EntriesExpire, ReportsAreTimed,
               Since, Filling
<1> QED
  BY <1>1, <1>2, <1>3, <1>4, <1>5, <1>6, <1>7, <1>8, <1>9, <1>10, <1>11 DEF CacheNext

-----------------------------------------------------------------------------
(* However long a collection takes, whoever replaces the material and       *)
(* wherever the replacement and the invalidation fall in a collection,      *)
(* replaced material is neither cached nor reported TTL after that          *)
(* (cachedDependencySnapshot, dnsRootMaterialLoop,                          *)
(* collectDNSRootMaterialReadiness).                                        *)
THEOREM CacheForgets == CacheSpec => []StaleReadinessExpires
<1>1. CacheInv => StaleReadinessExpires
  BY DEF CacheInv, CacheTypeOK, EntriesExpire, ReportsAreTimed, Since, StaleReadinessExpires
<1> QED
  BY <1>1, EmptyCacheIsFresh, CacheStep, PTL DEF CacheSpec

-----------------------------------------------------------------------------
(* The pointers and the states the store may hold, and the writes of an     *)
(* operation.                                                               *)
AnchorPointers == [sha : Anchors \cup {NoAnchor}, at : Nat]
AnchorStates == [current : AnchorPointers, previous : AnchorPointers]
AnchorWrites ==
    [file : {"value", "live", "collision"}, content : Anchors]
    \cup [file : {"meta"}, content : [sha : Anchors, at : Nat \ {0}]]
    \cup [file : {"state", "rebuild"}, content : AnchorStates]

AnchorTypeOK ==
    /\ value \in [Anchors -> {"absent", "intact", "damaged"}]
    /\ meta \in [Anchors -> Nat \cup {Damaged}]
    /\ anchorState \in AnchorStates
    /\ anchorFaults \in Nat
    /\ anchorOp = Operation(anchorOp.kind, anchorOp.writes, anchorOp.result)
    /\ anchorOp.writes \in Seq(AnchorWrites)

Undamaged == \A a \in Anchors : value[a] # "damaged" /\ meta[a] # Damaged
LoadsIfAny(p) == p = NoPointer \/ Loads(p, Good)

(* What is left to write, from the end: state.json names r, written at time *)
(* m, where cur is the state before; before it the live copy becomes r;     *)
(* before that its metadata, its value, and a state rebuilt from the disk.  *)
StateLeft(s, r, m, cur) ==
    \/ Len(s) = 0 /\ cur.current.sha = r /\ (anchorFaults = 0 => cur.current.at = m)
    \/ /\ Len(s) = 1 /\ Head(s).file = "state"
       /\ Head(s).content.current = [sha |-> r, at |-> m]
LiveLeft(s, r, m, cur) ==
    \/ live = r /\ StateLeft(s, r, m, cur)
    \/ /\ Len(s) # 0 /\ Head(s).file = "live" /\ Head(s).content = r
       /\ StateLeft(Tail(s), r, m, cur)
MetaLeft(s, r, m, cur) ==
    \/ meta[r] = m /\ LiveLeft(s, r, m, cur)
    \/ /\ meta[r] = 0
       /\ Len(s) # 0 /\ Head(s).file = "meta" /\ Head(s).content = [sha |-> r, at |-> m]
       /\ LiveLeft(Tail(s), r, m, cur)
ValueLeft(s, r, m, cur) ==
    \/ value[r] = "intact" /\ MetaLeft(s, r, m, cur)
    \/ /\ Len(s) # 0 /\ Head(s).file = "value" /\ Head(s).content = r
       /\ MetaLeft(Tail(s), r, m, cur)
Rebuilds(s) ==
    /\ Len(s) # 0 /\ Head(s).file = "rebuild"
    /\ ~HasState /\ LoadsIfAny(Head(s).content.current)
AllLeft(s, r, m) ==
    \/ ValueLeft(s, r, m, anchorState)
    \/ Rebuilds(s) /\ ValueLeft(Tail(s), r, m, Head(s).content)

(* A plan that meets a damaged file gets no further than its snapshot.      *)
Meets(s) == anchorFaults > 0 /\ \E i \in 1 .. Len(s) : s[i].file = "collision"

Planned(op) ==
    \/ Meets(op.writes)
    \/ /\ op.result = NoAnchor
       /\ \/ Len(op.writes) = 0
          \/ Rebuilds(op.writes) /\ Len(op.writes) = 1
    \/ op.result \in Good /\ \E m \in Nat \ {0} : AllLeft(op.writes, op.result, m)

AnchorInv ==
    /\ AnchorTypeOK
    /\ (anchorFaults = 0 => Undamaged /\ LoadsIfAny(anchorState.current))
    /\ (anchorOp # Idle => Planned(anchorOp) /\ ~settled)
    /\ LiveAnchorIsSelected

-----------------------------------------------------------------------------
LEMMA Cons ==
    ASSUME NEW W, NEW w \in W, NEW t \in Seq(W)
    PROVE  LET s == <<w>> \o t
           IN  s \in Seq(W) /\ Len(s) # 0 /\ Len(s) = Len(t) + 1 /\ Head(s) = w /\ Tail(s) = t
<1> DEFINE s == <<w>> \o t
<1>1. s \in Seq(W) /\ Len(s) = Len(t) + 1 /\ s[1] = w /\ \A i \in 1 .. Len(t) : s[i + 1] = t[i]
  OBVIOUS
<1>2. Len(s) # 0 /\ Head(s) = w
  BY <1>1
<1>3. Tail(s) = t
  <2>1. /\ Tail(s) \in Seq(W) /\ Len(Tail(s)) = Len(t)
        /\ \A i \in 1 .. Len(t) : Tail(s)[i] = s[i + 1]
    BY <1>1
  <2> HIDE DEF s
  <2> QED
    BY <1>1, <2>1, SeqEqual
<1> QED
  BY <1>1, <1>2, <1>3

LEMMA NoneBefore ==
    ASSUME NEW W, NEW s \in Seq(W), NEW t \in Seq(W), Len(s) = 0
    PROVE  s \o t = t
OBVIOUS

LEMMA OneOnly ==
    ASSUME NEW W, NEW w \in W
    PROVE  LET s == <<w>> IN s \in Seq(W) /\ Len(s) = 1 /\ Head(s) = w /\ Len(Tail(s)) = 0
OBVIOUS

LEMMA MeetsOnce ==
    ASSUME NEW s \in Seq(AnchorWrites), NEW t \in Seq(AnchorWrites), Meets(s) \/ Meets(t)
    PROVE  Meets(s \o t)
<1>1. /\ Len(s \o t) = Len(s) + Len(t)
      /\ \A i \in 1 .. Len(s) : (s \o t)[i] = s[i]
      /\ \A i \in 1 .. Len(t) : (s \o t)[Len(s) + i] = t[i]
  <2> HIDE DEF AnchorWrites
  <2> QED
    OBVIOUS
<1>2. Len(s) \in Nat /\ Len(t) \in Nat
  OBVIOUS
<1>3. CASE Meets(s)
  BY <1>1, <1>2, <1>3 DEF Meets
<1>4. CASE Meets(t)
  <2>1. PICK i \in 1 .. Len(t) : t[i].file = "collision"
    BY <1>4 DEF Meets
  <2>2. Len(s) + i \in 1 .. Len(s \o t) /\ (s \o t)[Len(s) + i].file = "collision"
    BY <1>1, <1>2, <2>1
  <2> QED
    BY <1>4, <2>2 DEF Meets
<1> QED
  BY <1>3, <1>4

(* A finite set of pointers has a latest one.                               *)
LEMMA LatestIs ==
    ASSUME NEW S, S \subseteq AnchorPointers, IsFiniteSet(S), AnchorAssumption
    PROVE  Latest(S) \in S \cup {NoPointer}
<1> DEFINE R == {p \in S \X S : Later(p[1], p[2])}
<1>1. \A p \in S : p.at \in Int /\ p.sha \in Int
  <2>1. \A a \in Anchors \cup {NoAnchor} : a \in Int
    BY DEF NoAnchor, AnchorAssumption
  <2>2. \A p \in AnchorPointers : p.at \in Int /\ p.sha \in Anchors \cup {NoAnchor}
    BY DEF AnchorPointers
  <2> QED
    BY <2>1, <2>2
<1>2. \A p, q \in S : p.at = q.at /\ p.sha = q.sha => p = q
  BY DEF AnchorPointers
<1>3. \A x, y \in S : x = y \/ <<x, y>> \in R \/ <<y, x>> \in R
  BY <1>1, <1>2 DEF Later
<1>4. \A x, y, z \in S : <<x, y>> \in R /\ <<y, z>> \in R => <<x, z>> \in R
  BY <1>1 DEF Later
<1>5. \A x, y \in S : <<x, y>> \in R <=> Later(x, y)
  OBVIOUS
<1>6. S # {} => \E x \in S : \A y \in S \ {x} : <<x, y>> \in R
  <2> HIDE DEF R
  <2> QED
    BY <1>3, <1>4, GreatestExists
<1>7. S # {} => \E x \in S : \A y \in S \ {x} : Later(x, y)
  BY <1>5, <1>6
<1>8. CASE S = {}
  BY <1>8 DEF Latest
<1>9. CASE S # {}
  <2>1. Latest(S) = CHOOSE p \in S : \A q \in S \ {p} : Later(p, q)
    BY <1>9 DEF Latest
  <2> QED
    BY <1>7, <1>9, <2>1
<1> QED
  BY <1>8, <1>9

LEMMA NowIsPositive ==
    ASSUME AnchorTypeOK, AnchorAssumption
    PROVE  Now \in Nat \ {0}
<1> DEFINE times == {meta[a] : a \in Anchors} \cup {anchorState.current.at, anchorState.previous.at, 0}
           R == {p \in Anchors \X Anchors : meta[p[2]] <= meta[p[1]]}
<1>1. \A a \in Anchors : meta[a] \in Int
  BY DEF AnchorTypeOK, Damaged
<1>2. anchorState.current.at \in Int /\ anchorState.previous.at \in Int
  <2>1. \A p \in AnchorPointers : p.at \in Int
    BY DEF AnchorPointers
  <2> QED
    BY <2>1 DEF AnchorTypeOK, AnchorStates
<1>3. \A t \in times : t \in Int
  BY <1>1, <1>2
<1>4. \E t \in times : \A u \in times : u <= t
  <2>1. PICK c \in {anchorState.current.at, anchorState.previous.at, 0} :
           \A u \in {anchorState.current.at, anchorState.previous.at, 0} : u <= c
    BY <1>2
  <2>2. CASE Anchors = {}
    BY <2>1, <2>2
  <2>3. CASE Anchors # {}
    <3> HIDE DEF times
    <3>b. \A x, y \in Anchors : <<x, y>> \in R <=> meta[y] <= meta[x]
      BY Zenon
    <3>c. \A x, y \in Anchors : meta[y] <= meta[x] \/ meta[x] <= meta[y]
      <4>1. \A i, j \in Int : i <= j \/ j <= i
        OBVIOUS
      <4> QED
        BY <1>1, <4>1, Zenon
    <3>d. \A x, y, z \in Anchors :
             meta[y] <= meta[x] /\ meta[z] <= meta[y] => meta[z] <= meta[x]
      <4>1. \A i, j, k \in Int : j <= i /\ k <= j => k <= i
        OBVIOUS
      <4> QED
        BY <1>1, <4>1, Zenon
    <3> HIDE DEF R
    <3>1. \A x, y \in Anchors : x = y \/ <<x, y>> \in R \/ <<y, x>> \in R
      BY <3>b, <3>c, Zenon
    <3>2. \A x, y, z \in Anchors : <<x, y>> \in R /\ <<y, z>> \in R => <<x, z>> \in R
      BY <3>b, <3>d, Zenon
    <3>3. \A T \in SUBSET Anchors : T # {} => \E a \in T : \A b \in T \ {a} : <<a, b>> \in R
      <4>1. IsFiniteSet(Anchors)
        BY DEF AnchorAssumption
      <4> QED
        BY <3>1, <3>2, <4>1, GreatestExists
    <3>a. PICK a \in Anchors : \A b \in Anchors \ {a} : <<a, b>> \in R
      BY <2>3, <3>3
    <3>4. \A b \in Anchors : meta[b] <= meta[a]
      <4>1. \A b \in Anchors \ {a} : meta[b] <= meta[a]
        BY <3>a, <3>b
      <4>2. meta[a] <= meta[a]
        BY <1>1
      <4> QED
        BY <4>1, <4>2
    <3>5. CASE meta[a] <= c
      BY <1>1, <1>2, <2>1, <3>4, <3>5 DEF times
    <3>6. CASE c <= meta[a]
      BY <1>1, <1>2, <2>1, <3>4, <3>6 DEF times
    <3> QED
      BY <1>1, <1>2, <2>1, <3>a, <3>5, <3>6
  <2> QED
    BY <2>2, <2>3
<1> DEFINE t == CHOOSE t \in times : \A u \in times : u <= t
<1>5. t \in times /\ \A u \in times : u <= t
  <2> HIDE DEF times
  <2> QED
    BY <1>4
<1>6. t \in Int /\ 0 <= t
  <2>1. 0 \in times
    OBVIOUS
  <2> HIDE DEF times, t
  <2> QED
    BY <1>3, <1>5, <2>1
<1>7. Now = 1 + t
  BY DEF Now
<1> HIDE DEF t
<1> QED
  BY <1>6, <1>7

LEMMA DiscoverIs ==
    ASSUME AnchorTypeOK, AnchorAssumption, NEW ok \in SUBSET Good
    PROVE  /\ DiscoverAnchorState(ok) \in AnchorStates
           /\ LoadsIfAny(DiscoverAnchorState(ok).current)
<1> DEFINE image == {[sha |-> a, at |-> meta[a]] : a \in Anchors}
           usable == {p \in image : Loads(p, ok)}
           first == Latest(usable)
<1>1. IsFiniteSet(image)
  <2> DEFINE f == [a \in Anchors |-> [sha |-> a, at |-> meta[a]]]
  <2>1. f \in Surjection(Anchors, image)
    BY DEF Surjection
  <2>2. IsFiniteSet(Anchors)
    BY DEF AnchorAssumption
  <2> HIDE DEF f, image
  <2> QED
    BY <2>1, <2>2, FS_Surjection
<1>2. usable \subseteq AnchorPointers
  BY DEF Loads, AnchorPointers, AnchorTypeOK, Damaged
<1>3. IsFiniteSet(usable)
  <2> HIDE DEF image
  <2> QED
    BY <1>1, FS_Subset
<1>4. \A p \in usable : Loads(p, Good)
  BY DEF Loads
<1>5. NoPointer \in AnchorPointers
  BY DEF NoPointer, AnchorPointers
<1>6. DiscoverAnchorState(ok) = [current |-> first, previous |-> Latest(usable \ {first})]
  BY DEF DiscoverAnchorState
<1> HIDE DEF usable
<1>7. first \in usable \cup {NoPointer}
  BY <1>2, <1>3, LatestIs
<1>8. Latest(usable \ {first}) \in usable \cup {NoPointer}
  <2> DEFINE rest == usable \ {first}
  <2>1. IsFiniteSet(rest) /\ rest \subseteq AnchorPointers
    BY <1>2, <1>3, FS_Subset
  <2>2. rest \subseteq usable
    OBVIOUS
  <2> HIDE DEF rest
  <2>3. Latest(rest) \in rest \cup {NoPointer}
    BY <2>1, LatestIs
  <2> QED
    BY <2>2, <2>3 DEF rest
<1> HIDE DEF first
<1>9. DiscoverAnchorState(ok) \in AnchorStates
  BY <1>2, <1>5, <1>6, <1>7, <1>8 DEF AnchorStates
<1>10. LoadsIfAny(DiscoverAnchorState(ok).current)
  BY <1>4, <1>6, <1>7 DEF LoadsIfAny
<1> QED
  BY <1>9, <1>10

(* What an operation starts from: the state that was read, or one rebuilt   *)
(* from the snapshots, which it writes first.                               *)
Found(F, cur) ==
    /\ F \in Seq(AnchorWrites) /\ cur \in AnchorStates
    /\ (anchorFaults = 0 => LoadsIfAny(cur.current))
    /\ \/ Len(F) = 0 /\ cur = anchorState
       \/ F = Put("rebuild", cur) /\ ~HasState /\ LoadsIfAny(cur.current)

(* What holds while the operation that took the lock makes its plan.        *)
Planning ==
    /\ AnchorTypeOK /\ AnchorAssumption
    /\ (anchorFaults = 0 => Undamaged /\ LoadsIfAny(anchorState.current))

LEMMA NamesWrite ==
    ASSUME NEW f \in {"state", "rebuild"}, NEW c \in AnchorStates
    PROVE  [file |-> f, content |-> c] \in AnchorWrites
BY DEF AnchorWrites

LEMMA FoundIs ==
    ASSUME Planning, NEW ok \in SUBSET Good, NEW lost
    PROVE  Found(LoadOrDiscoverAnchor(ok, lost).writes, LoadOrDiscoverAnchor(ok, lost).state)
<1> DEFINE disk == DiscoverAnchorState(ok)
           found == LoadOrDiscoverAnchor(ok, lost)
<1>1. disk \in AnchorStates /\ LoadsIfAny(disk.current)
  BY DiscoverIs DEF Planning
<1>2. anchorState \in AnchorStates
  BY DEF Planning, AnchorTypeOK
<1>3. <<>> \in Seq(AnchorWrites) /\ Len(<<>>) = 0
  OBVIOUS
<1>4. Put("rebuild", disk) \in Seq(AnchorWrites)
  <2>1. [file |-> "rebuild", content |-> disk] \in AnchorWrites
    BY <1>1, NamesWrite
  <2> HIDE DEF disk
  <2> QED
    BY <2>1, OneOnly DEF Put
<1>5. \/ found = [state |-> anchorState, writes |-> <<>>]
      \/ ~HasState /\ found = [state |-> disk, writes |-> Put("rebuild", disk)]
  BY DEF LoadOrDiscoverAnchor, HasState
<1> HIDE DEF disk, found
<1>6. CASE found = [state |-> anchorState, writes |-> <<>>]
  <2>1. found.state = anchorState /\ found.writes = <<>>
    BY <1>6
  <2> QED
    BY <1>2, <1>3, <2>1 DEF Found, Planning, found
<1>7. CASE ~HasState /\ found = [state |-> disk, writes |-> Put("rebuild", disk)]
  <2>1. found.state = disk /\ found.writes = Put("rebuild", disk)
    BY <1>7
  <2> QED
    BY <1>1, <1>4, <1>7, <2>1 DEF Found, found
<1> QED
  BY <1>5, <1>6, <1>7

-----------------------------------------------------------------------------
(* The pieces of a plan, put before what is left.                           *)
LEMMA LiveFirst ==
    ASSUME NEW r \in Anchors, NEW m, NEW cur, NEW t \in Seq(AnchorWrites), StateLeft(t, r, m, cur)
    PROVE  /\ Put("live", r) \o t \in Seq(AnchorWrites)
           /\ LiveLeft(Put("live", r) \o t, r, m, cur)
<1> DEFINE w == [file |-> "live", content |-> r]
<1>1. w \in AnchorWrites /\ w.file = "live" /\ w.content = r
  BY DEF AnchorWrites
<1>2. Put("live", r) = <<w>>
  BY DEF Put
<1> HIDE DEF w
<1>3. LET s == <<w>> \o t
      IN  s \in Seq(AnchorWrites) /\ Len(s) # 0 /\ Head(s) = w /\ Tail(s) = t
  BY <1>1, Cons
<1> QED
  BY <1>1, <1>2, <1>3 DEF LiveLeft

LEMMA LiveHeld ==
    ASSUME NEW r, NEW m, NEW cur, NEW t, live = r, StateLeft(t, r, m, cur)
    PROVE  LiveLeft(t, r, m, cur)
BY DEF LiveLeft

(* Either the snapshot is completed before what is left, or the plan meets  *)
(* a damaged file.                                                          *)
LEMMA SnapshotFirst ==
    ASSUME Planning, NEW r \in Anchors, NEW m \in Nat \ {0}, meta[r] > 0 => m = meta[r],
           NEW cur, NEW t \in Seq(AnchorWrites), LiveLeft(t, r, m, cur)
    PROVE  LET s == SnapshotWrites(r, m) \o t
           IN  s \in Seq(AnchorWrites) /\ (ValueLeft(s, r, m, cur) \/ Meets(s))
<1> DEFINE V == PutValue(r)
           M == PutMeta(r, m)
           s == SnapshotWrites(r, m) \o t
           blocked == [file |-> "collision", content |-> r]
<1>1. blocked \in AnchorWrites /\ blocked.file = "collision"
  BY DEF AnchorWrites
<1>2. meta[r] \in Nat \cup {Damaged} /\ value[r] \in {"absent", "intact", "damaged"}
  BY DEF Planning, AnchorTypeOK
<1>3. anchorFaults \in Nat /\ (anchorFaults = 0 => value[r] # "damaged" /\ meta[r] # Damaged)
  BY DEF Planning, AnchorTypeOK, Undamaged
<1>4. anchorFaults > 0 => Meets(<<blocked>>) /\ <<blocked>> \in Seq(AnchorWrites)
  <2> HIDE DEF blocked
  <2>1. <<blocked>> \in Seq(AnchorWrites) /\ Len(<<blocked>>) = 1 /\ <<blocked>>[1] = blocked
    BY <1>1
  <2> QED
    BY <1>1, <2>1 DEF Meets
<1>5. /\ M \in Seq(AnchorWrites) /\ M \o t \in Seq(AnchorWrites)
      /\ Meets(M) \/ MetaLeft(M \o t, r, m, cur)
  <2>1. CASE meta[r] \in Nat /\ meta[r] > 0
    <3>1. M = <<>>
      BY <2>1 DEF PutMeta, Damaged
    <3>2. meta[r] = m
      BY <2>1
    <3>3. M \in Seq(AnchorWrites) /\ M \o t = t
      <4> HIDE DEF M
      <4> QED
        BY <3>1, NoneBefore
    <3> QED
      BY <3>2, <3>3 DEF MetaLeft
  <2>2. CASE meta[r] = 0
    <3> DEFINE c == [sha |-> r, at |-> m]
               w == [file |-> "meta", content |-> c]
    <3>1. M = <<w>>
      BY <2>2, <1>2 DEF PutMeta, Put, Damaged
    <3>2. w \in AnchorWrites /\ w.file = "meta" /\ w.content = c
      BY DEF AnchorWrites
    <3> HIDE DEF w, M
    <3>3. M \in Seq(AnchorWrites)
      BY <3>1, <3>2
    <3>4. LET u == <<w>> \o t
          IN  u \in Seq(AnchorWrites) /\ Len(u) # 0 /\ Head(u) = w /\ Tail(u) = t
      BY <3>2, Cons
    <3> QED
      BY <2>2, <3>1, <3>2, <3>3, <3>4 DEF MetaLeft
  <2>3. CASE meta[r] = Damaged
    <3>1. M = <<blocked>>
      BY <2>3 DEF PutMeta, Put, Damaged
    <3>2. anchorFaults > 0
      BY <1>3, <2>3
    <3> HIDE DEF M, blocked
    <3> QED
      BY <1>4, <3>1, <3>2
  <2> QED
    BY <1>2, <2>1, <2>2, <2>3
<1> HIDE DEF M
<1>6. /\ V \in Seq(AnchorWrites) /\ V \o (M \o t) \in Seq(AnchorWrites)
      /\ Meets(V) \/ Meets(M) \/ ValueLeft(V \o (M \o t), r, m, cur)
  <2>1. CASE value[r] = "intact"
    <3>1. V = <<>>
      BY <2>1 DEF PutValue
    <3> HIDE DEF V
    <3>2. V \in Seq(AnchorWrites) /\ V \o (M \o t) = M \o t
      BY <1>5, <3>1, NoneBefore
    <3> QED
      BY <1>5, <2>1, <3>2 DEF ValueLeft
  <2>2. CASE value[r] = "absent"
    <3> DEFINE w == [file |-> "value", content |-> r]
    <3>1. V = <<w>>
      BY <2>2 DEF PutValue, Put
    <3>2. w \in AnchorWrites /\ w.file = "value" /\ w.content = r
      BY DEF AnchorWrites
    <3> HIDE DEF w, V
    <3>3. V \in Seq(AnchorWrites)
      BY <3>1, <3>2
    <3>4. LET u == <<w>> \o (M \o t)
          IN  u \in Seq(AnchorWrites) /\ Len(u) # 0 /\ Head(u) = w /\ Tail(u) = M \o t
      BY <1>5, <3>2, Cons
    <3> QED
      BY <1>5, <3>1, <3>2, <3>3, <3>4 DEF ValueLeft
  <2>3. CASE value[r] = "damaged"
    <3>1. V = <<blocked>>
      BY <2>3 DEF PutValue, Put
    <3>2. anchorFaults > 0
      BY <1>3, <2>3
    <3> HIDE DEF V, blocked
    <3> QED
      BY <1>4, <1>5, <3>1, <3>2
  <2> QED
    BY <1>2, <2>1, <2>2, <2>3
<1> HIDE DEF V
<1>7. s = V \o (M \o t)
  <2>1. s = (V \o M) \o t
    BY DEF SnapshotWrites, V, M
  <2> HIDE DEF s
  <2> QED
    BY <1>5, <1>6, <2>1, ConcatAssociative
<1>8. Meets(V) \/ Meets(M) => Meets(s)
  <2> HIDE DEF s
  <2>1. Meets(M) => Meets(M \o t)
    BY <1>5, MeetsOnce
  <2> QED
    BY <1>5, <1>6, <1>7, <2>1, MeetsOnce
<1> HIDE DEF s
<1>9. s \in Seq(AnchorWrites) /\ (ValueLeft(s, r, m, cur) \/ Meets(s))
  BY <1>6, <1>7, <1>8
<1> QED
  BY <1>9 DEF s

(* The whole plan of an operation that has a snapshot to return.            *)
LEMMA AllInPlace ==
    ASSUME NEW F, NEW cur, Found(F, cur), NEW r \in Good, NEW m \in Nat \ {0},
           NEW t \in Seq(AnchorWrites), ValueLeft(t, r, m, cur) \/ Meets(t),
           NEW op, op.writes = F \o t, op.result = r
    PROVE  op.writes \in Seq(AnchorWrites) /\ Planned(op)
<1>1. F \in Seq(AnchorWrites) /\ F \o t \in Seq(AnchorWrites)
  <2>1. F \in Seq(AnchorWrites)
    BY DEF Found
  <2> HIDE DEF AnchorWrites
  <2> QED
    BY <2>1
<1>2. CASE Meets(t)
  BY <1>1, <1>2, MeetsOnce DEF Planned
<1>3. CASE ValueLeft(t, r, m, cur)
  <2>1. CASE Len(F) = 0 /\ cur = anchorState
    <3>1. F \o t = t
      BY <1>1, <2>1, NoneBefore
    <3>2. AllLeft(op.writes, r, m)
      BY <1>3, <2>1, <3>1 DEF AllLeft
    <3> QED
      BY <1>1, <3>2 DEF Planned
  <2>2. CASE F = Put("rebuild", cur) /\ ~HasState /\ LoadsIfAny(cur.current)
    <3> DEFINE w == [file |-> "rebuild", content |-> cur]
    <3>1. F = <<w>>
      BY <2>2 DEF Put
    <3>2. w \in AnchorWrites /\ w.file = "rebuild" /\ w.content = cur
      BY NamesWrite DEF Found
    <3> HIDE DEF w
    <3>3. LET u == <<w>> \o t
          IN  u \in Seq(AnchorWrites) /\ Len(u) # 0 /\ Head(u) = w /\ Tail(u) = t
      BY <3>2, Cons
    <3>4. AllLeft(op.writes, r, m)
      BY <1>3, <2>2, <3>1, <3>2, <3>3 DEF AllLeft, Rebuilds
    <3> QED
      BY <1>1, <3>4 DEF Planned
  <2> QED
    BY <2>1, <2>2 DEF Found
<1> QED
  BY <1>2, <1>3

(* The plan of an operation that found nothing to return.                   *)
LEMMA NothingToReturn ==
    ASSUME NEW F, NEW cur, Found(F, cur), NEW op, op.writes = F, op.result = NoAnchor
    PROVE  op.writes \in Seq(AnchorWrites) /\ Planned(op)
<1>1. F \in Seq(AnchorWrites)
  BY DEF Found
<1>2. CASE Len(F) = 0
  BY <1>1, <1>2 DEF Planned
<1>3. CASE F = Put("rebuild", cur) /\ ~HasState /\ LoadsIfAny(cur.current)
  <2> DEFINE w == [file |-> "rebuild", content |-> cur]
  <2>1. F = <<w>>
    BY <1>3 DEF Put
  <2>2. w \in AnchorWrites /\ w.file = "rebuild" /\ w.content = cur
    BY NamesWrite DEF Found
  <2> HIDE DEF w
  <2>3. LET u == <<w>> IN Len(u) = 1 /\ Head(u) = w
    BY <2>2, OneOnly
  <2>4. Rebuilds(F) /\ Len(F) = 1
    BY <1>3, <2>1, <2>2, <2>3 DEF Rebuilds
  <2> QED
    BY <1>1, <2>4 DEF Planned
<1> QED
  BY <1>2, <1>3 DEF Found

LEMMA OperationIs ==
    ASSUME NEW k, NEW w, NEW r, NEW op, op = Operation(k, w, r)
    PROVE  op.writes = w /\ op.result = r
BY DEF Operation

LEMMA Nothing == <<>> \in Seq(AnchorWrites) /\ Len(<<>>) = 0
OBVIOUS

LEMMA NoneAround ==
    ASSUME NEW s \in Seq(AnchorWrites)
    PROVE  s \o <<>> = s /\ <<>> \o s = s
<1> HIDE DEF AnchorWrites
<1> QED
  OBVIOUS

LEMMA Regrouped ==
    ASSUME NEW a \in Seq(AnchorWrites), NEW b \in Seq(AnchorWrites), NEW c \in Seq(AnchorWrites)
    PROVE  b \o c \in Seq(AnchorWrites) /\ (a \o b) \o c = a \o (b \o c)
<1> HIDE DEF AnchorWrites
<1> QED
  BY ConcatProperties, ConcatAssociative

LEMMA LiveIsWrites == ASSUME NEW r \in Anchors PROVE Put("live", r) \in Seq(AnchorWrites)
<1>1. [file |-> "live", content |-> r] \in AnchorWrites
  BY DEF AnchorWrites
<1> QED
  BY <1>1 DEF Put

LEMMA StateLast ==
    ASSUME NEW r, NEW m, NEW cur, NEW c \in AnchorStates, c.current = [sha |-> r, at |-> m]
    PROVE  /\ Put("state", c) \in Seq(AnchorWrites)
           /\ StateLeft(Put("state", c), r, m, cur)
<1> DEFINE w == [file |-> "state", content |-> c]
<1>1. w \in AnchorWrites /\ w.file = "state" /\ w.content = c
  BY NamesWrite
<1>2. Put("state", c) = <<w>>
  BY DEF Put
<1> HIDE DEF w
<1>3. LET s == <<w>> IN s \in Seq(AnchorWrites) /\ Len(s) = 1 /\ Head(s) = w
  BY <1>1, OneOnly
<1> QED
  BY <1>1, <1>2, <1>3 DEF StateLeft

(* A plan in its four parts: what was found, the snapshot, live copy, state.*)
SnapshotPart(N, r, m) ==
    \/ N = SnapshotWrites(r, m) /\ (meta[r] > 0 => m = meta[r])
    \/ N = <<>> /\ value[r] = "intact" /\ meta[r] = m
LivePart(L, r) == L = Put("live", r) \/ (L = <<>> /\ live = r)

LEMMA PlanHolds ==
    ASSUME Planning, NEW F, NEW cur, Found(F, cur), NEW r \in Good, NEW m \in Nat \ {0},
           NEW N, NEW L, NEW S, SnapshotPart(N, r, m), LivePart(L, r),
           S \in Seq(AnchorWrites), StateLeft(S, r, m, cur),
           NEW op, op.writes = F \o (N \o (L \o S)), op.result = r
    PROVE  op.writes \in Seq(AnchorWrites) /\ Planned(op)
<1> DEFINE t == L \o S
           u == N \o t
<1>1. r \in Anchors
  BY DEF Planning, AnchorAssumption
<1>2. t \in Seq(AnchorWrites) /\ LiveLeft(t, r, m, cur)
  <2>1. CASE L = Put("live", r)
    BY <1>1, <2>1, LiveFirst
  <2>2. CASE L = <<>> /\ live = r
    <3>1. t = S
      BY <2>2, NoneAround
    <3> QED
      BY <2>2, <3>1, LiveHeld
  <2> QED
    BY <2>1, <2>2 DEF LivePart
<1>3. u \in Seq(AnchorWrites) /\ (ValueLeft(u, r, m, cur) \/ Meets(u))
  <2> HIDE DEF t
  <2>1. CASE N = SnapshotWrites(r, m) /\ (meta[r] > 0 => m = meta[r])
    BY <1>1, <1>2, <2>1, SnapshotFirst
  <2>2. CASE N = <<>> /\ value[r] = "intact" /\ meta[r] = m
    <3>1. u = t
      BY <1>2, <2>2, NoneAround
    <3>2. ValueLeft(t, r, m, cur)
      BY <1>2, <2>2 DEF ValueLeft, MetaLeft
    <3> QED
      BY <1>2, <3>1, <3>2
  <2> QED
    BY <2>1, <2>2 DEF SnapshotPart
<1>4. op.writes = F \o u
  OBVIOUS
<1> HIDE DEF u
<1> QED
  BY <1>3, <1>4, AllInPlace

LEMMA PublishIs ==
    ASSUME Planning, NEW a \in Anchors, NEW heldAt \in Nat
    PROVE  \E m \in Nat \ {0} :
              /\ Publish(a, heldAt).pointer = [sha |-> a, at |-> m]
              /\ Publish(a, heldAt).writes = SnapshotWrites(a, m)
              /\ (meta[a] > 0 => m = meta[a])
<1> DEFINE m == IF meta[a] > 0 THEN meta[a] ELSE IF heldAt > 0 THEN heldAt ELSE Now
<1>1. m \in Nat \ {0}
  <2>1. Now \in Nat \ {0}
    BY NowIsPositive DEF Planning
  <2>2. meta[a] \in Nat \cup {Damaged}
    BY DEF Planning, AnchorTypeOK
  <2> QED
    BY <2>1, <2>2 DEF Damaged
<1>2. meta[a] > 0 => m = meta[a]
  OBVIOUS
<1>3. Publish(a, heldAt) = [writes |-> SnapshotWrites(a, m), pointer |-> [sha |-> a, at |-> m]]
  BY DEF Publish
<1> HIDE DEF m
<1> QED
  BY <1>1, <1>2, <1>3

LEMMA LoadsTells ==
    ASSUME Planning, NEW ok \in SUBSET Good, NEW p \in AnchorPointers, Loads(p, ok)
    PROVE  /\ p.sha \in Good /\ p.at \in Nat \ {0} /\ p = [sha |-> p.sha, at |-> p.at]
           /\ value[p.sha] = "intact" /\ meta[p.sha] = p.at
BY DEF Loads, AnchorPointers

LEMMA FoundTells ==
    ASSUME NEW F, NEW cur, Found(F, cur)
    PROVE  /\ F \in Seq(AnchorWrites) /\ cur \in AnchorStates
           /\ cur.current \in AnchorPointers /\ cur.previous \in AnchorPointers
           /\ (anchorFaults = 0 => LoadsIfAny(cur.current))
BY DEF Found, AnchorStates

LEMMA SnapshotIsWrites ==
    ASSUME NEW r \in Anchors, NEW m \in Nat \ {0}, meta[r] \in Nat \cup {Damaged},
           value[r] \in {"absent", "intact", "damaged"}
    PROVE  SnapshotWrites(r, m) \in Seq(AnchorWrites)
<1>1. /\ [file |-> "collision", content |-> r] \in AnchorWrites
      /\ [file |-> "value", content |-> r] \in AnchorWrites
      /\ [file |-> "meta", content |-> [sha |-> r, at |-> m]] \in AnchorWrites
  BY DEF AnchorWrites
<1>2. <<>> \in Seq(AnchorWrites)
  OBVIOUS
<1> HIDE DEF AnchorWrites
<1>3. PutValue(r) \in Seq(AnchorWrites)
  BY <1>1, <1>2 DEF PutValue, Put
<1>4. PutMeta(r, m) \in Seq(AnchorWrites)
  BY <1>1, <1>2 DEF PutMeta, Put, Damaged
<1> QED
  BY <1>3, <1>4 DEF SnapshotWrites

(* A snapshot that loads goes live and into the state.                      *)
LEMMA PreviousIsPlanned ==
    ASSUME Planning, NEW ok \in SUBSET Good, NEW F, NEW cur, Found(F, cur),
           NEW p \in AnchorPointers, Loads(p, ok), NEW c \in AnchorStates, c.current = p,
           NEW op, op.result = p.sha, op.writes = (F \o Put("live", p.sha)) \o Put("state", c)
    PROVE  op.writes \in Seq(AnchorWrites) /\ Planned(op)
<1> DEFINE r == p.sha
           m == p.at
           L == Put("live", r)
           S == Put("state", c)
<1>1. /\ r \in Good /\ m \in Nat \ {0} /\ value[r] = "intact" /\ meta[r] = m
      /\ c.current = [sha |-> r, at |-> m]
  BY LoadsTells
<1>2. op.result = r /\ op.writes = (F \o L) \o S
  OBVIOUS
<1> HIDE DEF r, m
<1>3. S \in Seq(AnchorWrites) /\ StateLeft(S, r, m, cur)
  BY <1>1, StateLast
<1> HIDE DEF S
<1>4. L \in Seq(AnchorWrites)
  <2>1. r \in Anchors
    BY <1>1 DEF Planning, AnchorAssumption
  <2>2. [file |-> "live", content |-> r] \in AnchorWrites
    BY <2>1 DEF AnchorWrites
  <2> QED
    BY <2>2 DEF Put
<1>5. LivePart(L, r)
  BY DEF LivePart
<1> HIDE DEF L
<1>6. F \in Seq(AnchorWrites)
  BY FoundTells
<1>7. L \o S \in Seq(AnchorWrites) /\ (F \o L) \o S = F \o (L \o S)
  BY <1>3, <1>4, <1>6, Regrouped
<1>8. op.writes = F \o (<<>> \o (L \o S))
  BY <1>2, <1>7, NoneAround
<1>9. SnapshotPart(<<>>, r, m)
  BY <1>1 DEF SnapshotPart
<1> QED
  BY <1>1, <1>2, <1>3, <1>5, <1>8, <1>9, PlanHolds

LEMMA CurrentIsPlanned ==
    ASSUME Planning, NEW ok \in SUBSET Good, NEW lost, NEW op, op = CurrentAnchor(ok, lost)
    PROVE  op.writes \in Seq(AnchorWrites) /\ Planned(op)
<1> DEFINE F == LoadOrDiscoverAnchor(ok, lost).writes
           s == LoadOrDiscoverAnchor(ok, lost).state
           adopted == Publish(live, 0)
<1>1. Found(F, s)
  BY FoundIs
<1>2. \/ Loads(s.current, ok) /\ op = Operation("current",
              F \o (IF live = s.current.sha THEN <<>> ELSE Put("live", s.current.sha)),
              s.current.sha)
      \/ Loads(s.previous, ok) /\ op = Operation("current",
              F \o Put("live", s.previous.sha)
              \o Put("state", [current |-> s.previous, previous |-> NoPointer]),
              s.previous.sha)
      \/ live \in ok /\ op = Operation("current",
              F \o adopted.writes
              \o Put("state", [current |-> adopted.pointer, previous |-> NoPointer]),
              live)
      \/ op = Operation("current", F, NoAnchor)
  BY DEF CurrentAnchor
<1>3. NoPointer \in AnchorPointers
  BY DEF NoPointer, AnchorPointers
<1> HIDE DEF F, s, adopted
<1>4. F \in Seq(AnchorWrites) /\ s.current \in AnchorPointers /\ s.previous \in AnchorPointers
  BY <1>1, FoundTells
<1>5. CASE Loads(s.current, ok) /\ op = Operation("current",
              F \o (IF live = s.current.sha THEN <<>> ELSE Put("live", s.current.sha)),
              s.current.sha)
  <2> DEFINE r == s.current.sha
             m == s.current.at
             L == IF live = r THEN <<>> ELSE Put("live", r)
  <2>1. r \in Good /\ m \in Nat \ {0} /\ value[r] = "intact" /\ meta[r] = m
    BY <1>4, <1>5, LoadsTells
  <2>2. LivePart(L, r) /\ (L = Put("live", r) \/ L = <<>>)
    BY DEF LivePart
  <2>3. StateLeft(<<>>, r, m, s)
    BY Nothing DEF StateLeft
  <2>4. op.result = r /\ op.writes = F \o L
    BY <1>5 DEF Operation
  <2> HIDE DEF L, r, m
  <2>5. L \in Seq(AnchorWrites)
    <3>1. r \in Anchors
      BY <2>1 DEF Planning, AnchorAssumption
    <3>2. Put("live", r) \o <<>> \in Seq(AnchorWrites) /\ Put("live", r) \in Seq(AnchorWrites)
      <4>1. [file |-> "live", content |-> r] \in AnchorWrites
        BY <3>1 DEF AnchorWrites
      <4>2. Put("live", r) \in Seq(AnchorWrites)
        BY <4>1 DEF Put
      <4> QED
        BY <4>2, NoneAround
    <3> QED
      BY <2>2, <3>2, Nothing
  <2>6. L \o <<>> = L /\ <<>> \o L = L
    BY <2>5, NoneAround
  <2>7. op.writes = F \o (<<>> \o (L \o <<>>))
    BY <2>4, <2>6
  <2>8. SnapshotPart(<<>>, r, m)
    BY <2>1 DEF SnapshotPart
  <2> QED
    BY <1>1, <2>1, <2>2, <2>3, <2>4, <2>7, <2>8, Nothing, PlanHolds
<1>6. CASE Loads(s.previous, ok) /\ op = Operation("current",
              F \o Put("live", s.previous.sha)
              \o Put("state", [current |-> s.previous, previous |-> NoPointer]),
              s.previous.sha)
  <2> DEFINE c == [current |-> s.previous, previous |-> NoPointer]
  <2>1. c \in AnchorStates /\ c.current = s.previous
    BY <1>3, <1>4 DEF AnchorStates
  <2>2. op.result = s.previous.sha /\ op.writes = F \o Put("live", s.previous.sha) \o Put("state", c)
    BY <1>6, SMT DEF Operation
  <2> HIDE DEF c
  <2> QED
    BY <1>1, <1>4, <1>6, <2>1, <2>2, PreviousIsPlanned
<1>7. CASE live \in ok /\ op = Operation("current",
              F \o adopted.writes
              \o Put("state", [current |-> adopted.pointer, previous |-> NoPointer]),
              live)
  <2>1. live \in Good /\ live \in Anchors
    BY <1>7 DEF Planning, AnchorAssumption
  <2>2. PICK m \in Nat \ {0} :
              /\ adopted.pointer = [sha |-> live, at |-> m]
              /\ adopted.writes = SnapshotWrites(live, m)
              /\ (meta[live] > 0 => m = meta[live])
    BY <2>1, PublishIs DEF adopted
  <2> DEFINE N == SnapshotWrites(live, m)
             c == [current |-> adopted.pointer, previous |-> NoPointer]
             S == Put("state", c)
  <2>3. c \in AnchorStates /\ c.current = [sha |-> live, at |-> m]
    BY <1>3, <2>1, <2>2 DEF AnchorStates, AnchorPointers
  <2>4. op.result = live /\ op.writes = (F \o N) \o S
    <3>1. op.result = live /\ op.writes = (F \o adopted.writes) \o S
      BY <1>7, SMT DEF Operation
    <3> QED
      BY <2>2, <3>1, Zenon
  <2> HIDE DEF c
  <2>5. S \in Seq(AnchorWrites) /\ StateLeft(S, live, m, s)
    BY <2>3, StateLast
  <2> HIDE DEF S
  <2>6. N \in Seq(AnchorWrites)
    BY <2>1, SnapshotIsWrites DEF Planning, AnchorTypeOK
  <2>7. N = SnapshotWrites(live, m)
    OBVIOUS
  <2> HIDE DEF N
  <2>8. (F \o N) \o S = F \o (N \o S) /\ <<>> \o S = S
    BY <1>4, <2>5, <2>6, Regrouped, NoneAround
  <2>9. op.writes = F \o (N \o (<<>> \o S))
    BY <2>4, <2>8
  <2> DEFINE L == <<>>
  <2>10. LivePart(L, live)
    BY DEF LivePart
  <2>11. op.writes = F \o (N \o (L \o S))
    BY <2>9
  <2>12. SnapshotPart(N, live, m)
    BY <2>2, <2>7 DEF SnapshotPart
  <2> HIDE DEF L
  <2> QED
    BY <1>1, <2>1, <2>4, <2>5, <2>10, <2>11, <2>12, PlanHolds
<1>8. CASE op = Operation("current", F, NoAnchor)
  <2>1. op.writes = F /\ op.result = NoAnchor
    BY <1>8 DEF Operation
  <2> QED
    BY <1>1, <2>1, NothingToReturn
<1> QED
  BY <1>2, <1>5, <1>6, <1>7, <1>8

LEMMA RollbackIsPlanned ==
    ASSUME Planning, NEW ok \in SUBSET Good, NEW lost, NEW op, op = RollbackAnchor(ok, lost)
    PROVE  op.writes \in Seq(AnchorWrites) /\ Planned(op)
<1> DEFINE F == LoadOrDiscoverAnchor(ok, lost).writes
           s == LoadOrDiscoverAnchor(ok, lost).state
           c == [current |-> s.previous, previous |-> s.current]
<1>1. Found(F, s)
  BY FoundIs
<1>2. \/ Loads(s.previous, ok) /\ op = Operation("rollback",
              F \o Put("live", s.previous.sha) \o Put("state", c), s.previous.sha)
      \/ op = Operation("rollback", F, NoAnchor)
  BY DEF RollbackAnchor
<1> HIDE DEF F, s
<1>3. F \in Seq(AnchorWrites) /\ s.current \in AnchorPointers /\ s.previous \in AnchorPointers
  BY <1>1, FoundTells
<1>4. c \in AnchorStates /\ c.current = s.previous
  BY <1>3 DEF AnchorStates
<1> HIDE DEF c
<1>5. CASE Loads(s.previous, ok) /\ op = Operation("rollback",
              F \o Put("live", s.previous.sha) \o Put("state", c), s.previous.sha)
  <2>1. op.result = s.previous.sha /\ op.writes = F \o Put("live", s.previous.sha) \o Put("state", c)
    BY <1>5, SMT DEF Operation
  <2> QED
    BY <1>1, <1>3, <1>4, <1>5, <2>1, PreviousIsPlanned
<1>6. CASE op = Operation("rollback", F, NoAnchor)
  <2>1. op.writes = F /\ op.result = NoAnchor
    BY <1>6, SMT DEF Operation
  <2> QED
    BY <1>1, <2>1, NothingToReturn
<1> QED
  BY <1>2, <1>5, <1>6

LEMMA BaselineIs ==
    ASSUME Planning, NEW ok \in SUBSET Good, NEW s \in AnchorStates
    PROVE  LET base == Baseline(s, ok)
           IN  \/ base.pointer = NoPointer
               \/ /\ base.pointer.sha \in Good /\ base.pointer.at \in Nat
                  /\ (base.live => live = base.pointer.sha)
<1>1. s.current \in AnchorPointers /\ s.previous \in AnchorPointers
  BY DEF AnchorStates
<1>2. CASE live \in ok
  <2> DEFINE p == IF s.current.sha = live THEN s.current ELSE [sha |-> live, at |-> 0]
  <2>1. p.sha = live /\ p.at \in Nat
    BY <1>1 DEF AnchorPointers
  <2>2. Baseline(s, ok) = [pointer |-> p, live |-> TRUE]
    BY <1>2 DEF Baseline
  <2> HIDE DEF p
  <2>3. Baseline(s, ok).pointer = p
    BY <2>2
  <2> QED
    BY <1>2, <2>1, <2>3
<1>3. CASE live \notin ok
  <2>1. \/ Loads(s.current, ok) /\ Baseline(s, ok) = [pointer |-> s.current, live |-> FALSE]
        \/ Loads(s.previous, ok) /\ Baseline(s, ok) = [pointer |-> s.previous, live |-> FALSE]
        \/ Baseline(s, ok) = [pointer |-> NoPointer, live |-> FALSE]
    BY <1>3 DEF Baseline
  <2>2. CASE Loads(s.current, ok) /\ Baseline(s, ok) = [pointer |-> s.current, live |-> FALSE]
    <3>1. s.current.sha \in Good /\ s.current.at \in Nat
      BY <1>1, <2>2, LoadsTells
    <3>2. Baseline(s, ok).pointer = s.current /\ ~Baseline(s, ok).live
      BY <2>2
    <3> QED
      BY <3>1, <3>2
  <2>3. CASE Loads(s.previous, ok) /\ Baseline(s, ok) = [pointer |-> s.previous, live |-> FALSE]
    <3>1. s.previous.sha \in Good /\ s.previous.at \in Nat
      BY <1>1, <2>3, LoadsTells
    <3>2. Baseline(s, ok).pointer = s.previous /\ ~Baseline(s, ok).live
      BY <2>3
    <3> QED
      BY <3>1, <3>2
  <2>4. CASE Baseline(s, ok) = [pointer |-> NoPointer, live |-> FALSE]
    BY <2>4
  <2> QED
    BY <2>1, <2>2, <2>3, <2>4
<1> QED
  BY <1>2, <1>3

LEMMA RefreshIsPlanned ==
    ASSUME Planning, NEW ok \in SUBSET Good, NEW candidate, NEW lost,
           NEW op, op = RefreshAnchor(candidate, ok, lost)
    PROVE  op.writes \in Seq(AnchorWrites) /\ Planned(op)
<1> DEFINE F == LoadOrDiscoverAnchor(ok, lost).writes
           s == LoadOrDiscoverAnchor(ok, lost).state
           base == Baseline(s, ok)
           r == base.pointer.sha
           kept == Publish(base.pointer.sha, base.pointer.at)
           fresh == Publish(candidate, 0)
           older == IF s.current.sha = candidate THEN s.previous ELSE s.current
           next == [current |-> fresh.pointer, previous |-> older]
           push == [current |-> kept.pointer, previous |-> s.current]
           KeptLive == IF base.live THEN <<>> ELSE Put("live", base.pointer.sha)
           KeptState == IF s.current.sha = kept.pointer.sha THEN <<>> ELSE Put("state", push)
<1>1. Found(F, s)
  BY FoundIs
<1>2. \/ candidate \in ok /\ op = Operation("refresh",
              F \o fresh.writes \o Put("live", candidate) \o Put("state", next), candidate)
      \/ op = Operation("refresh", F, NoAnchor)
      \/ base.pointer # NoPointer /\ op = Operation("refresh",
              F \o kept.writes \o KeptLive \o KeptState, base.pointer.sha)
  BY DEF RefreshAnchor, Accepted
<1>3. /\ F \in Seq(AnchorWrites) /\ s \in AnchorStates
      /\ s.current \in AnchorPointers /\ s.previous \in AnchorPointers
      /\ (anchorFaults = 0 => LoadsIfAny(s.current))
  BY <1>1, FoundTells
<1> HIDE DEF F, s, base, kept, fresh, KeptLive, KeptState, next, push
<1>4. CASE candidate \in ok /\ op = Operation("refresh",
              F \o fresh.writes \o Put("live", candidate) \o Put("state", next), candidate)
  <2>1. candidate \in Good /\ candidate \in Anchors
    BY <1>4 DEF Planning, AnchorAssumption
  <2>2. PICK m \in Nat \ {0} :
              /\ fresh.pointer = [sha |-> candidate, at |-> m]
              /\ fresh.writes = SnapshotWrites(candidate, m)
              /\ (meta[candidate] > 0 => m = meta[candidate])
    BY <2>1, PublishIs DEF fresh
  <2> DEFINE N == SnapshotWrites(candidate, m)
             L == Put("live", candidate)
             S == Put("state", next)
  <2>3. next \in AnchorStates /\ next.current = [sha |-> candidate, at |-> m]
    <3>1. fresh.pointer \in AnchorPointers
      BY <2>1, <2>2 DEF AnchorPointers
    <3>2. older \in AnchorPointers
      BY <1>3
    <3> HIDE DEF older
    <3> QED
      BY <2>2, <3>1, <3>2 DEF next, AnchorStates
  <2>4. op.result = candidate /\ op.writes = ((F \o N) \o L) \o S
    <3>1. op.result = candidate /\ op.writes = ((F \o fresh.writes) \o L) \o S
      BY <1>4, SMT DEF Operation
    <3> QED
      BY <2>2, <3>1, Zenon
  <2>5. S \in Seq(AnchorWrites) /\ StateLeft(S, candidate, m, s)
    BY <2>3, StateLast
  <2>6. N \in Seq(AnchorWrites)
    BY <2>1, SnapshotIsWrites DEF Planning, AnchorTypeOK
  <2>7. SnapshotPart(N, candidate, m) /\ LivePart(L, candidate)
    BY <2>2 DEF SnapshotPart, LivePart
  <2>8. L \in Seq(AnchorWrites)
    BY <2>1, LiveIsWrites
  <2> HIDE DEF N, L, S
  <2>9. op.writes = F \o (N \o (L \o S))
    <3>1. F \in Seq(AnchorWrites) /\ S \in Seq(AnchorWrites)
      BY <1>3, <2>5
    <3>2. N \o L \in Seq(AnchorWrites) /\ (F \o N) \o L = F \o (N \o L)
      BY <2>6, <2>8, <3>1, Regrouped
    <3>3. (F \o (N \o L)) \o S = F \o ((N \o L) \o S)
      BY <3>1, <3>2, Regrouped
    <3>4. (N \o L) \o S = N \o (L \o S)
      BY <2>6, <2>8, <3>1, Regrouped
    <3> QED
      BY <2>4, <3>2, <3>3, <3>4
  <2> QED
    BY <1>1, <2>1, <2>4, <2>5, <2>7, <2>9, PlanHolds
<1>5. CASE base.pointer # NoPointer /\ op = Operation("refresh",
              F \o kept.writes \o KeptLive \o KeptState, base.pointer.sha)
  <2>1. /\ r \in Good /\ base.pointer.at \in Nat
        /\ (base.live => live = r)
    BY <1>3, <1>5, BaselineIs DEF base
  <2>2. r \in Anchors /\ r # NoAnchor
    BY <2>1 DEF Planning, AnchorAssumption, NoAnchor
  <2>3. PICK m \in Nat \ {0} :
              /\ kept.pointer = [sha |-> r, at |-> m]
              /\ kept.writes = SnapshotWrites(r, m)
              /\ (meta[r] > 0 => m = meta[r])
    BY <2>1, <2>2, PublishIs DEF kept
  <2> DEFINE N == SnapshotWrites(r, m)
  <2>4. op.result = r /\ op.writes = ((F \o N) \o KeptLive) \o KeptState
    <3>1. op.result = r /\ op.writes = ((F \o kept.writes) \o KeptLive) \o KeptState
      BY <1>5, SMT DEF Operation
    <3> QED
      BY <2>3, <3>1, Zenon
  <2> HIDE DEF r
  <2>5. KeptState \in Seq(AnchorWrites) /\ StateLeft(KeptState, r, m, s)
    <3>1. CASE s.current.sha = kept.pointer.sha
      <4>1. KeptState = <<>>
        BY <3>1 DEF KeptState
      <4>2. s.current.sha = r
        BY <2>3, <3>1
      <4>3. anchorFaults = 0 => s.current.at = m
        <5>1. s.current # NoPointer
          BY <2>2, <4>2 DEF NoPointer, NoAnchor
        <5>2. anchorFaults = 0 => meta[r] = s.current.at /\ s.current.at > 0
          BY <1>3, <4>2, <5>1 DEF LoadsIfAny, Loads
        <5> QED
          BY <2>3, <5>2
      <4> QED
        BY <4>1, <4>2, <4>3, Nothing DEF StateLeft
    <3>2. CASE s.current.sha # kept.pointer.sha
      <4>1. KeptState = Put("state", push)
        BY <3>2 DEF KeptState
      <4>2. push \in AnchorStates /\ push.current = [sha |-> r, at |-> m]
        <5>1. kept.pointer \in AnchorPointers
          BY <2>2, <2>3 DEF AnchorPointers
        <5> QED
          BY <1>3, <2>3, <5>1 DEF push, AnchorStates
      <4> QED
        BY <4>1, <4>2, StateLast
    <3> QED
      BY <3>1, <3>2
  <2>6. KeptLive \in Seq(AnchorWrites) /\ LivePart(KeptLive, r)
    <3>1. CASE base.live
      BY <2>1, <3>1, Nothing DEF KeptLive, LivePart
    <3>2. CASE ~base.live
      BY <2>2, <3>2, LiveIsWrites DEF KeptLive, LivePart, r
    <3> QED
      BY <3>1, <3>2
  <2>7. N \in Seq(AnchorWrites) /\ SnapshotPart(N, r, m)
    BY <2>2, <2>3, SnapshotIsWrites DEF Planning, AnchorTypeOK, SnapshotPart
  <2> HIDE DEF N
  <2>8. op.writes = F \o (N \o (KeptLive \o KeptState))
    <3>1. /\ F \in Seq(AnchorWrites) /\ N \in Seq(AnchorWrites)
          /\ KeptLive \in Seq(AnchorWrites) /\ KeptState \in Seq(AnchorWrites)
      BY <1>3, <2>5, <2>6, <2>7
    <3>2. N \o KeptLive \in Seq(AnchorWrites) /\ (F \o N) \o KeptLive = F \o (N \o KeptLive)
      BY <3>1, Regrouped
    <3>3. (F \o (N \o KeptLive)) \o KeptState = F \o ((N \o KeptLive) \o KeptState)
      BY <3>1, <3>2, Regrouped
    <3>4. (N \o KeptLive) \o KeptState = N \o (KeptLive \o KeptState)
      BY <3>1, Regrouped
    <3> QED
      BY <2>4, <3>2, <3>3, <3>4
  <2> QED
    BY <1>1, <2>1, <2>4, <2>5, <2>6, <2>7, <2>8, PlanHolds
<1>6. CASE op = Operation("refresh", F, NoAnchor)
  <2>1. op.writes = F /\ op.result = NoAnchor
    BY <1>6, SMT DEF Operation
  <2> QED
    BY <1>1, <2>1, NothingToReturn
<1> QED
  BY <1>2, <1>4, <1>5, <1>6

-----------------------------------------------------------------------------
LEMMA AnchorStarts == AnchorInit /\ AnchorAssumption => AnchorInv
<1> SUFFICES ASSUME AnchorInit, AnchorAssumption
             PROVE  AnchorInv
  OBVIOUS
<1>1. anchorState \in AnchorStates
  BY DEF AnchorInit, AnchorStates, AnchorPointers, NoState, NoPointer
<1>2. anchorOp.writes \in Seq(AnchorWrites)
  BY DEF AnchorInit, Idle
<1>3. AnchorTypeOK
  <2>1. anchorOp = Operation(anchorOp.kind, anchorOp.writes, anchorOp.result)
    BY DEF AnchorInit, Idle, Operation
  <2> QED
    BY <1>1, <1>2, <2>1 DEF AnchorInit, AnchorTypeOK
<1>4. Undamaged
  BY DEF AnchorInit, Undamaged, Damaged
<1>5. LoadsIfAny(anchorState.current)
  BY DEF AnchorInit, LoadsIfAny, NoState
<1>6. LiveAnchorIsSelected
  BY DEF AnchorInit, LiveAnchorIsSelected
<1> QED
  BY <1>3, <1>4, <1>5, <1>6 DEF AnchorInv, AnchorInit

(* A plan stands while the disk stays and faults are only added.            *)
LEMMA PlanStays ==
    ASSUME AnchorTypeOK, UNCHANGED <<value, meta, live, anchorState>>,
           anchorFaults' \in Nat, anchorFaults <= anchorFaults', NEW op, Planned(op)
    PROVE  Planned(op)'
<1>1. anchorFaults \in Nat /\ (anchorFaults' = 0 => anchorFaults = 0)
      /\ (anchorFaults > 0 => anchorFaults' > 0)
  BY DEF AnchorTypeOK
<1>2. \A s, r, m, cur : StateLeft(s, r, m, cur) => StateLeft(s, r, m, cur)'
  BY <1>1 DEF StateLeft
<1>3. \A s, r, m, cur : LiveLeft(s, r, m, cur) => LiveLeft(s, r, m, cur)'
  BY <1>2 DEF LiveLeft
<1>4. \A s, r, m, cur : MetaLeft(s, r, m, cur) => MetaLeft(s, r, m, cur)'
  BY <1>3 DEF MetaLeft
<1>5. \A s, r, m, cur : ValueLeft(s, r, m, cur) => ValueLeft(s, r, m, cur)'
  BY <1>4 DEF ValueLeft
<1>6. \A s : Rebuilds(s) <=> Rebuilds(s)'
  BY DEF Rebuilds, LoadsIfAny, Loads, HasState
<1>7. \A s, r, m : AllLeft(s, r, m) => AllLeft(s, r, m)'
  BY <1>5, <1>6 DEF AllLeft
<1>8. Meets(op.writes) => Meets(op.writes)'
  BY <1>1 DEF Meets
<1> QED
  BY <1>6, <1>7, <1>8 DEF Planned

LEMMA BeginAnchorKeeps ==
    ASSUME AnchorInv, AnchorAssumption, BeginAnchor
    PROVE  AnchorInv'
<1>1. Planning
  BY DEF AnchorInv, Planning
<1>2. PICK rejected \in SUBSET Good, lost \in BOOLEAN :
         LET ok == Good \ rejected
             cost == (IF rejected = {} THEN 0 ELSE 1) + (IF lost THEN 1 ELSE 0)
         IN  /\ anchorFaults' = anchorFaults + cost
             /\ \/ \E candidate \in Anchors \cup {NoAnchor} :
                     anchorOp' = RefreshAnchor(candidate, ok, lost)
                \/ anchorOp' = CurrentAnchor(ok, lost)
                \/ anchorOp' = RollbackAnchor(ok, lost)
  BY DEF BeginAnchor
<1> DEFINE ok == Good \ rejected
<1>3. ok \in SUBSET Good
  OBVIOUS
<1>4. anchorFaults' \in Nat /\ anchorFaults <= anchorFaults'
  <2>1. anchorFaults \in Nat
    BY DEF AnchorInv, AnchorTypeOK
  <2> QED
    BY <1>2, <2>1
<1>5. PICK op : op = anchorOp'
  OBVIOUS
<1>6. op.writes \in Seq(AnchorWrites) /\ Planned(op)
  <2> HIDE DEF ok
  <2>1. ASSUME NEW candidate, op = RefreshAnchor(candidate, ok, lost)
        PROVE  op.writes \in Seq(AnchorWrites) /\ Planned(op)
    BY <1>1, <1>3, <2>1, RefreshIsPlanned
  <2>2. ASSUME op = CurrentAnchor(ok, lost)
        PROVE  op.writes \in Seq(AnchorWrites) /\ Planned(op)
    BY <1>1, <1>3, <2>2, CurrentIsPlanned
  <2>3. ASSUME op = RollbackAnchor(ok, lost)
        PROVE  op.writes \in Seq(AnchorWrites) /\ Planned(op)
    BY <1>1, <1>3, <2>3, RollbackIsPlanned
  <2> QED
    BY <1>2, <1>5, <2>1, <2>2, <2>3, Zenon DEF ok
<1>7. UNCHANGED <<value, meta, live, anchorState>> /\ ~settled'
  BY DEF BeginAnchor
<1>8. Planned(op)'
  BY <1>4, <1>6, <1>7, PlanStays DEF AnchorInv
<1>9. AnchorTypeOK'
  <2>1. \A k, x, y : op = Operation(k, x, y) => op = Operation(op.kind, op.writes, op.result)
    BY DEF Operation
  <2>2. op = Operation(op.kind, op.writes, op.result)
    <3> HIDE DEF ok
    <3>1. ASSUME NEW candidate, op = RefreshAnchor(candidate, ok, lost)
          PROVE  \E k, x, y : op = Operation(k, x, y)
      BY <3>1 DEF RefreshAnchor
    <3>2. ASSUME op = CurrentAnchor(ok, lost)
          PROVE  \E k, x, y : op = Operation(k, x, y)
      BY <3>2 DEF CurrentAnchor
    <3>3. ASSUME op = RollbackAnchor(ok, lost)
          PROVE  \E k, x, y : op = Operation(k, x, y)
      BY <3>3 DEF RollbackAnchor
    <3>4. \E k, x, y : op = Operation(k, x, y)
      BY <1>2, <1>5, <3>1, <3>2, <3>3, Zenon DEF ok
    <3> QED
      BY <2>1, <3>4
  <2> QED
    BY <1>4, <1>5, <1>6, <1>7, <2>2 DEF AnchorInv, AnchorTypeOK
<1>10. (anchorFaults = 0 => Undamaged /\ LoadsIfAny(anchorState.current))'
  <2>1. anchorFaults' = 0 => anchorFaults = 0
    BY <1>4 DEF AnchorInv, AnchorTypeOK
  <2> QED
    BY <1>7, <2>1 DEF AnchorInv, Undamaged, LoadsIfAny, Loads
<1>11. LiveAnchorIsSelected'
  BY <1>7 DEF LiveAnchorIsSelected
<1> QED
  BY <1>5, <1>7, <1>8, <1>9, <1>10, <1>11 DEF AnchorInv

(* What the next write does to the disk.                                    *)
Written(w) ==
    /\ value' = IF w.file = "value" THEN [value EXCEPT ![w.content] = "intact"] ELSE value
    /\ meta' = IF w.file = "meta" THEN [meta EXCEPT ![w.content.sha] = w.content.at] ELSE meta
    /\ live' = IF w.file = "live" THEN w.content ELSE live
    /\ anchorState' = IF w.file \in {"state", "rebuild"} THEN w.content ELSE anchorState
    /\ anchorFaults' = anchorFaults

LEMMA LeftStays ==
    ASSUME NEW r, NEW m, anchorFaults' = anchorFaults
    PROVE  /\ \A s, cur : StateLeft(s, r, m, cur) => StateLeft(s, r, m, cur)'
           /\ UNCHANGED live =>
                \A s, cur : LiveLeft(s, r, m, cur) => LiveLeft(s, r, m, cur)'
           /\ UNCHANGED <<live, meta>> =>
                \A s, cur : MetaLeft(s, r, m, cur) => MetaLeft(s, r, m, cur)'
           /\ UNCHANGED <<live, meta, value>> =>
                \A s, cur : ValueLeft(s, r, m, cur) => ValueLeft(s, r, m, cur)'
<1>1. \A s, cur : StateLeft(s, r, m, cur) => StateLeft(s, r, m, cur)'
  BY DEF StateLeft
<1>2. UNCHANGED live => \A s, cur : LiveLeft(s, r, m, cur) => LiveLeft(s, r, m, cur)'
  BY <1>1 DEF LiveLeft
<1>3. UNCHANGED <<live, meta>> => \A s, cur : MetaLeft(s, r, m, cur) => MetaLeft(s, r, m, cur)'
  BY <1>2 DEF MetaLeft
<1>4. UNCHANGED <<live, meta, value>> =>
         \A s, cur : ValueLeft(s, r, m, cur) => ValueLeft(s, r, m, cur)'
  BY <1>3 DEF ValueLeft
<1> QED
  BY <1>1, <1>2, <1>3, <1>4

(* What is left after the next write, whichever write that is.              *)
LEMMA LeftAfterWrite ==
    ASSUME AnchorTypeOK, AnchorAssumption, NEW r \in Good, NEW m \in Nat \ {0},
           anchorFaults = 0 => LoadsIfAny(anchorState.current),
           NEW s \in Seq(AnchorWrites), Len(s) # 0, AllLeft(s, r, m),
           NEW w, w = Head(s), NEW t, t = Tail(s), Written(w)
    PROVE  /\ AllLeft(t, r, m)'
           /\ (anchorFaults = 0 => LoadsIfAny(anchorState.current))'
<1> USE DEF AllLeft
<1>1. r \in Anchors /\ anchorFaults' = anchorFaults
  BY DEF AnchorAssumption, Written
<1>2. value \in [Anchors -> {"absent", "intact", "damaged"}] /\ meta \in [Anchors -> Nat \cup {Damaged}]
  BY DEF AnchorTypeOK
<1>3. PICK new : new = anchorState'
  OBVIOUS
<1>4. CASE Rebuilds(s) /\ ValueLeft(t, r, m, w.content)
  <2>1. w.file = "rebuild" /\ LoadsIfAny(w.content.current)
    BY <1>4 DEF Rebuilds
  <2>2. UNCHANGED <<live, meta, value>> /\ new = w.content
    BY <1>3, <2>1 DEF Written
  <2>3. ValueLeft(t, r, m, new)'
    BY <1>1, <1>4, <2>2, LeftStays
  <2>4. LoadsIfAny(new.current)'
    BY <2>1, <2>2, SMTT(30) DEF LoadsIfAny, Loads
  <2> QED
    BY <1>3, <2>3, <2>4
<1>5. CASE ValueLeft(s, r, m, anchorState)
  <2>1. CASE value[r] = "intact" /\ meta[r] = m /\ live = r /\ StateLeft(s, r, m, anchorState)
    <3>1. w.file = "state" /\ w.content.current = [sha |-> r, at |-> m] /\ Len(t) = 0
      BY <2>1 DEF StateLeft
    <3>2. UNCHANGED <<live, meta, value>> /\ new.current = [sha |-> r, at |-> m]
      BY <1>3, <3>1 DEF Written
    <3>3. ValueLeft(t, r, m, new)'
      BY <2>1, <3>1, <3>2 DEF ValueLeft, MetaLeft, LiveLeft, StateLeft
    <3>4. LoadsIfAny(new.current)'
      BY <2>1, <3>2 DEF LoadsIfAny, Loads
    <3> QED
      BY <1>3, <3>3, <3>4
  <2>2. CASE /\ value[r] = "intact" /\ meta[r] = m
             /\ w.file = "live" /\ w.content = r /\ StateLeft(t, r, m, anchorState)
    <3>1. UNCHANGED <<meta, value>> /\ live' = r /\ new = anchorState
      BY <1>3, <2>2 DEF Written
    <3>2. StateLeft(t, r, m, new)'
      BY <1>1, <2>2, <3>1, LeftStays
    <3>3. ValueLeft(t, r, m, new)'
      BY <2>2, <3>1, <3>2 DEF ValueLeft, MetaLeft, LiveLeft
    <3>4. anchorFaults = 0 => LoadsIfAny(new.current)'
      BY <3>1 DEF LoadsIfAny, Loads
    <3> QED
      BY <1>1, <1>3, <3>3, <3>4
  <2>3. CASE /\ value[r] = "intact" /\ meta[r] = 0 /\ w.file = "meta"
             /\ w.content = [sha |-> r, at |-> m] /\ LiveLeft(t, r, m, anchorState)
    <3>a. w.content.sha = r /\ w.content.at = m
      BY <2>3
    <3>b. UNCHANGED <<live, value>> /\ new = anchorState
      BY <1>3, <2>3 DEF Written
    <3>c. meta' = [meta EXCEPT ![w.content.sha] = w.content.at]
      BY <2>3 DEF Written
    <3>1. UNCHANGED <<live, value>> /\ new = anchorState /\ meta' = [meta EXCEPT ![r] = m]
      BY <3>a, <3>b, <3>c
    <3>2. LiveLeft(t, r, m, new)'
      BY <1>1, <2>3, <3>1, LeftStays
    <3>3. meta'[r] = m
      BY <1>1, <1>2, <3>1
    <3>4. ValueLeft(t, r, m, new)'
      BY <2>3, <3>1, <3>2, <3>3 DEF ValueLeft, MetaLeft
    <3>5. anchorFaults = 0 => LoadsIfAny(new.current)'
      <4>1. anchorFaults = 0 /\ new.current # NoPointer => Loads(new.current, Good)
        BY <3>1 DEF LoadsIfAny
      <4>2. ASSUME Loads(new.current, Good)
            PROVE  new.current.sha # r /\ new.current.sha \in Anchors
        <5>1. new.current.sha \in Anchors
          BY <4>2 DEF Loads, AnchorAssumption
        <5>2. new.current.at > 0 /\ meta[new.current.sha] = new.current.at
          BY <4>2 DEF Loads
        <5>3. meta[new.current.sha] > 0
          BY <5>2, Zenon
        <5>4. ~(meta[r] > 0)
          BY <2>3
        <5> QED
          BY <5>1, <5>3, <5>4
      <4>3. Loads(new.current, Good) => Loads(new.current, Good)'
        BY <1>2, <3>1, <4>2 DEF Loads
      <4> QED
        BY <4>1, <4>3 DEF LoadsIfAny
    <3> QED
      BY <1>1, <1>3, <3>4, <3>5
  <2>4. CASE w.file = "value" /\ w.content = r /\ MetaLeft(t, r, m, anchorState)
    <3>1. UNCHANGED <<live, meta>> /\ new = anchorState /\ value' = [value EXCEPT ![r] = "intact"]
      BY <1>3, <2>4 DEF Written
    <3>2. MetaLeft(t, r, m, new)'
      BY <1>1, <2>4, <3>1, LeftStays
    <3>3. value'[r] = "intact"
      BY <1>1, <1>2, <3>1
    <3>4. ValueLeft(t, r, m, new)'
      BY <3>2, <3>3 DEF ValueLeft
    <3>5. anchorFaults = 0 => LoadsIfAny(new.current)'
      <4>1. Loads(new.current, Good) => Loads(new.current, Good)'
        BY <1>2, <3>1 DEF Loads, AnchorAssumption
      <4> QED
        BY <3>1, <4>1 DEF LoadsIfAny
    <3> QED
      BY <1>1, <1>3, <3>4, <3>5
  <2> QED
    BY <1>5, <2>1, <2>2, <2>3, <2>4 DEF ValueLeft, MetaLeft, LiveLeft
<1> QED
  BY <1>4, <1>5

LEMMA WriteAnchorKeeps ==
    ASSUME AnchorInv, AnchorAssumption, WriteAnchor
    PROVE  AnchorInv'
<1>1. AnchorTypeOK /\ anchorOp.writes \in Seq(AnchorWrites)
  BY DEF AnchorInv, AnchorTypeOK
<1>2. PICK op : op = anchorOp
  OBVIOUS
<1>3. PICK s : s = op.writes
  OBVIOUS
<1>4. PICK w : w = Head(s)
  OBVIOUS
<1>5. PICK t : t = Tail(s)
  OBVIOUS
<1>6. s \in Seq(AnchorWrites) /\ Len(s) # 0 /\ s # <<>>
  <2>1. s \in Seq(AnchorWrites) /\ s # <<>>
    BY <1>1, <1>2, <1>3 DEF WriteAnchor
  <2> QED
    BY <2>1
<1>7. w \in AnchorWrites /\ t \in Seq(AnchorWrites)
  BY <1>4, <1>5, <1>6
<1>8. Written(w) /\ w.file # "collision" /\ UNCHANGED <<settled, anchorFaults>>
  BY <1>2, <1>3, <1>4 DEF WriteAnchor, Written
<1>9. PICK op2 : op2 = anchorOp'
  OBVIOUS
<1>10. op2.writes = t /\ op2.result = op.result /\ op2 = Operation(op2.kind, op2.writes, op2.result)
  <2>1. op2 = [op EXCEPT !.writes = t]
    BY <1>2, <1>3, <1>5, <1>9 DEF WriteAnchor
  <2>2. op = Operation(op.kind, op.writes, op.result)
    BY <1>1, <1>2 DEF AnchorTypeOK
  <2> QED
    BY <2>1, <2>2 DEF Operation
<1>11. Planned(op) /\ ~settled
  <2>1. op # Idle
    BY <1>3, <1>6 DEF Idle
  <2> QED
    BY <1>2, <2>1 DEF AnchorInv
<1>12. anchorFaults = 0 => Undamaged /\ LoadsIfAny(anchorState.current)
  BY DEF AnchorInv
<1>13. AnchorTypeOK' /\ (anchorFaults = 0 => Undamaged)'
  <2>1. /\ w.file = "value" => w.content \in Anchors
        /\ w.file = "meta" => w.content.sha \in Anchors /\ w.content.at \in Nat
        /\ w.file \in {"state", "rebuild"} => w.content \in AnchorStates
    BY <1>7 DEF AnchorWrites
  <2>2. value' \in [Anchors -> {"absent", "intact", "damaged"}]
    BY <1>1, <1>8, <2>1 DEF AnchorTypeOK, Written
  <2>3. meta' \in [Anchors -> Nat \cup {Damaged}]
    BY <1>1, <1>8, <2>1 DEF AnchorTypeOK, Written
  <2>4. anchorState' \in AnchorStates
    BY <1>1, <1>8, <2>1 DEF AnchorTypeOK, Written
  <2>5. AnchorTypeOK'
    BY <1>1, <1>7, <1>8, <1>9, <1>10, <2>2, <2>3, <2>4 DEF AnchorTypeOK
  <2>6. (anchorFaults = 0 => Undamaged)'
    <3> SUFFICES ASSUME anchorFaults = 0, NEW a \in Anchors
                 PROVE  value'[a] # "damaged" /\ meta'[a] # Damaged
      BY <1>8 DEF Undamaged
    <3>1. value[a] # "damaged" /\ meta[a] # Damaged
      BY <1>12 DEF Undamaged
    <3>2. value'[a] # "damaged"
      BY <1>1, <1>8, <2>1, <3>1 DEF AnchorTypeOK, Written
    <3>3. meta'[a] # Damaged
      BY <1>1, <1>8, <2>1, <3>1 DEF AnchorTypeOK, Written, Damaged
    <3> QED
      BY <3>2, <3>3
  <2> QED
    BY <2>5, <2>6
<1>14. Planned(op2)' /\ (anchorFaults = 0 => LoadsIfAny(anchorState.current))'
  <2>1. CASE Meets(s)
    <3>1. anchorFaults' > 0 /\ ~(anchorFaults' = 0)
      BY <1>1, <1>8, <2>1 DEF Meets, AnchorTypeOK
    <3>2. PICK i \in 1 .. Len(s) : s[i].file = "collision"
      BY <2>1 DEF Meets
    <3>3. i # 1
      BY <1>4, <1>6, <1>8, <3>2
    <3>4. Len(t) = Len(s) - 1 /\ t[i - 1] = s[i] /\ i - 1 \in 1 .. Len(t)
      <4> HIDE DEF AnchorWrites
      <4> QED
        BY <1>5, <1>6, <3>2, <3>3
    <3>5. Meets(t)'
      BY <3>1, <3>2, <3>4 DEF Meets
    <3> QED
      BY <1>10, <3>1, <3>5 DEF Planned
  <2>2. CASE op.result = NoAnchor /\ Rebuilds(s) /\ Len(s) = 1
    <3>1. w.file = "rebuild" /\ LoadsIfAny(w.content.current) /\ Len(t) = 0
      BY <1>4, <1>5, <1>6, <2>2 DEF Rebuilds
    <3>2. UNCHANGED <<value, meta>> /\ anchorState' = w.content
      BY <1>8, <3>1 DEF Written
    <3>3. LoadsIfAny(anchorState.current)'
      BY <3>1, <3>2 DEF LoadsIfAny, Loads
    <3> QED
      BY <1>10, <2>2, <3>1, <3>3 DEF Planned
  <2>3. CASE op.result \in Good /\ \E m \in Nat \ {0} : AllLeft(s, op.result, m)
    <3>1. PICK m \in Nat \ {0} : AllLeft(s, op.result, m)
      BY <2>3
    <3>2. AllLeft(t, op.result, m)' /\ (anchorFaults = 0 => LoadsIfAny(anchorState.current))'
      BY <1>1, <1>4, <1>5, <1>6, <1>8, <1>12, <2>3, <3>1, LeftAfterWrite
    <3> QED
      BY <1>10, <2>3, <3>2 DEF Planned
  <2> QED
    BY <1>3, <1>6, <1>11, <2>1, <2>2, <2>3 DEF Planned
<1>15. ~settled' /\ LiveAnchorIsSelected'
  BY <1>8, <1>11 DEF LiveAnchorIsSelected
<1> QED
  BY <1>9, <1>13, <1>14, <1>15 DEF AnchorInv

LEMMA ReturnAnchorKeeps ==
    ASSUME AnchorInv, AnchorAssumption, ReturnAnchor
    PROVE  AnchorInv'
<1>1. UNCHANGED <<value, meta, live, anchorState, anchorFaults>> /\ anchorOp' = Idle
  BY DEF ReturnAnchor
<1>2. AnchorTypeOK'
  <2>1. Idle = Operation(Idle.kind, Idle.writes, Idle.result) /\ Idle.writes \in Seq(AnchorWrites)
    BY DEF Idle, Operation
  <2> QED
    BY <1>1, <2>1 DEF AnchorInv, AnchorTypeOK
<1>3. (anchorFaults = 0 => Undamaged /\ LoadsIfAny(anchorState.current))'
  BY <1>1 DEF AnchorInv, Undamaged, LoadsIfAny, Loads
<1>4. LiveAnchorIsSelected'
  <2> SUFFICES ASSUME settled'
               PROVE  /\ live = anchorState.current.sha
                      /\ value[live] = "intact"
                      /\ anchorFaults = 0 => Loads(anchorState.current, Good)
    BY <1>1 DEF LiveAnchorIsSelected, Loads
  <2>1. anchorOp.result # NoAnchor /\ Len(anchorOp.writes) = 0 /\ anchorOp # Idle
    BY DEF ReturnAnchor
  <2>2. Planned(anchorOp)
    BY <2>1 DEF AnchorInv
  <2>3. ~Meets(anchorOp.writes)
    BY <2>1 DEF Meets
  <2>4. PICK m \in Nat \ {0} : AllLeft(anchorOp.writes, anchorOp.result, m)
    BY <2>1, <2>2, <2>3 DEF Planned
  <2>5. anchorOp.result \in Good
    BY <2>1, <2>2, <2>3 DEF Planned
  <2>6. /\ value[anchorOp.result] = "intact" /\ meta[anchorOp.result] = m
        /\ live = anchorOp.result /\ anchorState.current.sha = anchorOp.result
        /\ anchorFaults = 0 => anchorState.current.at = m
    BY <2>1, <2>4 DEF AllLeft, Rebuilds, ValueLeft, MetaLeft, LiveLeft, StateLeft
  <2> QED
    BY <2>5, <2>6 DEF Loads
<1> QED
  BY <1>1, <1>2, <1>3, <1>4 DEF AnchorInv

LEMMA InterruptAnchorKeeps ==
    ASSUME AnchorInv, AnchorAssumption, InterruptAnchor
    PROVE  AnchorInv'
<1>1. UNCHANGED <<value, meta, live, anchorState, anchorFaults, settled>> /\ anchorOp' = Idle
  BY DEF InterruptAnchor
<1>2. AnchorTypeOK'
  <2>1. Idle = Operation(Idle.kind, Idle.writes, Idle.result) /\ Idle.writes \in Seq(AnchorWrites)
    BY DEF Idle, Operation
  <2> QED
    BY <1>1, <2>1 DEF AnchorInv, AnchorTypeOK
<1>3. (anchorFaults = 0 => Undamaged /\ LoadsIfAny(anchorState.current))'
  BY <1>1 DEF AnchorInv, Undamaged, LoadsIfAny, Loads
<1>4. LiveAnchorIsSelected'
  BY <1>1 DEF AnchorInv, LiveAnchorIsSelected, Loads
<1> QED
  BY <1>1, <1>2, <1>3, <1>4 DEF AnchorInv

LEMMA AnchorFaultKeeps ==
    ASSUME AnchorInv, AnchorAssumption, AnchorFault
    PROVE  AnchorInv'
<1>1. anchorOp' = Idle /\ ~settled' /\ anchorFaults' = anchorFaults + 1 /\ anchorOp' = anchorOp
  BY DEF AnchorFault
<1>2. anchorFaults' \in Nat /\ anchorFaults' # 0
  BY <1>1 DEF AnchorInv, AnchorTypeOK
<1>3. value' \in [Anchors -> {"absent", "intact", "damaged"}]
  BY DEF AnchorFault, AnchorInv, AnchorTypeOK
<1>4. meta' \in [Anchors -> Nat \cup {Damaged}]
  BY DEF AnchorFault, AnchorInv, AnchorTypeOK, Damaged
<1>5. anchorState' \in AnchorStates
  BY DEF AnchorFault, AnchorInv, AnchorTypeOK, AnchorStates, AnchorPointers, NoState, NoPointer
<1>6. AnchorTypeOK'
  BY <1>1, <1>2, <1>3, <1>4, <1>5 DEF AnchorInv, AnchorTypeOK
<1>7. LiveAnchorIsSelected'
  BY <1>1 DEF LiveAnchorIsSelected
<1> QED
  BY <1>1, <1>2, <1>6, <1>7 DEF AnchorInv

LEMMA AnchorStutterKeeps ==
    ASSUME AnchorInv, UNCHANGED anchorVars
    PROVE  AnchorInv'
<1>1. /\ UNCHANGED <<value, meta, live, anchorState>>
      /\ UNCHANGED <<anchorOp, settled, anchorFaults>>
  BY DEF anchorVars
<1>2. PICK op : op = anchorOp
  OBVIOUS
<1>3. AnchorTypeOK'
  BY <1>1 DEF AnchorInv, AnchorTypeOK
<1>4. Planned(op) => Planned(op)'
  BY <1>1, PlanStays DEF AnchorInv, AnchorTypeOK
<1>5. (anchorFaults = 0 => Undamaged /\ LoadsIfAny(anchorState.current))'
  BY <1>1 DEF AnchorInv, Undamaged, LoadsIfAny, Loads
<1>6. LiveAnchorIsSelected'
  BY <1>1 DEF AnchorInv, LiveAnchorIsSelected, Loads
<1> QED
  BY <1>1, <1>2, <1>3, <1>4, <1>5, <1>6 DEF AnchorInv

(* When an operation on the trust anchor has succeeded, the live copy, the  *)
(* state and the snapshot agree, for every set of anchors, every validator  *)
(* verdict and every sequence of interrupted operations and faults          *)
(* (anchor.go: RefreshAnchor, currentAnchorLocked, RollbackAnchor).         *)
THEOREM SelectedAnchorIsLive == AnchorSpec => []LiveAnchorIsSelected
<1>1. AnchorInit => AnchorInv
  BY AnchorStarts, AnchorAssumption
<1>2. AnchorInv /\ [AnchorNext]_anchorVars => AnchorInv'
  BY BeginAnchorKeeps, WriteAnchorKeeps, ReturnAnchorKeeps, InterruptAnchorKeeps,
     AnchorFaultKeeps, AnchorStutterKeeps, AnchorAssumption DEF AnchorNext
<1>3. AnchorInv => LiveAnchorIsSelected
  BY DEF AnchorInv
<1> QED
  BY <1>1, <1>2, <1>3, PTL DEF AnchorSpec

-----------------------------------------------------------------------------
(* A write of a plan that replaces no damaged file, and one that is refused *)
(* because a file is damaged.                                               *)
FitWrites ==
    {w \in AnchorWrites :
        /\ w.file = "value" => value[w.content] # "damaged"
        /\ w.file = "meta" => meta[w.content.sha] # Damaged
        /\ w.file = "collision" => ~Undamaged}

(* As long as nothing has failed, an anchor in use is both live and in the  *)
(* state; the one fault takes one of the two, or damages a file for good.   *)
Survival ==
    /\ anchorOp # Idle => anchorOp.writes \in Seq(FitWrites)
    /\ established /\ anchorFaults = 0 => live \in Good /\ anchorState.current # NoPointer
    /\ established /\ anchorFaults <= 1 /\ Undamaged =>
          live \in Good \/ Loads(anchorState.current, Good)

LEMMA FitNothing == <<>> \in Seq(FitWrites)
OBVIOUS

LEMMA FitJoined ==
    ASSUME NEW s \in Seq(FitWrites), NEW t \in Seq(FitWrites)
    PROVE  s \o t \in Seq(FitWrites)
<1> HIDE DEF FitWrites
<1> QED
  OBVIOUS

LEMMA FitLive == ASSUME NEW r \in Anchors PROVE Put("live", r) \in Seq(FitWrites)
<1>1. [file |-> "live", content |-> r] \in FitWrites
  BY DEF AnchorWrites, FitWrites
<1> QED
  BY <1>1 DEF Put

LEMMA FitState ==
    ASSUME NEW f \in {"state", "rebuild"}, NEW c \in AnchorStates
    PROVE  Put(f, c) \in Seq(FitWrites)
<1> DEFINE w == [file |-> f, content |-> c]
<1>1. w \in AnchorWrites /\ w.file = f
  BY NamesWrite
<1>2. Put(f, c) = <<w>>
  BY DEF Put
<1> HIDE DEF w
<1>3. w \in FitWrites
  BY <1>1 DEF FitWrites
<1> QED
  BY <1>2, <1>3

LEMMA FitSnapshot ==
    ASSUME Planning, NEW r \in Anchors, NEW m \in Nat \ {0}
    PROVE  SnapshotWrites(r, m) \in Seq(FitWrites)
<1> DEFINE blocked == [file |-> "collision", content |-> r]
           v == [file |-> "value", content |-> r]
           c == [sha |-> r, at |-> m]
           d == [file |-> "meta", content |-> c]
<1>1. meta[r] \in Nat \cup {Damaged} /\ value[r] \in {"absent", "intact", "damaged"}
  BY DEF Planning, AnchorTypeOK
<1>2. /\ blocked \in AnchorWrites /\ blocked.file = "collision"
      /\ v \in AnchorWrites /\ v.file = "value" /\ v.content = r
      /\ d \in AnchorWrites /\ d.file = "meta" /\ d.content.sha = r
  BY DEF AnchorWrites
<1>3. PutValue(r) \in Seq(FitWrites)
  <2>1. \/ PutValue(r) = <<>>
        \/ value[r] # "damaged" /\ PutValue(r) = <<v>>
        \/ value[r] = "damaged" /\ PutValue(r) = <<blocked>>
    BY <1>1 DEF PutValue, Put
  <2> HIDE DEF v, blocked
  <2>2. value[r] # "damaged" => <<v>> \in Seq(FitWrites)
    <3>1. value[r] # "damaged" => v \in FitWrites
      BY <1>2 DEF FitWrites
    <3> HIDE DEF FitWrites
    <3> QED
      BY <3>1, OneOnly
  <2>3. value[r] = "damaged" => <<blocked>> \in Seq(FitWrites)
    <3>1. value[r] = "damaged" => blocked \in FitWrites
      BY <1>2 DEF FitWrites, Undamaged
    <3> HIDE DEF FitWrites
    <3> QED
      BY <3>1, OneOnly
  <2> QED
    BY <2>1, <2>2, <2>3, FitNothing, Zenon
<1>4. PutMeta(r, m) \in Seq(FitWrites)
  <2>1. \/ PutMeta(r, m) = <<>>
        \/ meta[r] # Damaged /\ PutMeta(r, m) = <<d>>
        \/ meta[r] = Damaged /\ PutMeta(r, m) = <<blocked>>
    BY <1>1 DEF PutMeta, Put, Damaged
  <2> HIDE DEF d, blocked
  <2>2. meta[r] # Damaged => <<d>> \in Seq(FitWrites)
    <3>1. meta[r] # Damaged => d \in FitWrites
      BY <1>2 DEF FitWrites
    <3> HIDE DEF FitWrites
    <3> QED
      BY <3>1, OneOnly
  <2>3. meta[r] = Damaged => <<blocked>> \in Seq(FitWrites)
    <3>1. meta[r] = Damaged => blocked \in FitWrites
      BY <1>2 DEF FitWrites, Undamaged
    <3> HIDE DEF FitWrites
    <3> QED
      BY <3>1, OneOnly
  <2> QED
    BY <2>1, <2>2, <2>3, FitNothing, Zenon
<1> QED
  BY <1>3, <1>4, FitJoined DEF SnapshotWrites

LEMMA FitFound == ASSUME NEW F, NEW cur, Found(F, cur) PROVE F \in Seq(FitWrites)
<1>1. CASE Len(F) = 0
  <2>1. F \in Seq(AnchorWrites)
    BY DEF Found
  <2>2. F = <<>>
    <3> HIDE DEF AnchorWrites
    <3> QED
      BY <1>1, <2>1
  <2> QED
    BY <2>2, FitNothing
<1>2. CASE F = Put("rebuild", cur)
  BY <1>2, FitState DEF Found
<1> QED
  BY <1>1, <1>2 DEF Found

LEMMA CurrentFits ==
    ASSUME Planning, NEW ok \in SUBSET Good, NEW lost, NEW op, op = CurrentAnchor(ok, lost)
    PROVE  op.writes \in Seq(FitWrites)
<1> DEFINE F == LoadOrDiscoverAnchor(ok, lost).writes
           s == LoadOrDiscoverAnchor(ok, lost).state
           adopted == Publish(live, 0)
<1>1. Found(F, s)
  BY FoundIs
<1>2. \/ Loads(s.current, ok) /\ op = Operation("current",
              F \o (IF live = s.current.sha THEN <<>> ELSE Put("live", s.current.sha)),
              s.current.sha)
      \/ Loads(s.previous, ok) /\ op = Operation("current",
              F \o Put("live", s.previous.sha)
              \o Put("state", [current |-> s.previous, previous |-> NoPointer]),
              s.previous.sha)
      \/ live \in ok /\ op = Operation("current",
              F \o adopted.writes
              \o Put("state", [current |-> adopted.pointer, previous |-> NoPointer]),
              live)
      \/ op = Operation("current", F, NoAnchor)
  BY DEF CurrentAnchor
<1>3. NoPointer \in AnchorPointers
  BY DEF NoPointer, AnchorPointers
<1> HIDE DEF F, s, adopted
<1>4. F \in Seq(FitWrites) /\ s.current \in AnchorPointers /\ s.previous \in AnchorPointers
  BY <1>1, FoundTells, FitFound
<1>5. ok \subseteq Anchors
  BY DEF Planning, AnchorAssumption
<1>6. CASE Loads(s.current, ok) /\ op = Operation("current",
              F \o (IF live = s.current.sha THEN <<>> ELSE Put("live", s.current.sha)),
              s.current.sha)
  <2> DEFINE L == IF live = s.current.sha THEN <<>> ELSE Put("live", s.current.sha)
  <2>1. s.current.sha \in Anchors
    BY <1>5, <1>6 DEF Loads
  <2>2. L \in Seq(FitWrites)
    BY <2>1, FitLive, FitNothing
  <2>3. op.writes = F \o L
    BY <1>6 DEF Operation
  <2> QED
    BY <1>4, <2>2, <2>3, FitJoined
<1>7. CASE Loads(s.previous, ok) /\ op = Operation("current",
              F \o Put("live", s.previous.sha)
              \o Put("state", [current |-> s.previous, previous |-> NoPointer]),
              s.previous.sha)
  <2> DEFINE c == [current |-> s.previous, previous |-> NoPointer]
  <2>1. c \in AnchorStates
    BY <1>3, <1>4 DEF AnchorStates
  <2>2. op.writes = (F \o Put("live", s.previous.sha)) \o Put("state", c)
    BY <1>7, SMT DEF Operation
  <2> HIDE DEF c
  <2>3. s.previous.sha \in Anchors
    BY <1>5, <1>7 DEF Loads
  <2> QED
    BY <1>4, <2>1, <2>2, <2>3, FitJoined, FitLive, FitState
<1>8. CASE live \in ok /\ op = Operation("current",
              F \o adopted.writes
              \o Put("state", [current |-> adopted.pointer, previous |-> NoPointer]),
              live)
  <2> DEFINE c == [current |-> adopted.pointer, previous |-> NoPointer]
  <2>1. PICK m \in Nat \ {0} : /\ adopted.pointer = [sha |-> live, at |-> m]
                               /\ adopted.writes = SnapshotWrites(live, m)
    BY <1>5, <1>8, PublishIs DEF adopted
  <2>2. c \in AnchorStates
    BY <1>3, <1>5, <1>8, <2>1 DEF AnchorStates, AnchorPointers
  <2>3. op.writes = (F \o adopted.writes) \o Put("state", c)
    BY <1>8, SMT DEF Operation
  <2> HIDE DEF c
  <2>4. adopted.writes \in Seq(FitWrites)
    BY <1>5, <1>8, <2>1, FitSnapshot
  <2> QED
    BY <1>4, <2>2, <2>3, <2>4, FitJoined, FitState
<1>9. CASE op = Operation("current", F, NoAnchor)
  BY <1>4, <1>9 DEF Operation
<1> QED
  BY <1>2, <1>6, <1>7, <1>8, <1>9

LEMMA RollbackFits ==
    ASSUME Planning, NEW ok \in SUBSET Good, NEW lost, NEW op, op = RollbackAnchor(ok, lost)
    PROVE  op.writes \in Seq(FitWrites)
<1> DEFINE F == LoadOrDiscoverAnchor(ok, lost).writes
           s == LoadOrDiscoverAnchor(ok, lost).state
           c == [current |-> s.previous, previous |-> s.current]
<1>1. Found(F, s)
  BY FoundIs
<1>2. \/ Loads(s.previous, ok) /\ op = Operation("rollback",
              F \o Put("live", s.previous.sha) \o Put("state", c), s.previous.sha)
      \/ op = Operation("rollback", F, NoAnchor)
  BY DEF RollbackAnchor
<1> HIDE DEF F, s
<1>3. F \in Seq(FitWrites) /\ s.current \in AnchorPointers /\ s.previous \in AnchorPointers
  BY <1>1, FoundTells, FitFound
<1>4. c \in AnchorStates
  BY <1>3 DEF AnchorStates
<1> HIDE DEF c
<1>5. CASE Loads(s.previous, ok) /\ op = Operation("rollback",
              F \o Put("live", s.previous.sha) \o Put("state", c), s.previous.sha)
  <2>1. op.writes = (F \o Put("live", s.previous.sha)) \o Put("state", c)
    BY <1>5, SMT DEF Operation
  <2>2. s.previous.sha \in Anchors
    BY <1>5 DEF Loads, Planning, AnchorAssumption
  <2> QED
    BY <1>3, <1>4, <2>1, <2>2, FitJoined, FitLive, FitState
<1>6. CASE op = Operation("rollback", F, NoAnchor)
  BY <1>3, <1>6, SMT DEF Operation
<1> QED
  BY <1>2, <1>5, <1>6

LEMMA RefreshFits ==
    ASSUME Planning, NEW ok \in SUBSET Good, NEW candidate, NEW lost,
           NEW op, op = RefreshAnchor(candidate, ok, lost)
    PROVE  op.writes \in Seq(FitWrites)
<1> DEFINE F == LoadOrDiscoverAnchor(ok, lost).writes
           s == LoadOrDiscoverAnchor(ok, lost).state
           base == Baseline(s, ok)
           kept == Publish(base.pointer.sha, base.pointer.at)
           fresh == Publish(candidate, 0)
           older == IF s.current.sha = candidate THEN s.previous ELSE s.current
           next == [current |-> fresh.pointer, previous |-> older]
           push == [current |-> kept.pointer, previous |-> s.current]
           KeptLive == IF base.live THEN <<>> ELSE Put("live", base.pointer.sha)
           KeptState == IF s.current.sha = kept.pointer.sha THEN <<>> ELSE Put("state", push)
<1>1. Found(F, s)
  BY FoundIs
<1>2. \/ candidate \in ok /\ op = Operation("refresh",
              F \o fresh.writes \o Put("live", candidate) \o Put("state", next), candidate)
      \/ op = Operation("refresh", F, NoAnchor)
      \/ base.pointer # NoPointer /\ op = Operation("refresh",
              F \o kept.writes \o KeptLive \o KeptState, base.pointer.sha)
  BY DEF RefreshAnchor, Accepted
<1>3. /\ F \in Seq(FitWrites) /\ s \in AnchorStates
      /\ s.current \in AnchorPointers /\ s.previous \in AnchorPointers
  BY <1>1, FoundTells, FitFound
<1> HIDE DEF F, s, base, kept, fresh, KeptLive, KeptState, next, push
<1>4. CASE candidate \in ok /\ op = Operation("refresh",
              F \o fresh.writes \o Put("live", candidate) \o Put("state", next), candidate)
  <2>1. candidate \in Anchors
    BY <1>4 DEF Planning, AnchorAssumption
  <2>2. PICK m \in Nat \ {0} : /\ fresh.pointer = [sha |-> candidate, at |-> m]
                               /\ fresh.writes = SnapshotWrites(candidate, m)
    BY <2>1, PublishIs DEF fresh
  <2>3. next \in AnchorStates
    <3>1. fresh.pointer \in AnchorPointers
      BY <2>1, <2>2 DEF AnchorPointers
    <3>2. older \in AnchorPointers
      BY <1>3
    <3> HIDE DEF older
    <3> QED
      BY <3>1, <3>2 DEF next, AnchorStates
  <2>4. op.writes = ((F \o fresh.writes) \o Put("live", candidate)) \o Put("state", next)
    BY <1>4, SMT DEF Operation
  <2>5. fresh.writes \in Seq(FitWrites)
    BY <2>1, <2>2, FitSnapshot
  <2> QED
    BY <1>3, <2>1, <2>3, <2>4, <2>5, FitJoined, FitLive, FitState
<1>5. CASE base.pointer # NoPointer /\ op = Operation("refresh",
              F \o kept.writes \o KeptLive \o KeptState, base.pointer.sha)
  <2>1. base.pointer.sha \in Anchors /\ base.pointer.at \in Nat
    BY <1>3, <1>5, BaselineIs DEF base, Planning, AnchorAssumption
  <2>2. PICK m \in Nat \ {0} : /\ kept.pointer = [sha |-> base.pointer.sha, at |-> m]
                               /\ kept.writes = SnapshotWrites(base.pointer.sha, m)
    BY <2>1, PublishIs DEF kept
  <2>3. push \in AnchorStates
    <3>1. kept.pointer \in AnchorPointers
      BY <2>1, <2>2 DEF AnchorPointers
    <3> QED
      BY <1>3, <3>1 DEF push, AnchorStates
  <2>4. op.writes = ((F \o kept.writes) \o KeptLive) \o KeptState
    BY <1>5, SMT DEF Operation
  <2>5. kept.writes \in Seq(FitWrites)
    BY <2>1, <2>2, FitSnapshot
  <2>6. KeptLive \in Seq(FitWrites)
    BY <2>1, FitLive, FitNothing DEF KeptLive
  <2>7. KeptState \in Seq(FitWrites)
    BY <2>3, FitState, FitNothing DEF KeptState
  <2> QED
    BY <1>3, <2>4, <2>5, <2>6, <2>7, FitJoined
<1>6. CASE op = Operation("refresh", F, NoAnchor)
  BY <1>3, <1>6, SMT DEF Operation
<1> QED
  BY <1>2, <1>4, <1>5, <1>6

-----------------------------------------------------------------------------
LEMMA SurvivalStarts == AnchorInit => Survival
BY DEF AnchorInit, Survival

(* Without a step on the disk nothing is lost.                              *)
LEMMA FitStays ==
    ASSUME UNCHANGED <<value, meta>>
    PROVE  FitWrites' = FitWrites /\ (Undamaged' <=> Undamaged)
BY DEF FitWrites, Undamaged

LEMMA BeginSurvives ==
    ASSUME AnchorInv, Survival, AnchorAssumption, BeginAnchor
    PROVE  Survival'
<1>1. Planning
  BY DEF AnchorInv, Planning
<1>2. PICK op : op = anchorOp'
  OBVIOUS
<1>3. op.writes \in Seq(FitWrites)
  <2>1. PICK rejected \in SUBSET Good, lost \in BOOLEAN :
           LET ok == Good \ rejected
           IN  \/ \E candidate \in Anchors \cup {NoAnchor} :
                     anchorOp' = RefreshAnchor(candidate, ok, lost)
               \/ anchorOp' = CurrentAnchor(ok, lost)
               \/ anchorOp' = RollbackAnchor(ok, lost)
    BY DEF BeginAnchor
  <2> DEFINE ok == Good \ rejected
  <2>2. ok \in SUBSET Good
    OBVIOUS
  <2> HIDE DEF ok
  <2>3. ASSUME NEW candidate, op = RefreshAnchor(candidate, ok, lost)
        PROVE  op.writes \in Seq(FitWrites)
    BY <1>1, <2>2, <2>3, RefreshFits
  <2>4. ASSUME op = CurrentAnchor(ok, lost)
        PROVE  op.writes \in Seq(FitWrites)
    BY <1>1, <2>2, <2>4, CurrentFits
  <2>5. ASSUME op = RollbackAnchor(ok, lost)
        PROVE  op.writes \in Seq(FitWrites)
    BY <1>1, <2>2, <2>5, RollbackFits
  <2> QED
    BY <1>2, <2>1, <2>3, <2>4, <2>5, Zenon DEF ok
<1>4. /\ UNCHANGED <<value, meta, live, anchorState, established>>
      /\ anchorFaults \in Nat /\ anchorFaults' \in Nat /\ anchorFaults <= anchorFaults'
  <2>1. anchorFaults \in Nat
    BY DEF AnchorInv, AnchorTypeOK
  <2> QED
    BY <2>1 DEF BeginAnchor
<1>5. op.writes \in Seq(FitWrites')
  BY <1>3, <1>4, FitStays
<1>6. (established /\ anchorFaults = 0 => live \in Good /\ anchorState.current # NoPointer)'
  BY <1>4 DEF Survival
<1>7. (established /\ anchorFaults <= 1 /\ Undamaged =>
          live \in Good \/ Loads(anchorState.current, Good))'
  BY <1>4, FitStays DEF Survival, Loads
<1> QED
  BY <1>2, <1>5, <1>6, <1>7 DEF Survival

(* The next write of a plan that still has its snapshot to complete.        *)
NextWrite(w, r, m) ==
    \/ w.file = "state" /\ w.content.current = [sha |-> r, at |-> m] /\ live = r
    \/ w.file = "live" /\ w.content = r
    \/ w.file = "meta" /\ w.content = [sha |-> r, at |-> m] /\ ~(meta[r] > 0)
    \/ w.file = "value" /\ w.content = r

LEMMA HeadIs ==
    ASSUME NEW r, NEW m, NEW s, Len(s) # 0, NEW w, w = Head(s), NEW cur, ValueLeft(s, r, m, cur)
    PROVE  NextWrite(w, r, m)
BY DEF ValueLeft, MetaLeft, LiveLeft, StateLeft, NextWrite

(* Such a write takes neither the live anchor nor the state away.           *)
LEMMA WriteSpares ==
    ASSUME AnchorTypeOK, AnchorAssumption, NEW r \in Good, NEW m \in Nat \ {0}, NEW w,
           NextWrite(w, r, m), Written(w)
    PROVE  /\ live \in Good => live' \in Good
           /\ anchorState.current # NoPointer => anchorState'.current # NoPointer
           /\ Loads(anchorState.current, Good) =>
                 live' \in Good \/ Loads(anchorState.current, Good)'
<1>1. r \in Anchors /\ r # NoAnchor
  BY DEF AnchorAssumption, NoAnchor
<1>2. value \in [Anchors -> {"absent", "intact", "damaged"}] /\ meta \in [Anchors -> Nat \cup {Damaged}]
  BY DEF AnchorTypeOK
<1>3. CASE w.file = "state" /\ w.content.current = [sha |-> r, at |-> m] /\ live = r
  <2>1. live' = r /\ anchorState'.current = [sha |-> r, at |-> m]
    BY <1>3 DEF Written
  <2>2. [sha |-> r, at |-> m] # NoPointer
    BY <1>1 DEF NoPointer
  <2> QED
    BY <2>1, <2>2
<1>4. CASE w.file = "live" /\ w.content = r
  BY <1>4 DEF Written
<1>5. CASE w.file = "meta" /\ w.content = [sha |-> r, at |-> m] /\ ~(meta[r] > 0)
  <2>1. w.content.sha = r /\ w.content.at = m
    BY <1>5
  <2>2. UNCHANGED <<live, anchorState, value>> /\ meta' = [meta EXCEPT ![w.content.sha] = w.content.at]
    BY <1>5 DEF Written
  <2>3. UNCHANGED <<live, anchorState, value>> /\ meta' = [meta EXCEPT ![r] = m]
    BY <2>1, <2>2
  <2>4. ASSUME Loads(anchorState.current, Good)
        PROVE  Loads(anchorState.current, Good)'
    <3>1. PICK p : p = anchorState.current
      OBVIOUS
    <3>2. p.sha \in Anchors /\ p.at > 0 /\ meta[p.sha] = p.at
      BY <2>4, <3>1 DEF Loads, AnchorAssumption
    <3>3. meta[p.sha] > 0
      BY <3>2, Zenon
    <3>4. p.sha # r
      BY <1>5, <3>3
    <3>5. Loads(p, Good)'
      BY <1>2, <2>3, <2>4, <3>1, <3>2, <3>4 DEF Loads
    <3> QED
      BY <2>3, <3>1, <3>5
  <2> QED
    BY <2>3, <2>4
<1>6. CASE w.file = "value" /\ w.content = r
  <2>1. UNCHANGED <<live, anchorState, meta>> /\ value' = [value EXCEPT ![r] = "intact"]
    BY <1>6 DEF Written
  <2>2. Loads(anchorState.current, Good) => Loads(anchorState.current, Good)'
    BY <1>2, <2>1 DEF Loads, AnchorAssumption
  <2> QED
    BY <2>1, <2>2
<1> QED
  BY <1>3, <1>4, <1>5, <1>6 DEF NextWrite

(* What is damaged stays damaged, and what fits goes on to.                 *)
LEMMA FitAfterWrite ==
    ASSUME AnchorTypeOK, NEW w \in FitWrites, w.file # "collision", Written(w)
    PROVE  (Undamaged' => Undamaged) /\ FitWrites \subseteq FitWrites'
<1>1. /\ w \in AnchorWrites
      /\ w.file = "value" => value[w.content] # "damaged" /\ w.content \in Anchors
      /\ w.file = "meta" =>
            meta[w.content.sha] # Damaged /\ w.content.sha \in Anchors /\ w.content.at \in Nat
  BY DEF FitWrites, AnchorWrites
<1>2. value \in [Anchors -> {"absent", "intact", "damaged"}] /\ meta \in [Anchors -> Nat \cup {Damaged}]
  BY DEF AnchorTypeOK
<1>3. \A a \in Anchors : value[a] = "damaged" <=> value'[a] = "damaged"
  BY <1>1, <1>2 DEF Written
<1>4. \A a \in Anchors : meta[a] = Damaged <=> meta'[a] = Damaged
  BY <1>1, <1>2 DEF Written, Damaged
<1>5. Undamaged' <=> Undamaged
  BY <1>3, <1>4 DEF Undamaged
<1>6. \A x \in AnchorWrites : /\ x.file = "value" => x.content \in Anchors
                              /\ x.file = "meta" => x.content.sha \in Anchors
  BY DEF AnchorWrites
<1> HIDE DEF AnchorWrites
<1>7. FitWrites \subseteq FitWrites'
  BY <1>3, <1>4, <1>5, <1>6 DEF FitWrites
<1> QED
  BY <1>5, <1>7

LEMMA WriteSurvives ==
    ASSUME AnchorInv, Survival, AnchorAssumption, WriteAnchor
    PROVE  Survival'
<1>1. AnchorTypeOK /\ anchorFaults \in Nat
  BY DEF AnchorInv, AnchorTypeOK
<1>2. PICK op : op = anchorOp
  OBVIOUS
<1>3. PICK s : s = op.writes
  OBVIOUS
<1>4. PICK w : w = Head(s)
  OBVIOUS
<1>5. PICK t : t = Tail(s)
  OBVIOUS
<1>6. op # Idle /\ s # <<>>
  BY <1>2, <1>3 DEF WriteAnchor, Idle
<1>7. s \in Seq(FitWrites) /\ s \in Seq(AnchorWrites) /\ Planned(op)
  BY <1>1, <1>2, <1>3, <1>6 DEF Survival, AnchorInv, AnchorTypeOK
<1>8. Len(s) # 0 /\ w \in FitWrites /\ t \in Seq(FitWrites)
  <2> HIDE DEF FitWrites
  <2> QED
    BY <1>4, <1>5, <1>6, <1>7
<1>9. Written(w) /\ w.file # "collision" /\ UNCHANGED <<established, anchorFaults>>
  BY <1>2, <1>3, <1>4 DEF WriteAnchor, Written
<1>10. anchorOp'.writes = t
  <2>1. op = Operation(op.kind, op.writes, op.result)
    BY <1>1, <1>2 DEF AnchorTypeOK
  <2>2. anchorOp' = [op EXCEPT !.writes = t]
    BY <1>2, <1>3, <1>5 DEF WriteAnchor
  <2> QED
    BY <2>1, <2>2 DEF Operation
<1>11. (Undamaged' => Undamaged) /\ FitWrites \subseteq FitWrites'
  BY <1>1, <1>8, <1>9, FitAfterWrite
<1>12. t \in Seq(FitWrites')
  <2>1. PICK W : W = FitWrites'
    OBVIOUS
  <2> HIDE DEF FitWrites
  <2>2. t \in Seq(W)
    BY <1>8, <1>11, <2>1
  <2> QED
    BY <2>1, <2>2
<1>13. Undamaged => ~Meets(s)
  <2>1. ASSUME NEW i \in 1 .. Len(s), s[i].file = "collision"
        PROVE  ~Undamaged
    <3>1. s[i] \in FitWrites
      <4> HIDE DEF FitWrites
      <4> QED
        BY <1>7
    <3> QED
      BY <2>1, <3>1 DEF FitWrites
  <2> QED
    BY <2>1 DEF Meets
<1>14. ASSUME ~Meets(s)
       PROVE  \/ w.file = "rebuild" /\ ~HasState
              \/ \E r \in Good, m \in Nat \ {0} : NextWrite(w, r, m)
  <2>1. CASE op.result \in Good /\ \E m \in Nat \ {0} : AllLeft(s, op.result, m)
    <3>1. PICK m \in Nat \ {0} : AllLeft(s, op.result, m)
      BY <2>1
    <3>2. CASE Rebuilds(s)
      BY <1>4, <3>2 DEF Rebuilds
    <3>3. CASE ValueLeft(s, op.result, m, anchorState)
      BY <1>4, <1>8, <2>1, <3>3, HeadIs
    <3> QED
      BY <3>1, <3>2, <3>3 DEF AllLeft
  <2>2. CASE Rebuilds(s)
    BY <1>4, <2>2 DEF Rebuilds
  <2> QED
    BY <1>3, <1>7, <1>8, <1>14, <2>1, <2>2 DEF Planned
<1>15. Loads(anchorState.current, Good) => anchorState.current # NoPointer
  BY DEF Loads, NoPointer
<1>16. anchorState.current # NoPointer => HasState
  BY DEF HasState, NoState
<1>17. ASSUME ~Meets(s)
       PROVE  /\ live \in Good => live' \in Good
              /\ anchorState.current # NoPointer => anchorState'.current # NoPointer
              /\ Loads(anchorState.current, Good) =>
                    live' \in Good \/ Loads(anchorState.current, Good)'
  <2>1. CASE w.file = "rebuild" /\ ~HasState
    BY <1>9, <1>15, <1>16, <2>1 DEF Written
  <2>2. ASSUME NEW r \in Good, NEW m \in Nat \ {0}, NextWrite(w, r, m)
        PROVE  /\ live \in Good => live' \in Good
               /\ anchorState.current # NoPointer => anchorState'.current # NoPointer
               /\ Loads(anchorState.current, Good) =>
                     live' \in Good \/ Loads(anchorState.current, Good)'
    BY <1>1, <1>9, <2>2, WriteSpares
  <2> QED
    BY <1>14, <1>17, <2>1, <2>2
<1>18. (established /\ anchorFaults = 0 => live \in Good /\ anchorState.current # NoPointer)'
  <2>1. anchorFaults = 0 => ~Meets(s)
    BY <1>1 DEF Meets
  <2> QED
    BY <1>9, <1>17, <2>1 DEF Survival
<1>19. (established /\ anchorFaults <= 1 /\ Undamaged =>
           live \in Good \/ Loads(anchorState.current, Good))'
  BY <1>9, <1>11, <1>13, <1>17 DEF Survival
<1> QED
  BY <1>10, <1>12, <1>18, <1>19 DEF Survival

LEMMA ReturnSurvives ==
    ASSUME AnchorInv, Survival, AnchorAssumption, ReturnAnchor
    PROVE  Survival'
<1>1. UNCHANGED <<value, meta, live, anchorState, anchorFaults>> /\ anchorOp' = Idle
  BY DEF ReturnAnchor
<1>2. established' => \/ established
                      \/ live \in Good /\ anchorState.current # NoPointer
  <2> SUFFICES ASSUME established', ~established
               PROVE  live \in Good /\ anchorState.current # NoPointer
    OBVIOUS
  <2>1. anchorOp.result # NoAnchor /\ Len(anchorOp.writes) = 0 /\ anchorOp # Idle
    BY DEF ReturnAnchor
  <2>2. Planned(anchorOp)
    BY <2>1 DEF AnchorInv
  <2>3. ~Meets(anchorOp.writes)
    BY <2>1 DEF Meets
  <2>4. anchorOp.result \in Good /\ \E m \in Nat \ {0} : AllLeft(anchorOp.writes, anchorOp.result, m)
    BY <2>1, <2>2, <2>3 DEF Planned
  <2>5. live = anchorOp.result /\ anchorState.current.sha = anchorOp.result
    BY <2>1, <2>4 DEF AllLeft, Rebuilds, ValueLeft, MetaLeft, LiveLeft, StateLeft
  <2> QED
    BY <2>1, <2>4, <2>5 DEF NoPointer
<1>3. (established /\ anchorFaults = 0 => live \in Good /\ anchorState.current # NoPointer)'
  BY <1>1, <1>2 DEF Survival
<1>4. (established /\ anchorFaults <= 1 /\ Undamaged =>
          live \in Good \/ Loads(anchorState.current, Good))'
  BY <1>1, <1>2, FitStays DEF Survival, Loads
<1> QED
  BY <1>1, <1>3, <1>4 DEF Survival

LEMMA InterruptSurvives ==
    ASSUME Survival, InterruptAnchor
    PROVE  Survival'
<1>1. /\ UNCHANGED <<value, meta, live, anchorState, anchorFaults, established>>
      /\ anchorOp' = Idle
  BY DEF InterruptAnchor
<1>2. (established /\ anchorFaults = 0 => live \in Good /\ anchorState.current # NoPointer)'
  BY <1>1 DEF Survival
<1>3. (established /\ anchorFaults <= 1 /\ Undamaged =>
          live \in Good \/ Loads(anchorState.current, Good))'
  BY <1>1, FitStays DEF Survival, Loads
<1> QED
  BY <1>1, <1>2, <1>3 DEF Survival

(* The first fault finds the anchor both live and in the state.             *)
LEMMA FaultSurvives ==
    ASSUME AnchorInv, Survival, AnchorFault
    PROVE  Survival'
<1>1. /\ anchorOp' = Idle /\ anchorFaults' = anchorFaults + 1 /\ anchorFaults \in Nat
      /\ UNCHANGED established
  BY DEF AnchorFault, AnchorInv, AnchorTypeOK
<1>2. (established /\ anchorFaults = 0 => live \in Good /\ anchorState.current # NoPointer)'
  BY <1>1
<1>3. (established /\ anchorFaults <= 1 /\ Undamaged =>
          live \in Good \/ Loads(anchorState.current, Good))'
  <2> SUFFICES ASSUME established, anchorFaults = 0
               PROVE  live' \in Good \/ Loads(anchorState.current, Good)'
    BY <1>1
  <2>1. live \in Good /\ Loads(anchorState.current, Good)
    BY DEF Survival, AnchorInv, LoadsIfAny
  <2>2. UNCHANGED live \/ UNCHANGED <<value, meta, anchorState>>
    BY DEF AnchorFault
  <2> QED
    BY <2>1, <2>2 DEF Loads
<1> QED
  BY <1>1, <1>2, <1>3 DEF Survival

LEMMA StutterSurvives ==
    ASSUME Survival, UNCHANGED anchorVars
    PROVE  Survival'
<1>1. /\ UNCHANGED <<value, meta, live, anchorState>>
      /\ UNCHANGED <<anchorOp, anchorFaults, established>>
  BY DEF anchorVars
<1>2. (established /\ anchorFaults = 0 => live \in Good /\ anchorState.current # NoPointer)'
  BY <1>1 DEF Survival
<1>3. (established /\ anchorFaults <= 1 /\ Undamaged =>
          live \in Good \/ Loads(anchorState.current, Good))'
  BY <1>1, FitStays DEF Survival, Loads
<1>4. (anchorOp # Idle => anchorOp.writes \in Seq(FitWrites))'
  <2>1. FitWrites' = FitWrites
    BY <1>1, FitStays
  <2> HIDE DEF FitWrites
  <2> QED
    BY <1>1, <2>1 DEF Survival
<1> QED
  BY <1>2, <1>3, <1>4 DEF Survival

(* An operation that finds nothing damaged meets no damaged file.           *)
LEMMA UndamagedServes ==
    ASSUME Planning, Undamaged, live \in Good \/ Loads(anchorState.current, Good)
    PROVE  Serves(CurrentAnchor(Good, FALSE))
<1> DEFINE op == CurrentAnchor(Good, FALSE)
           s == LoadOrDiscoverAnchor(Good, FALSE).state
<1>1. op.writes \in Seq(FitWrites)
  BY CurrentFits
<1>2. \A i \in DOMAIN op.writes : op.writes[i].file # "collision"
  <2> HIDE DEF op
  <2> SUFFICES ASSUME NEW i \in DOMAIN op.writes
               PROVE  op.writes[i].file # "collision"
    OBVIOUS
  <2>1. op.writes[i] \in FitWrites
    <3> HIDE DEF FitWrites
    <3> QED
      BY <1>1
  <2> QED
    BY <2>1 DEF FitWrites
<1>3. op.result # NoAnchor
  <2>1. Loads(anchorState.current, Good) => s = anchorState
    BY DEF Loads, LoadOrDiscoverAnchor, HasState, NoState, NoPointer
  <2>2. NoAnchor \notin Good
    BY DEF Planning, AnchorAssumption, NoAnchor
  <2>3. \/ Loads(s.current, Good) /\ op.result = s.current.sha
        \/ Loads(s.previous, Good) /\ op.result = s.previous.sha
        \/ live \in Good /\ op.result = live
    BY <2>1 DEF CurrentAnchor, Operation
  <2> QED
    BY <2>2, <2>3 DEF Loads
<1> QED
  BY <1>2, <1>3 DEF Serves

(* A previous snapshot that loads is enough: the plan touches no snapshot.  *)
LEMMA PreviousServes ==
    ASSUME Planning, Loads(anchorState.previous, Good)
    PROVE  Serves(CurrentAnchor(Good, FALSE))
<1> DEFINE found == LoadOrDiscoverAnchor(Good, FALSE)
           F == found.writes
           s == found.state
           cur == s.current.sha
           prev == s.previous.sha
           L == IF live = cur THEN <<>> ELSE Put("live", cur)
           S == Put("state", [current |-> s.previous, previous |-> NoPointer])
           Apart == {w \in AnchorWrites : w.file # "collision"}
<1>1. found = [state |-> anchorState, writes |-> <<>>]
  BY DEF Loads, LoadOrDiscoverAnchor, HasState, NoState, NoPointer
<1>2. s = anchorState /\ F = <<>>
  <2> HIDE DEF found
  <2> QED
    BY <1>1
<1>3. PICK op : op = CurrentAnchor(Good, FALSE)
  OBVIOUS
<1>4. \/ Loads(s.current, Good) /\ op = Operation("current", F \o L, cur)
      \/ op = Operation("current", (F \o Put("live", prev)) \o S, prev)
  BY <1>2, <1>3 DEF CurrentAnchor
<1>5. Loads(s.previous, Good) /\ s \in AnchorStates
  BY <1>2 DEF Planning, AnchorTypeOK
<1> HIDE DEF found, F, s
<1>6. s.previous \in AnchorPointers /\ NoPointer \in AnchorPointers
  BY <1>5 DEF AnchorStates, AnchorPointers, NoPointer
<1>7. F \in Seq(Apart) /\ <<>> \in Seq(Apart)
  BY <1>2
<1>8. \A r \in Anchors : Put("live", r) \in Seq(Apart)
  <2> SUFFICES ASSUME NEW r \in Anchors
               PROVE  Put("live", r) \in Seq(Apart)
    OBVIOUS
  <2>1. [file |-> "live", content |-> r] \in Apart
    BY DEF AnchorWrites
  <2> QED
    BY <2>1 DEF Put
<1>9. S \in Seq(Apart)
  <2> DEFINE c == [current |-> s.previous, previous |-> NoPointer]
             w == [file |-> "state", content |-> c]
  <2>1. c \in AnchorStates
    BY <1>6 DEF AnchorStates
  <2>2. S = <<w>>
    BY DEF Put
  <2> HIDE DEF c, S
  <2>3. w \in AnchorWrites /\ w.file = "state"
    BY <2>1, NamesWrite
  <2> HIDE DEF w
  <2>4. w \in Apart
    BY <2>3
  <2> HIDE DEF Apart
  <2> QED
    BY <2>2, <2>4, OneOnly
<1>10. \A r \in Good : r \in Anchors /\ r # NoAnchor
  BY DEF Planning, AnchorAssumption, NoAnchor
<1>11. op.writes \in Seq(Apart) /\ op.result # NoAnchor
  <2>1. CASE Loads(s.current, Good) /\ op = Operation("current", F \o L, cur)
    <3>1. cur \in Anchors /\ cur # NoAnchor
      BY <1>10, <2>1 DEF Loads
    <3>2. L \in Seq(Apart)
      BY <1>7, <1>8, <3>1
    <3> HIDE DEF L, cur, Apart
    <3>3. op.writes = F \o L /\ op.result = cur
      BY <2>1 DEF Operation
    <3> QED
      BY <1>7, <3>1, <3>2, <3>3
  <2>2. CASE op = Operation("current", (F \o Put("live", prev)) \o S, prev)
    <3>1. prev \in Anchors /\ prev # NoAnchor
      BY <1>5, <1>10 DEF Loads
    <3>2. PICK P : P = Put("live", prev)
      OBVIOUS
    <3>3. P \in Seq(Apart)
      BY <1>8, <3>1, <3>2
    <3> HIDE DEF S, prev, Apart
    <3>4. op.writes = (F \o P) \o S /\ op.result = prev
      BY <2>2, <3>2 DEF Operation
    <3> QED
      BY <1>7, <1>9, <3>1, <3>3, <3>4
  <2> QED
    BY <1>4, <2>1, <2>2
<1>12. \A i \in DOMAIN op.writes : op.writes[i].file # "collision"
  <2>1. \A w \in Apart : w.file # "collision"
    OBVIOUS
  <2> HIDE DEF Apart
  <2> QED
    BY <1>11, <2>1
<1> QED
  BY <1>3, <1>11, <1>12 DEF Serves

(* One lost file, or one operation whose validator rejects or cannot run,   *)
(* never takes the trust anchor from an agent that has had one, for every   *)
(* set of anchors and wherever operations are cut short (anchor.go:         *)
(* currentAnchorLocked, anchorBaseline, publishAnchorSnapshot).             *)
THEOREM AnchorsSurvive == AnchorSpec => []AnchorSurvivesOneFault
<1>1. AnchorInit => AnchorInv /\ Survival
  BY AnchorStarts, SurvivalStarts, AnchorAssumption
<1>2. AnchorInv /\ [AnchorNext]_anchorVars => AnchorInv'
  BY BeginAnchorKeeps, WriteAnchorKeeps, ReturnAnchorKeeps, InterruptAnchorKeeps,
     AnchorFaultKeeps, AnchorStutterKeeps, AnchorAssumption DEF AnchorNext
<1>3. AnchorInv /\ Survival /\ [AnchorNext]_anchorVars => Survival'
  BY BeginSurvives, WriteSurvives, ReturnSurvives, InterruptSurvives,
     FaultSurvives, StutterSurvives, AnchorAssumption DEF AnchorNext
<1>4. AnchorInv /\ Survival => AnchorSurvivesOneFault
  <2> SUFFICES ASSUME AnchorInv, Survival, established, anchorFaults <= 1
               PROVE  \/ Serves(CurrentAnchor(Good, FALSE))
                      \/ /\ \E a \in Anchors : value[a] = "damaged" \/ meta[a] = Damaged
                         /\ ~Loads(anchorState.previous, Good)
    BY DEF AnchorSurvivesOneFault
  <2>1. Planning
    BY AnchorAssumption DEF AnchorInv, Planning
  <2>2. CASE Undamaged
    BY <2>1, <2>2, UndamagedServes DEF Survival
  <2>3. CASE Loads(anchorState.previous, Good)
    BY <2>1, <2>3, PreviousServes
  <2>4. CASE ~Undamaged /\ ~Loads(anchorState.previous, Good)
    BY <2>4 DEF Undamaged
  <2> QED
    BY <2>2, <2>3, <2>4
<1> QED
  BY <1>1, <1>2, <1>3, <1>4, PTL DEF AnchorSpec

-----------------------------------------------------------------------------
(* The identity of the agent: where a start of it can be.                   *)
Phases == {"down", "fatal", "prepare", "prepareWrite", "status", "register", "storeID",
           "storeIDWrite", "storeToken", "storeTokenWrite", "running"}

IdentityTypeOK ==
    /\ phase \in Phases
    /\ idFile \in Nat /\ tokenFile \in Nat
    /\ cfg \in [id : Nat, token : Nat]
    /\ setting \in [id : Nat, token : Nat, binding : BOOLEAN]
    /\ generated \in Nat /\ issued \in Nat
    /\ excused \in BOOLEAN

(* Each file agrees with the configuration from the step that writes it on, *)
(* and there is a token once the token file is touched.                     *)
FilesFollow ==
    /\ phase \in {"status", "register", "storeToken", "storeTokenWrite", "running"}
          => idFile = cfg.id
    /\ phase \in {"storeTokenWrite", "running"} => cfg.token # Unset
    /\ phase = "running" => tokenFile = cfg.token

(* Where a UUID is configured, every life has it until the server renames   *)
(* the agent.                                                               *)
GivenIsTaken ==
    (/\ IsUUID(setting.id) /\ ~excused
     /\ phase \notin {"down", "fatal", "running"}) => cfg.id = setting.id

(* Otherwise the id the agent last ran under is the one of this life and    *)
(* the one on disk, except while the file is truncated.                     *)
IDIsCarried ==
    IsUUID(lastID) /\ ~excused /\ ~IsUUID(setting.id) =>
        /\ phase \notin {"down", "fatal"} => cfg.id = lastID
        /\ phase \notin {"prepareWrite", "storeIDWrite"} => idFile = lastID

IdentityInv == IdentityTypeOK /\ FilesFollow /\ GivenIsTaken /\ IDIsCarried

-----------------------------------------------------------------------------
LEMMA InitiallyCarried == IdentityInit => IdentityInv
<1> SUFFICES ASSUME IdentityInit
             PROVE  IdentityInv
  OBVIOUS
<1> USE IdentityAssumption DEF IdentityInit, Unset, Legacy, Given
<1>1. IdentityTypeOK
  <2>1. Legacy \in Nat
    OBVIOUS
  <2>2. setting \in [id : Nat, token : Nat, binding : BOOLEAN]
    BY <2>1
  <2>3. idFile \in Nat /\ tokenFile \in Nat /\ issued \in Nat /\ generated \in Nat
    BY <2>1, <2>2
  <2> QED
    BY <2>2, <2>3 DEF IdentityTypeOK, Phases
<1>2. FilesFollow
  BY DEF FilesFollow
<1>3. GivenIsTaken /\ IDIsCarried
  BY DEF GivenIsTaken, IDIsCarried, IsUUID
<1> QED
  BY <1>1, <1>2, <1>3 DEF IdentityInv

(* loadConfig resolves to a configured UUID, else to the id on disk when    *)
(* that is a UUID, and writes the file only with the id it resolves to.     *)
LEMMA LoadCarries == IdentityInv /\ LoadConfig => IdentityInv'
<1> SUFFICES ASSUME IdentityInv, LoadConfig
             PROVE  IdentityInv'
  OBVIOUS
<1> USE IdentityAssumption DEF IdentityInv, Unset, Legacy, IsUUID, Fresh
<1>1. CASE StoredToken = Unset /\ ~setting.binding
  BY <1>1 DEF LoadConfig, IdentityTypeOK, FilesFollow, GivenIsTaken, IDIsCarried, Phases
<1>2. CASE ~(StoredToken = Unset /\ ~setting.binding)
  <2>1. PICK id \in 1..(MaxIDs + 2) :
           /\ ResolvesTo(id)
           /\ generated' = (IF id = generated + 1 THEN generated + 1 ELSE generated)
           /\ cfg' = [id |-> id, token |-> StoredToken]
           /\ idFile' = (IF id = generated + 1 /\ StoredToken = 0 THEN id ELSE idFile)
           /\ phase' = "prepare"
    BY <1>2 DEF LoadConfig
  <2>2. UNCHANGED <<setting, tokenFile, confirmed, issued, lastID, excused, kills>>
    BY DEF LoadConfig
  <2> StoredToken \in Nat
    BY DEF StoredToken, IdentityTypeOK
  <2>3. IdentityTypeOK'
    BY <2>1, <2>2 DEF IdentityTypeOK, Phases
  <2>4. FilesFollow'
    BY <2>1 DEF FilesFollow
  <2>5. IDIsCarried'
    <3>1. IsUUID(lastID) /\ ~excused /\ ~IsUUID(setting.id) => idFile = lastID /\ id = idFile
      BY <2>1 DEF IDIsCarried, LoadConfig, ResolvesTo
    <3> QED
      BY <3>1, <2>1, <2>2 DEF IDIsCarried
  <2>6. GivenIsTaken'
    BY <2>1, <2>2 DEF GivenIsTaken, ResolvesTo
  <2> QED
    BY <2>3, <2>4, <2>5, <2>6
<1> QED
  BY <1>1, <1>2

LEMMA IdentityStep == IdentityInv /\ [IdentityNext]_identityVars => IdentityInv'
<1> SUFFICES ASSUME IdentityInv, [IdentityNext]_identityVars
             PROVE  IdentityInv'
  OBVIOUS
<1> USE IdentityAssumption
    DEF IdentityInv, IdentityTypeOK, FilesFollow, GivenIsTaken, IDIsCarried, Phases,
        Unset, IsUUID, Fresh
<1>1. CASE LoadConfig
  BY <1>1, LoadCarries
<1>2. CASE PrepareTruncate
  BY <1>2 DEF PrepareTruncate
<1>3. CASE PrepareWrite
  BY <1>3 DEF PrepareWrite
<1>4. CASE CheckStatus
  BY <1>4 DEF CheckStatus
<1>5. CASE Register
  <2>1. PICK token \in {issued + 1, Unset}, named \in BOOLEAN :
          /\ issued' = (IF token = Unset THEN issued ELSE token)
          /\ \/ /\ cfg' = [cfg EXCEPT !.token = token]
                /\ UNCHANGED <<generated, excused>>
             \/ /\ named
                /\ generated' = generated + 1
                /\ cfg' = [id |-> generated + 1, token |-> token]
                /\ excused' = TRUE
          /\ phase' = IF named THEN "storeID" ELSE "storeToken"
    BY <1>5 DEF Register
  <2>2. phase = "register" /\ UNCHANGED <<setting, idFile, tokenFile, lastID, kills>>
    BY <1>5 DEF Register
  <2>3. token \in Nat
    OBVIOUS
  <2>4. cfg' \in [id : Nat, token : Nat]
    BY <2>1, <2>3
  <2>5. IdentityTypeOK'
    <3>1. issued' \in Nat /\ generated' \in Nat
      BY <2>1, <2>3
    <3>2. excused' \in BOOLEAN
      BY <2>1
    <3>3. phase' \in Phases
      BY <2>1
    <3> QED
      BY <2>2, <2>4, <3>1, <3>2, <3>3
  <2>6. (cfg'.id = cfg.id /\ excused' = excused) \/ (named /\ excused' = TRUE)
    <3>1. cfg \in [id : Nat, token : Nat]
      OBVIOUS
    <3> QED
      BY <2>1, <3>1
  <2>7. phase' = "storeID" \/ (phase' = "storeToken" /\ ~named)
    BY <2>1
  <2> HIDE DEF IdentityTypeOK
  <2>8. FilesFollow'
    BY <2>2, <2>6, <2>7
  <2>9. GivenIsTaken'
    BY <2>2, <2>6, <2>7
  <2>10. IDIsCarried'
    BY <2>2, <2>6, <2>7
  <2> QED
    BY <2>5, <2>8, <2>9, <2>10
<1>6. CASE RegisterFails
  BY <1>6 DEF RegisterFails
<1>7. CASE StoreIDTruncate
  BY <1>7 DEF StoreIDTruncate
<1>8. CASE StoreIDWrite
  BY <1>8 DEF StoreIDWrite
<1>9. CASE StoreTokenTruncate
  BY <1>9 DEF StoreTokenTruncate
<1>10. CASE StoreTokenWrite
  BY <1>10 DEF StoreTokenWrite
<1>11. CASE Ends
  BY <1>11 DEF Ends
<1>12. CASE NoTokenReturned
  BY <1>12 DEF NoTokenReturned
<1>13. CASE UNCHANGED identityVars
  BY <1>13 DEF identityVars
<1> HIDE DEF IdentityInv
<1> QED
  BY <1>1, <1>2, <1>3, <1>4, <1>5, <1>6, <1>7, <1>8, <1>9, <1>10, <1>11, <1>12,
     <1>13 DEF IdentityNext

-----------------------------------------------------------------------------
(* Whatever was killed before, the loops run only with id and token on disk *)
(* (run:main.go, registerAgent:agent_lifecycle.go).                         *)
THEOREM IdentityStored == IdentitySpec => []RunningIdentityIsStored
<1>1. IdentityInv => RunningIdentityIsStored
  BY DEF IdentityInv, FilesFollow, RunningIdentityIsStored
<1> QED
  BY <1>1, InitiallyCarried, IdentityStep, PTL DEF IdentitySpec

(* An agent that ran under a UUID never runs under another one, unless the  *)
(* server renamed it, a kill fell between truncation and write, or the host *)
(* configures the one it runs under (resolveAgentIDForConfig:config.go).    *)
THEOREM IdentityKept == IdentitySpec => AgentKeepsItsID
<1>1. IdentityInv /\ [IdentityNext]_identityVars =>
        [phase' = "running" /\ phase # "running" /\ IsUUID(lastID) /\ cfg.id # lastID
           => excused \/ (IsUUID(setting.id) /\ cfg.id = setting.id)]_identityVars
  <2> SUFFICES ASSUME IdentityInv, [IdentityNext]_identityVars,
                      phase' = "running", phase # "running", IsUUID(lastID), cfg.id # lastID,
                      ~excused
               PROVE  IsUUID(setting.id) /\ cfg.id = setting.id
    OBVIOUS
  <2>1. phase = "storeTokenWrite"
    BY DEF IdentityNext, LoadConfig, PrepareTruncate, PrepareWrite, CheckStatus, Register,
           RegisterFails, StoreIDTruncate, StoreIDWrite, NoTokenReturned,
           StoreTokenTruncate, StoreTokenWrite, Ends, identityVars
  <2> QED
    BY <2>1 DEF IdentityInv, GivenIsTaken, IDIsCarried
<1> QED
  BY <1>1, InitiallyCarried, IdentityStep, PTL DEF IdentitySpec, AgentKeepsItsID
=============================================================================
