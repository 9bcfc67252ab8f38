----------------------------- MODULE ProbeProofs -----------------------------
(***************************************************************************)
(* Proofs about what the agent measures with: the dnstap listener, for any *)
(* callers of Accept and Close; the long probe and its progress emitter,   *)
(* for any number of samples; the dnstap collector, for any stream of      *)
(* frames; and the mtr probe, for any raw output.                          *)
(***************************************************************************)
EXTENDS DnstapListener, DnstapCollector, ProbeProgress, MTRAggregate, ListLemmas,
        FiniteSetTheorems, WellFoundedInduction, TLAPS

-----------------------------------------------------------------------------
ListenerTypeOK ==
    /\ flags \in [accepting : BOOLEAN, accepted : BOOLEAN, closed : BOOLEAN]
    /\ socket \in {"open", "closed"} /\ closeErr \in BOOLEAN
    /\ files \subseteq {"socket", "other", "stray", "dir"}
    /\ peers \in Nat /\ handed \in Nat
    /\ acceptor \in [Acceptors -> {"idle", "waiting", "holding", "leaving"}]
    /\ closer \in [Closers -> {"idle", "marked", "closed", "returned"}]

(* One call of Accept is past its first lock at a time, and none waits or   *)
(* holds a connection once one has been handed out.                         *)
OneAccepts ==
    /\ \A a, b \in Acceptors : acceptor[a] # "idle" /\ acceptor[b] # "idle" => a = b
    /\ \A a \in Acceptors : acceptor[a] # "idle" => flags.accepting
    /\ handed <= 1 /\ (flags.accepted <=> handed = 1)
    /\ flags.accepted => \A a \in Acceptors : acceptor[a] \notin {"waiting", "holding"}

(* Close passes its steps in order, one caller at a time.                   *)
OneCloses ==
    /\ \A c, d \in Closers : closer[c] \in {"marked", "closed"} /\ closer[d] # "idle" => c = d
    /\ \A c \in Closers : closer[c] # "idle" => flags.closed
    /\ \A c \in Closers : closer[c] \in {"closed", "returned"} => socket = "closed" /\ peers = 0
    /\ \A c \in Closers : closer[c] = "returned" => files = {} \/ closeErr

ListenerInv == ListenerTypeOK /\ OneAccepts /\ OneCloses

-----------------------------------------------------------------------------
LEMMA ListenerStarts == ListenerInit => ListenerInv
<1> SUFFICES ASSUME ListenerInit
             PROVE  ListenerInv
  OBVIOUS
<1>1. files \subseteq {"socket", "other", "stray", "dir"}
  BY DEF ListenerInit
<1>2. ListenerTypeOK
  <2>1. flags \in [accepting : BOOLEAN, accepted : BOOLEAN, closed : BOOLEAN]
    BY DEF ListenerInit
  <2>2. /\ acceptor \in [Acceptors -> {"idle", "waiting", "holding", "leaving"}]
        /\ closer \in [Closers -> {"idle", "marked", "closed", "returned"}]
    BY DEF ListenerInit
  <2>3. socket \in {"open", "closed"} /\ closeErr \in BOOLEAN /\ peers \in Nat /\ handed \in Nat
    BY DEF ListenerInit
  <2> QED
    BY <1>1, <2>1, <2>2, <2>3 DEF ListenerTypeOK
<1>3. OneAccepts /\ OneCloses
  BY DEF ListenerInit, OneAccepts, OneCloses
<1> QED
  BY <1>2, <1>3 DEF ListenerInv

LEMMA ListenerStep == ListenerInv /\ [ListenerNext]_lstVars => ListenerInv'
<1> SUFFICES ASSUME ListenerInv, [ListenerNext]_lstVars
             PROVE  ListenerInv'
  OBVIOUS
<1> USE DEF ListenerInv, ListenerTypeOK, OneAccepts, OneCloses
<1>1. CASE Connect
  BY <1>1 DEF Connect
<1>11. CASE Meddle
  BY <1>11 DEF Meddle
<1>2. ASSUME NEW a \in Acceptors, Enter(a)
      PROVE  ListenerInv'
  BY <1>2 DEF Enter
<1>3. ASSUME NEW a \in Acceptors, Wake(a)
      PROVE  ListenerInv'
  BY <1>3 DEF Wake
<1>4. ASSUME NEW a \in Acceptors, Publish(a)
      PROVE  ListenerInv'
  <2>1. handed = 0 /\ ~flags.accepted
    BY <1>4 DEF Publish
  <2>2. ListenerTypeOK'
    <3>1. flags' \in [accepting : BOOLEAN, accepted : BOOLEAN, closed : BOOLEAN]
      BY <1>4 DEF Publish
    <3>2. acceptor' \in [Acceptors -> {"idle", "waiting", "holding", "leaving"}]
      BY <1>4 DEF Publish
    <3> QED
      BY <1>4, <3>1, <3>2 DEF Publish
  <2>3. \A b \in Acceptors : acceptor'[b] # "idle" => b = a
    BY <1>4 DEF Publish
  <2>4. handed' = 1 /\ flags'.accepted /\ flags'.accepting /\ flags'.closed = flags.closed
    BY <1>4, <2>1 DEF Publish
  <2>5. acceptor'[a] = "leaving"
    BY <1>4 DEF Publish
  <2>6. OneAccepts'
    BY <2>3, <2>4, <2>5
  <2>7. OneCloses'
    BY <1>4, <2>4 DEF Publish
  <2> QED
    BY <2>2, <2>6, <2>7
<1>5. ASSUME NEW a \in Acceptors, Leave(a)
      PROVE  ListenerInv'
  BY <1>5 DEF Leave
<1>6. ASSUME NEW c \in Closers, Mark(c)
      PROVE  ListenerInv'
  BY <1>6 DEF Mark
<1>7. ASSUME NEW c \in Closers, CloseSocket(c)
      PROVE  ListenerInv'
  BY <1>7 DEF CloseSocket
<1>8. ASSUME NEW c \in Closers, Cleanup(c)
      PROVE  ListenerInv'
  BY <1>8 DEF Cleanup, CleanupEnds
<1>9. ASSUME NEW c \in Closers, CloseAgain(c)
      PROVE  ListenerInv'
  BY <1>9 DEF CloseAgain
<1>10. CASE UNCHANGED lstVars
  BY <1>10 DEF lstVars
<1> HIDE DEF ListenerInv
<1> QED
  BY <1>1, <1>2, <1>3, <1>4, <1>5, <1>6, <1>7, <1>8, <1>9, <1>10, <1>11 DEF ListenerNext

(* The callers that wait or hold are none or one.                           *)
LEMMA AtMostOneHolds ==
    ASSUME ListenerInv
    PROVE  Cardinality({a \in Acceptors : acceptor[a] \in {"waiting", "holding"}}) + handed <= 1
<1> DEFINE Holders == {a \in Acceptors : acceptor[a] \in {"waiting", "holding"}}
<1>1. CASE Holders = {}
  <2>1. Cardinality(Holders) = 0
    BY <1>1, FS_EmptySet
  <2> QED
    BY <2>1 DEF ListenerInv, ListenerTypeOK, OneAccepts
<1>2. CASE Holders # {}
  <2>1. PICK a \in Acceptors : acceptor[a] \in {"waiting", "holding"}
    BY <1>2
  <2>2. Holders = {a}
    BY <2>1 DEF ListenerInv, OneAccepts
  <2>3. Cardinality(Holders) = 1
    BY <2>2, FS_Singleton
  <2>4. handed = 0
    BY <2>1 DEF ListenerInv, ListenerTypeOK, OneAccepts
  <2> QED
    BY <2>3, <2>4
<1> QED
  BY <1>1, <1>2

-----------------------------------------------------------------------------
(* However many goroutines call Accept and Close, one connection is handed  *)
(* out, and a Close that returned no error left nothing (listener.go:47-119). *)
THEOREM OneIsServed == ListenerSpec => []OneConnectionIsServed
<1>1. ListenerInv => OneConnectionIsServed
  <2> SUFFICES ASSUME ListenerInv
               PROVE  OneConnectionIsServed
    OBVIOUS
  <2>1. handed <= 1
    BY DEF ListenerInv, OneAccepts
  <2>2. (\E c \in Closers : closer[c] = "returned") =>
          peers = 0 /\ flags.closed /\ (files = {} \/ closeErr)
    BY DEF ListenerInv, OneCloses
  <2> QED
    BY <2>1, <2>2, AtMostOneHolds DEF OneConnectionIsServed
<1> QED
  BY <1>1, ListenerStarts, ListenerStep, PTL DEF ListenerSpec

-----------------------------------------------------------------------------
Newest(s) == s[Len(s)]
Ascending(s) == \A i, j \in DOMAIN s : i < j => s[i] < s[j]
Emitting == probePc \in {"send", "drop", "resend"}

ProbeTypeOK ==
    /\ probePc \in {"probe", "send", "drop", "resend", "wait", "close", "cancel", "join", "ended"}
    /\ samples \in Seq(BOOLEAN)
    /\ updates \in Seq(Nat) /\ gathered \in Seq(Nat) /\ posted \in Seq(Nat)
    /\ reporter \in {"idle", "posting", "done"}

(* What is queued is newer than what was taken, and while an Emit is under  *)
(* way older than the sample it is about.                                   *)
QueueIsNewest ==
    /\ updates # <<>> =>
          /\ Len(updates) = 1 /\ updates[1] <= Len(samples)
          /\ Emitting => updates[1] < Len(samples)
          /\ gathered # <<>> => Newest(gathered) < updates[1]
    /\ gathered # <<>> =>
          /\ Newest(gathered) <= Len(samples)
          /\ Emitting => Newest(gathered) < Len(samples)
    /\ Emitting => samples # <<>>
    /\ probePc = "resend" => updates = <<>>

(* Between two Emits the last sample is in the queue or was taken.          *)
LatestIsKept ==
    samples # <<>> /\ ~Emitting =>
        \/ updates # <<>> /\ updates[1] = Len(samples)
        \/ gathered # <<>> /\ Newest(gathered) = Len(samples)

PostsFollow ==
    /\ Ascending(gathered) /\ Ascending(posted)
    /\ reporter = "posting" => gathered # <<>>
    /\ posted # <<>> => /\ gathered # <<>> /\ Newest(posted) <= Newest(gathered)
                        /\ reporter = "posting" => Newest(posted) < Newest(gathered)

ProbeInv == ProbeTypeOK /\ QueueIsNewest /\ LatestIsKept /\ PostsFollow

-----------------------------------------------------------------------------
LEMMA AppendAscends ==
    ASSUME NEW s \in Seq(Nat), NEW n \in Nat, Ascending(s), s # <<>> => Newest(s) < n
    PROVE  /\ Append(s, n) \in Seq(Nat) /\ Append(s, n) # <<>>
           /\ Newest(Append(s, n)) = n /\ Ascending(Append(s, n))
<1>1. /\ Append(s, n) \in Seq(Nat) /\ Len(Append(s, n)) = Len(s) + 1
      /\ Append(s, n)[Len(s) + 1] = n /\ \A i \in 1 .. Len(s) : Append(s, n)[i] = s[i]
  OBVIOUS
<1>2. Append(s, n) # <<>> /\ Newest(Append(s, n)) = n
  BY <1>1 DEF Newest
<1>3. ASSUME NEW i \in 1 .. Len(s) + 1, NEW j \in 1 .. Len(s) + 1, i < j
      PROVE  Append(s, n)[i] < Append(s, n)[j]
  <2>1. CASE j \in 1 .. Len(s)
    BY <1>1, <1>3, <2>1 DEF Ascending
  <2>2. CASE j = Len(s) + 1
    <3>1. i \in 1 .. Len(s) /\ s # <<>>
      BY <1>3, <2>2
    <3>2. s[i] <= s[Len(s)]
      <4>1. CASE i = Len(s)
        BY <4>1, <3>1
      <4>2. CASE i # Len(s)
        BY <4>2, <3>1 DEF Ascending
      <4> QED
        BY <4>1, <4>2
    <3> QED
      BY <1>1, <2>2, <3>1, <3>2 DEF Newest
  <2> QED
    BY <1>3, <2>1, <2>2
<1> QED
  BY <1>1, <1>2, <1>3 DEF Ascending

LEMMA ProbeStarts == ProbeInit => ProbeInv
BY DEF ProbeInit, ProbeInv, ProbeTypeOK, QueueIsNewest, LatestIsKept, PostsFollow, Emitting,
       Ascending

(* The reporter takes the queued update: it is newer than all before it.    *)
LEMMA ReceiveKeeps == ProbeInv /\ Receive => ProbeInv'
<1> SUFFICES ASSUME ProbeInv, Receive
             PROVE  ProbeInv'
  OBVIOUS
<1> DEFINE n == updates[1]
<1>1. /\ updates # <<>> /\ n \in Nat /\ gathered' = Append(gathered, n)
      /\ updates' = <<>> /\ reporter' = "posting" /\ reporter = "idle"
      /\ UNCHANGED <<probePc, samples, posted>>
  BY DEF Receive, ProbeInv, ProbeTypeOK, QueueIsNewest
<1>2. gathered \in Seq(Nat) /\ Ascending(gathered) /\ (gathered # <<>> => Newest(gathered) < n)
  BY <1>1 DEF ProbeInv, ProbeTypeOK, QueueIsNewest, PostsFollow
<1>3. /\ gathered' \in Seq(Nat) /\ gathered' # <<>>
      /\ Newest(gathered') = n /\ Ascending(gathered')
  BY <1>1, <1>2, AppendAscends
<1>4. ProbeTypeOK'
  BY <1>1, <1>3 DEF ProbeInv, ProbeTypeOK
<1>5. QueueIsNewest'
  BY <1>1, <1>3 DEF ProbeInv, QueueIsNewest, Emitting
<1>6. LatestIsKept'
  <2>1. samples # <<>> /\ ~Emitting => n = Len(samples)
    BY <1>1 DEF ProbeInv, ProbeTypeOK, QueueIsNewest, LatestIsKept
  <2> QED
    BY <1>1, <1>3, <2>1 DEF LatestIsKept, Emitting
<1>7. PostsFollow'
  <2>1. posted # <<>> => Newest(posted) \in Nat
    BY DEF ProbeInv, ProbeTypeOK, Newest
  <2>2. gathered # <<>> => Newest(gathered) \in Nat
    BY DEF ProbeInv, ProbeTypeOK, Newest
  <2>3. posted # <<>> => Newest(posted) < n
    BY <1>1, <1>2, <2>1, <2>2 DEF ProbeInv, PostsFollow
  <2>4. Newest(posted') = Newest(posted)
    BY <1>1
  <2> QED
    BY <1>1, <1>3, <2>1, <2>3, <2>4 DEF ProbeInv, PostsFollow
<1> QED
  BY <1>4, <1>5, <1>6, <1>7 DEF ProbeInv

LEMMA PostKeeps == ASSUME ProbeInv, NEW ok \in BOOLEAN, Post(ok) PROVE ProbeInv'
<1> DEFINE n == Newest(gathered)
<1>1. /\ reporter = "posting" /\ reporter' = "idle" /\ gathered # <<>>
      /\ UNCHANGED <<probePc, samples, updates, gathered>>
  BY DEF Post, ProbeInv, PostsFollow
<1>2. n \in Nat
  BY <1>1 DEF ProbeInv, ProbeTypeOK, Newest
<1>3. QueueIsNewest' /\ LatestIsKept'
  BY <1>1 DEF ProbeInv, QueueIsNewest, LatestIsKept, Emitting, Newest
<1>4. CASE posted' = posted
  BY <1>1, <1>3, <1>4 DEF ProbeInv, ProbeTypeOK, PostsFollow, Ascending, Newest
<1>5. CASE posted' = Append(posted, n)
  <2>1. posted \in Seq(Nat) /\ Ascending(posted) /\ (posted # <<>> => Newest(posted) < n)
    BY <1>1 DEF ProbeInv, ProbeTypeOK, PostsFollow
  <2>2. posted' \in Seq(Nat) /\ posted' # <<>> /\ Newest(posted') = n /\ Ascending(posted')
    BY <1>2, <1>5, <2>1, AppendAscends
  <2>3. ProbeTypeOK'
    BY <1>1, <2>2 DEF ProbeInv, ProbeTypeOK
  <2>4. PostsFollow'
    <3>1. Newest(gathered') = n /\ Ascending(gathered')
      BY <1>1 DEF ProbeInv, PostsFollow
    <3> QED
      BY <1>1, <1>2, <2>2, <3>1 DEF PostsFollow
  <2> QED
    BY <1>3, <2>3, <2>4 DEF ProbeInv
<1> QED
  BY <1>4, <1>5 DEF Post, Newest

-----------------------------------------------------------------------------
LEMMA ProbeStep == ProbeInv /\ [ProbeNext]_probeVars => ProbeInv'
<1> SUFFICES ASSUME ProbeInv, [ProbeNext]_probeVars
             PROVE  ProbeInv'
  OBVIOUS
<1> USE DEF ProbeInv, ProbeTypeOK, QueueIsNewest, LatestIsKept, PostsFollow, Emitting, Newest,
            Ascending
<1>1. CASE CancelProbe
  BY <1>1 DEF CancelProbe
<1>2. CASE TrySend
  <2>1. probePc' \in {"drop", "close", "wait"} /\ UNCHANGED <<samples, gathered, posted, reporter>>
    BY <1>2 DEF TrySend, AfterEmit
  <2>2. samples # <<>> /\ Len(samples) \in Nat
    BY <1>2 DEF TrySend
  <2>3. CASE updates = <<>>
    <3>1. updates' = <<Len(samples)>> /\ probePc' \in {"close", "wait"}
      BY <1>2, <2>3 DEF TrySend, AfterEmit
    <3>2. updates' # <<>> /\ Len(updates') = 1 /\ updates'[1] = Len(samples) /\ updates' \in Seq(Nat)
      BY <2>2, <3>1
    <3>3. gathered # <<>> => Newest(gathered) < Len(samples)
      BY <1>2 DEF TrySend
    <3>4. QueueIsNewest' /\ LatestIsKept'
      BY <2>1, <2>2, <3>1, <3>2, <3>3
    <3> QED
      BY <2>1, <3>1, <3>2, <3>4
  <2>4. CASE updates # <<>>
    BY <1>2, <2>1, <2>4 DEF TrySend
  <2> QED
    BY <2>3, <2>4
<1>3. CASE DropQueued
  BY <1>3 DEF DropQueued
<1>4. CASE Resend
  <2>1. probePc' \in {"drop", "close", "wait"} /\ UNCHANGED <<samples, gathered, posted, reporter>>
    BY <1>4 DEF Resend, AfterEmit
  <2>2. samples # <<>> /\ Len(samples) \in Nat
    BY <1>4 DEF Resend
  <2>3. CASE updates = <<>>
    <3>1. updates' = <<Len(samples)>> /\ probePc' \in {"close", "wait"}
      BY <1>4, <2>3 DEF Resend, AfterEmit
    <3>2. updates' # <<>> /\ Len(updates') = 1 /\ updates'[1] = Len(samples) /\ updates' \in Seq(Nat)
      BY <2>2, <3>1
    <3>3. gathered # <<>> => Newest(gathered) < Len(samples)
      BY <1>4 DEF Resend
    <3>4. QueueIsNewest' /\ LatestIsKept'
      BY <2>1, <2>2, <3>1, <3>2, <3>3
    <3> QED
      BY <2>1, <3>1, <3>2, <3>4
  <2>4. CASE updates # <<>>
    BY <1>4, <2>1, <2>4 DEF Resend
  <2> QED
    BY <2>3, <2>4
<1>5. CASE IntervalPasses
  BY <1>5 DEF IntervalPasses
<1>6. CASE StopEarly
  BY <1>6 DEF StopEarly
<1>7. CASE CloseUpdates
  BY <1>7 DEF CloseUpdates
<1>8. CASE CancelReporter
  BY <1>8 DEF CancelReporter
<1>9. CASE JoinReporter
  BY <1>9 DEF JoinReporter
<1>10. CASE ReporterEnds
  BY <1>10 DEF ReporterEnds
<1>11. ASSUME NEW ok \in BOOLEAN, Sample(ok)
       PROVE  ProbeInv'
  BY <1>11 DEF Sample
<1>12. CASE UNCHANGED probeVars
  BY <1>12 DEF probeVars
<1> HIDE DEF ProbeInv
<1> QED
  BY <1>1, <1>2, <1>3, <1>4, <1>5, <1>6, <1>7, <1>8, <1>9, <1>10, <1>11, <1>12,
     ReceiveKeeps, PostKeeps
     DEF ProbeNext

-----------------------------------------------------------------------------
(* Whatever way Emit and the reporter interleave, progress never goes back  *)
(* and the last sample is in the queue or with the reporter (Emit:188-213). *)
THEOREM LatestIsTaken == ProbeSpec => []LatestUpdateIsTaken
<1>1. ProbeInv => LatestUpdateIsTaken
  BY DEF ProbeInv, LatestIsKept, PostsFollow, Ascending, Newest, Emitting, LatestUpdateIsTaken
<1> QED
  BY <1>1, ProbeStarts, ProbeStep, PTL DEF ProbeSpec

-----------------------------------------------------------------------------
-----------------------------------------------------------------------------
(* TotalBytes adds up.                                                      *)
Totals(evs) ==
    CHOOSE f : f = [n \in 0 .. Len(evs) |-> IF n = 0 THEN 0 ELSE f[n - 1] + evs[n].size]

LEMMA TotalsAre ==
    ASSUME NEW evs \in Seq(Frames), \A f \in Frames : f.size \in Nat
    PROVE  /\ TotalBytes(evs) = Totals(evs)[Len(evs)]
           /\ Totals(evs) \in [0 .. Len(evs) -> Nat] /\ Totals(evs)[0] = 0
           /\ \A n \in 1 .. Len(evs) : Totals(evs)[n] = Totals(evs)[n - 1] + evs[n].size
<1> DEFINE G == [n \in 1 .. Len(evs) |-> [v \in Nat |-> v + evs[n].size]]
           Summing(f) ==
               f = [n \in 0 .. Len(evs) |-> IF n = 0 THEN 0 ELSE f[n - 1] + evs[n].size]
<1>1. \A n \in 1 .. Len(evs) : evs[n].size \in Nat
  OBVIOUS
<1>2. Len(evs) \in Nat /\ G \in [1 .. Len(evs) -> [Nat -> Nat]]
  BY <1>1
<1>3. PICK f : Unfolds(f, Len(evs), Nat, 0, G)
  <2> HIDE DEF G
  <2> QED
    BY <1>2, RecursionExists
<1>4. Summing(f)
  <2>1. /\ f \in [0 .. Len(evs) -> Nat] /\ f[0] = 0
        /\ \A n \in 1 .. Len(evs) : f[n] = G[n][f[n - 1]]
    BY <1>3 DEF Unfolds
  <2>2. ASSUME NEW n \in 1 .. Len(evs)
        PROVE  f[n] = f[n - 1] + evs[n].size
    <3>1. n - 1 \in 0 .. Len(evs)
      BY <1>2
    <3>2. f[n - 1] \in Nat /\ f[n] = G[n][f[n - 1]]
      <4> HIDE DEF G
      <4> QED
        BY <2>1, <3>1
    <3> QED
      BY <3>2
  <2>3. \A n \in 0 .. Len(evs) : f[n] = IF n = 0 THEN 0 ELSE f[n - 1] + evs[n].size
    <3>1. \A n \in 0 .. Len(evs) : n = 0 \/ n \in 1 .. Len(evs)
      BY <1>2
    <3> HIDE DEF G
    <3> QED
      BY <2>1, <2>2, <3>1
  <2>4. f = [n \in 0 .. Len(evs) |-> f[n]]
    BY <2>1
  <2> HIDE DEF G
  <2> QED
    BY <2>3, <2>4
<1>5. Summing(Totals(evs))
  BY <1>4 DEF Totals
<1> HIDE DEF G
<1>6. \A n \in 0 .. Len(evs) : Totals(evs)[n] = IF n = 0 THEN 0 ELSE Totals(evs)[n - 1] + evs[n].size
  BY <1>5
<1> DEFINE P == {n \in 0 .. Len(evs) : Totals(evs)[n] \in Nat}
<1>7. \A n \in 0 .. Len(evs) : n \in P
  <2>1. 0 \in P
    BY <1>6
  <2>2. ASSUME NEW n \in 1 .. Len(evs), n - 1 \in P
        PROVE  n \in P
    <3>1. Totals(evs)[n] = Totals(evs)[n - 1] + evs[n].size
      BY <1>6
    <3> QED
      BY <1>1, <2>2, <3>1
  <2> HIDE DEF P
  <2> QED
    BY <1>2, <2>1, <2>2, UpTo
<1>8. Totals(evs) \in [0 .. Len(evs) -> Nat]
  BY <1>5, <1>7
<1>9. TotalBytes(evs) = Totals(evs)[Len(evs)]
  BY DEF TotalBytes, Totals
<1> QED
  BY <1>6, <1>8, <1>9

LEMMA TotalOfAppend ==
    ASSUME NEW evs \in Seq(Frames), NEW f \in Frames, \A g \in Frames : g.size \in Nat
    PROVE  /\ TotalBytes(evs) \in Nat
           /\ TotalBytes(Append(evs, f)) = TotalBytes(evs) + f.size
<1> DEFINE more == Append(evs, f)
           N == Len(evs)
           s == Totals(evs)
           t == Totals(more)
           P == {n \in 0 .. N : s[n] = t[n]}
<1>1. more \in Seq(Frames) /\ Len(more) = N + 1 /\ more[N + 1] = f /\ N \in Nat
      /\ \A n \in 1 .. N : more[n] = evs[n]
  OBVIOUS
<1>2. /\ TotalBytes(evs) = s[N] /\ s \in [0 .. N -> Nat] /\ s[0] = 0
      /\ \A n \in 1 .. N : s[n] = s[n - 1] + evs[n].size
  BY TotalsAre
<1>3. /\ TotalBytes(more) = t[N + 1] /\ t \in [0 .. N + 1 -> Nat] /\ t[0] = 0
      /\ \A n \in 1 .. N + 1 : t[n] = t[n - 1] + more[n].size
  <2> HIDE DEF more, s, N
  <2> QED
    BY <1>1, TotalsAre
<1> HIDE DEF more, s, t, N
<1>4. 0 \in P
  BY <1>1, <1>2, <1>3
<1>5. ASSUME NEW n \in 1 .. N, n - 1 \in P
      PROVE  n \in P
  <2>1. n \in 1 .. N + 1
    BY <1>1
  <2>2. s[n] = s[n - 1] + evs[n].size
    BY <1>2
  <2>3. t[n] = t[n - 1] + more[n].size
    BY <1>3, <2>1
  <2>4. more[n] = evs[n]
    BY <1>1
  <2> QED
    BY <1>5, <2>2, <2>3, <2>4
<1>6. N \in P
  <2>1. \A n \in 0 .. N : n \in P
    <3> HIDE DEF P
    <3> QED
      BY <1>1, <1>4, <1>5, UpTo
  <2> QED
    BY <1>1, <2>1
<1>7. t[N + 1] = t[N] + f.size
  BY <1>1, <1>3
<1>8. s[N] = t[N] /\ s[N] \in Nat
  BY <1>1, <1>2, <1>6
<1> QED
  BY <1>2, <1>3, <1>7, <1>8 DEF more

-----------------------------------------------------------------------------
(* What pairEvents has made of the responses among the first n events: an   *)
(* exchange each, the queries of the matched ones distinct and compatible,  *)
(* and, if all are matched, the one assignment there can be.                *)
Answering(evs, x, n) ==
    /\ \A e \in x : e.response \in 1 .. n /\ evs[e.response].kind = "response"
    /\ \A i \in 1 .. n : evs[i].kind = "response" => \E e \in x : e.response = i
    /\ \A e, d \in x : e.response = d.response => e = d
    /\ \A e \in x : IF e.status = "matched"
                     THEN e.query \in OfKind(evs, "query") /\ Compatible(evs[e.query], evs[e.response])
                     ELSE e.query = 0 /\ e.status \in {"orphan_response", "ambiguous"}
    /\ \A e, d \in Matched(x) : e.query = d.query => e = d
    /\ Matched(x) = x =>
          \A a \in Assignments(evs) : \A e \in x : a[e.response] = e.query

(* A response gets the one candidate left, or none.                         *)
LEMMA AnswerIs ==
    ASSUME NEW evs \in Seq(Frames), NEW x, NEW n
    PROVE  LET c == Candidates(evs, {e.query : e \in Matched(x)}, n)
               y == Answer(evs, x, n)
           IN  \/ c = {} /\ y = Paired("orphan_response", 0, n)
               \/ \E i \in c : c = {i} /\ y = Paired("matched", i, n)
               \/ y = Paired("ambiguous", 0, n)
<1> DEFINE c == Candidates(evs, {e.query : e \in Matched(x)}, n)
           y == Answer(evs, x, n)
<1>1. IsFiniteSet(c)
  <2>1. c \subseteq 1 .. Len(evs)
    BY DEF Candidates, OfKind
  <2>2. IsFiniteSet(1 .. Len(evs))
    BY FS_Interval
  <2> QED
    BY <2>1, <2>2, FS_Subset
<1>2. y = IF c = {} THEN Paired("orphan_response", 0, n)
          ELSE IF Cardinality(c) = 1 THEN Paired("matched", CHOOSE i \in c : TRUE, n)
          ELSE Paired("ambiguous", 0, n)
  BY DEF Answer
<1> HIDE DEF c, y
<1>3. CASE Cardinality(c) = 1 /\ c # {}
  <2>1. PICK i : c = {i}
    BY <1>1, <1>3, FS_Singleton
  <2>2. (CHOOSE j \in c : TRUE) = i
    BY <2>1
  <2> QED
    BY <1>2, <1>3, <2>1, <2>2 DEF c, y
<1>4. CASE ~(Cardinality(c) = 1 /\ c # {})
  BY <1>2, <1>4 DEF c, y
<1> QED
  BY <1>3, <1>4

LEMMA AnswerKeeps ==
    ASSUME NEW evs \in Seq(Frames), NEW n \in 1 .. Len(evs), NEW x, Answering(evs, x, n - 1),
           evs[n].kind = "response"
    PROVE  Answering(evs, x \cup {Answer(evs, x, n)}, n)
<1> DEFINE c == Candidates(evs, {e.query : e \in Matched(x)}, n)
           y == Answer(evs, x, n)
           z == x \cup {y}
<1>1. \/ c = {} /\ y = Paired("orphan_response", 0, n)
      \/ \E i \in c : c = {i} /\ y = Paired("matched", i, n)
      \/ y = Paired("ambiguous", 0, n)
  BY AnswerIs
<1>2. \A i \in c : /\ i \in OfKind(evs, "query") /\ Compatible(evs[i], evs[n])
                    /\ \A e \in Matched(x) : e.query # i
  BY DEF Candidates
<1>3. \A i \in OfKind(evs, "query") :
         Compatible(evs[i], evs[n]) /\ (\A e \in Matched(x) : e.query # i) => i \in c
  BY DEF Candidates
<1> HIDE DEF c, y
<1>4. y.response = n
  BY <1>1 DEF Paired
<1>5. IF y.status = "matched"
      THEN c = {y.query}
      ELSE y.query = 0 /\ y.status \in {"orphan_response", "ambiguous"}
  BY <1>1 DEF Paired
<1>6. \A e \in z : e.response \in 1 .. n /\ evs[e.response].kind = "response"
  BY <1>4 DEF Answering
<1>7. ASSUME NEW i \in 1 .. n, evs[i].kind = "response"
      PROVE  \E e \in z : e.response = i
  <2>1. CASE i = n
    BY <1>4, <2>1
  <2>2. CASE i # n
    BY <1>7, <2>2 DEF Answering
  <2> QED
    BY <2>1, <2>2
<1>8. \A e \in x : e.response # n
  BY DEF Answering
<1>9. \A e, d \in z : e.response = d.response => e = d
  BY <1>4, <1>8 DEF Answering
<1>10. \A e \in z : IF e.status = "matched"
                     THEN e.query \in OfKind(evs, "query") /\ Compatible(evs[e.query], evs[e.response])
                     ELSE e.query = 0 /\ e.status \in {"orphan_response", "ambiguous"}
  BY <1>4, <1>2, <1>5 DEF Answering
<1>11. \A e, d \in Matched(z) : e.query = d.query => e = d
  BY <1>2, <1>5 DEF Answering, Matched
<1>12. ASSUME Matched(z) = z, NEW a \in Assignments(evs), NEW e \in z
       PROVE  a[e.response] = e.query
  <2>1. Matched(x) = x
    BY <1>12 DEF Matched
  <2>2. \A d \in x : a[d.response] = d.query
    BY <2>1 DEF Answering
  <2>3. n \in OfKind(evs, "response") /\ a[n] \in OfKind(evs, "query")
        /\ Compatible(evs[a[n]], evs[n])
        /\ \A s \in OfKind(evs, "response") : s # n => a[s] # a[n]
    BY DEF Assignments, OfKind
  <2>4. \A d \in Matched(x) : d.query # a[n]
    <3> SUFFICES ASSUME NEW d \in x
                 PROVE  d.query # a[n]
      BY DEF Matched
    <3>1. d.response \in OfKind(evs, "response")
      BY DEF Answering, OfKind
    <3> QED
      BY <1>8, <2>2, <2>3, <3>1
  <2>5. a[n] \in c
    BY <1>3, <2>3, <2>4
  <2>6. y.status = "matched"
    BY <1>12 DEF Matched
  <2>7. a[n] = y.query
    BY <1>5, <2>5, <2>6
  <2> QED
    BY <1>4, <2>2, <2>7
<1> HIDE DEF z
<1>13. Answering(evs, z, n)
  BY <1>6, <1>7, <1>9, <1>10, <1>11, <1>12 DEF Answering
<1> QED
  BY <1>13 DEF z, y

(* Responses unfolds along the events.                                      *)
After(evs, n, x) == IF evs[n].kind # "response" THEN x ELSE x \cup {Answer(evs, x, n)}
Pairing(evs) ==
    CHOOSE f : f = [n \in 0 .. Len(evs) |-> IF n = 0 THEN {} ELSE After(evs, n, f[n - 1])]

LEMMA PairingIs ==
    ASSUME NEW evs \in Seq(Frames)
    PROVE  /\ Responses(evs) = Pairing(evs)[Len(evs)]
           /\ Pairing(evs)[0] = {}
           /\ \A n \in 1 .. Len(evs) : Pairing(evs)[n] = After(evs, n, Pairing(evs)[n - 1])
<1> DEFINE N == Len(evs)
           E == [status : {"orphan_response", "matched", "ambiguous"}, query : 0 .. N, response : 1 .. N]
           G == [n \in 1 .. N |-> [v \in SUBSET E |-> After(evs, n, v)]]
           Pairs(f) == f = [n \in 0 .. N |-> IF n = 0 THEN {} ELSE After(evs, n, f[n - 1])]
<1>1. N \in Nat
  OBVIOUS
<1>2. ASSUME NEW n \in 1 .. N, NEW v \in SUBSET E
      PROVE  After(evs, n, v) \in SUBSET E
  <2> DEFINE y == Answer(evs, v, n)
             c == Candidates(evs, {e.query : e \in Matched(v)}, n)
  <2>1. \/ y = Paired("orphan_response", 0, n)
        \/ \E i \in c : y = Paired("matched", i, n)
        \/ y = Paired("ambiguous", 0, n)
    BY AnswerIs
  <2>2. c \subseteq 1 .. N
    BY DEF Candidates, OfKind
  <2> HIDE DEF c, y
  <2>3. y \in E
    BY <1>1, <2>1, <2>2 DEF Paired
  <2> QED
    BY <2>3 DEF y, After
<1> HIDE DEF E
<1>3. G \in [1 .. N -> [SUBSET E -> SUBSET E]]
  BY <1>2
<1>4. PICK f : Unfolds(f, N, SUBSET E, {}, G)
  <2>1. {} \in SUBSET E
    OBVIOUS
  <2> HIDE DEF G, N
  <2> QED
    BY <1>1, <1>3, <2>1, RecursionExists
<1>5. Pairs(f)
  <2>1. /\ f \in [0 .. N -> SUBSET E] /\ f[0] = {}
        /\ \A n \in 1 .. N : f[n] = G[n][f[n - 1]]
    BY <1>4 DEF Unfolds
  <2>2. ASSUME NEW n \in 1 .. N
        PROVE  f[n] = After(evs, n, f[n - 1])
    <3>1. n - 1 \in 0 .. N
      BY <1>1
    <3>2. f[n - 1] \in SUBSET E /\ f[n] = G[n][f[n - 1]]
      <4> HIDE DEF G, N
      <4> QED
        BY <2>1, <3>1
    <3> QED
      BY <3>2
  <2> HIDE DEF G
  <2> QED
    BY <1>1, <2>1, <2>2
<1>6. Pairs(Pairing(evs))
  <2> HIDE DEF G
  <2> QED
    BY <1>5 DEF Pairing
<1>7. Responses(evs) = Pairing(evs)[Len(evs)]
  BY DEF Responses, Pairing, After
<1> HIDE DEF G
<1> QED
  BY <1>1, <1>6, <1>7

LEMMA ResponsesAnswer ==
    ASSUME NEW evs \in Seq(Frames)
    PROVE  Answering(evs, Responses(evs), Len(evs))
<1> DEFINE f == Pairing(evs)
           N == Len(evs)
           P == {n \in 0 .. N : Answering(evs, f[n], n)}
<1>1. /\ N \in Nat /\ Responses(evs) = f[N] /\ f[0] = {}
      /\ \A n \in 1 .. N : f[n] = After(evs, n, f[n - 1])
  BY PairingIs
<1> HIDE DEF f
<1>2. 0 \in P
  BY <1>1 DEF Answering, Matched
<1>3. ASSUME NEW n \in 1 .. N, n - 1 \in P
      PROVE  n \in P
  <2>1. Answering(evs, f[n - 1], n - 1)
    BY <1>3
  <2>2. CASE evs[n].kind = "response"
    <3>1. Answering(evs, f[n - 1] \cup {Answer(evs, f[n - 1], n)}, n)
      BY <2>1, <2>2, AnswerKeeps
    <3> QED
      BY <1>1, <2>2, <3>1 DEF After
  <2>3. CASE evs[n].kind # "response"
    <3>1. f[n] = f[n - 1]
      BY <1>1, <2>3 DEF After
    <3>2. Answering(evs, f[n - 1], n)
      <4> DEFINE x == f[n - 1]
      <4>1. Answering(evs, x, n - 1)
        BY <2>1
      <4> HIDE DEF x, P
      <4>2. Answering(evs, x, n)
        BY <1>1, <2>3, <4>1 DEF Answering
      <4> QED
        BY <4>2 DEF x
    <3> QED
      BY <3>1, <3>2
  <2> QED
    BY <2>2, <2>3
<1>4. \A n \in 0 .. N : n \in P
  <2> HIDE DEF P, N
  <2> QED
    BY <1>1, <1>2, <1>3, UpTo
<1> QED
  BY <1>1, <1>4

(* Every event is in one exchange, no matched response is older than its    *)
(* query, and an exact pairing is the only assignment of the responses.     *)
Forced(evs, x) ==
    /\ \A i \in OfKind(evs, "query") : Cardinality({e \in x : e.query = i}) = 1
    /\ \A i \in OfKind(evs, "response") : Cardinality({e \in x : e.response = i}) = 1
    /\ \A e \in Matched(x) : evs[e.query].asked <= evs[e.response].answered
    /\ Integrity(x) = "exact" =>
         Assignments(evs) =
            {[r \in OfKind(evs, "response") |->
                (CHOOSE e \in Matched(x) : e.response = r).query]}

LEMMA PairingIsForced ==
    ASSUME NEW evs \in Seq(Frames), \A i \in 1 .. Len(evs) : Decodable(evs[i])
    PROVE  Forced(evs, PairEvents(evs))
<1> DEFINE y == Responses(evs)
           open == OfKind(evs, "query") \ {e.query : e \in Matched(y)}
           rest == {Paired("no_response", i, 0) : i \in open}
           x == PairEvents(evs)
           R == OfKind(evs, "response")
           Q == OfKind(evs, "query")
<1>1. x = y \cup rest
  BY DEF PairEvents
<1>2. Answering(evs, y, Len(evs))
  BY ResponsesAnswer
<1>3. /\ \A e \in rest : e.status = "no_response" /\ e.response = 0 /\ e.query \in open
      /\ \A e, d \in rest : e.query = d.query => e = d
      /\ \A i \in open : \E e \in rest : e.query = i
  <2> HIDE DEF open
  <2>1. \A e \in rest : \E i \in open : e = Paired("no_response", i, 0)
    OBVIOUS
  <2>2. \A i \in open : Paired("no_response", i, 0) \in rest
    OBVIOUS
  <2> HIDE DEF rest
  <2>3. \A i : /\ Paired("no_response", i, 0).status = "no_response"
               /\ Paired("no_response", i, 0).query = i /\ Paired("no_response", i, 0).response = 0
    BY DEF Paired
  <2> QED
    BY <2>1, <2>2, <2>3
<1>4. open = Q \ {e.query : e \in Matched(y)} /\ Q \subseteq 1 .. Len(evs) /\ R \subseteq 1 .. Len(evs)
      /\ \A i \in 1 .. Len(evs) : i \in R <=> evs[i].kind = "response"
  BY DEF OfKind
<1> HIDE DEF y, open, rest, x, R, Q
<1>5. /\ \A e \in y : e.response \in R
      /\ \A i \in R : \E e \in y : e.response = i
      /\ \A e, d \in y : e.response = d.response => e = d
      /\ \A e \in y : IF e.status = "matched"
                       THEN e.query \in Q /\ Compatible(evs[e.query], evs[e.response])
                       ELSE e.query = 0 /\ e.status \in {"orphan_response", "ambiguous"}
      /\ \A e, d \in Matched(y) : e.query = d.query => e = d
      /\ Matched(y) = y =>
            \A a \in Assignments(evs) : \A e \in y : a[e.response] = e.query
  BY <1>2, <1>4 DEF Answering, Q
<1>6. Matched(x) = Matched(y)
  BY <1>1, <1>3 DEF Matched
<1>7. ASSUME NEW i \in Q
      PROVE  Cardinality({e \in x : e.query = i}) = 1
  <2>1. \E e : {d \in x : d.query = i} = {e}
    <3>1. i # 0
      BY <1>4
    <3>2. CASE i \in open
      <4>1. PICK e \in rest : e.query = i
        BY <1>3, <3>2
      <4>2. \A d \in y : d.query # i
        BY <1>4, <1>5, <3>1, <3>2 DEF Matched
      <4>3. {d \in x : d.query = i} = {e}
        BY <1>1, <1>3, <4>1, <4>2
      <4> QED
        BY <4>3
    <3>3. CASE i \notin open
      <4>1. PICK e \in Matched(y) : e.query = i
        BY <1>4, <3>3
      <4>2. \A d \in y : d.query = i => d \in Matched(y)
        BY <1>5, <3>1 DEF Matched
      <4>3. \A d \in rest : d.query # i
        BY <1>3, <3>3
      <4>4. {d \in x : d.query = i} = {e}
        BY <1>1, <1>5, <4>1, <4>2, <4>3 DEF Matched
      <4> QED
        BY <4>4
    <3> QED
      BY <3>2, <3>3
  <2> QED
    BY <2>1, FS_Singleton
<1>8. ASSUME NEW i \in R
      PROVE  Cardinality({e \in x : e.response = i}) = 1
  <2>1. PICK e \in y : e.response = i
    BY <1>5
  <2>2. i # 0
    BY <1>4
  <2>3. {d \in x : d.response = i} = {e}
    BY <1>1, <1>3, <1>5, <2>1, <2>2
  <2> QED
    BY <2>3, FS_Singleton
<1>9. ASSUME NEW e \in Matched(x)
      PROVE  evs[e.query].asked <= evs[e.response].answered
  <2>1. e \in y /\ e.status = "matched"
    BY <1>6 DEF Matched
  <2>2. e.response \in 1 .. Len(evs) /\ evs[e.response].kind = "response"
    BY <1>4, <1>5, <2>1
  <2>3. evs[e.query].asked = evs[e.response].asked
    BY <1>5, <2>1 DEF Compatible
  <2>4. evs[e.response].asked <= evs[e.response].answered
    BY <2>2 DEF Decodable
  <2> QED
    BY <2>3, <2>4
<1>10. ASSUME Integrity(x) = "exact"
       PROVE  Assignments(evs) = {[r \in R |-> (CHOOSE e \in Matched(x) : e.response = r).query]}
  <2> DEFINE b == [r \in R |-> (CHOOSE e \in Matched(x) : e.response = r).query]
  <2>1. \A e \in x : e.status \notin {"ambiguous", "orphan_response"}
    BY <1>10 DEF Integrity
  <2>2. Matched(x) = y /\ Matched(y) = y
    BY <1>1, <1>5, <1>6, <2>1 DEF Matched
  <2>3. ASSUME NEW r \in R
        PROVE  \E e \in y : e.response = r /\ e = (CHOOSE d \in Matched(x) : d.response = r)
    <3>1. \E e \in Matched(x) : e.response = r
      BY <1>5, <2>2
    <3> QED
      BY <2>2, <3>1
  <2>4. \A r \in R : \E e \in y : e.response = r /\ b[r] = e.query
    BY <2>3
  <2>5. b = [r \in R |-> b[r]]
    OBVIOUS
  <2> HIDE DEF b
  <2>6. /\ b \in [R -> Q] /\ \A r \in R : Compatible(evs[b[r]], evs[r])
        /\ \A r, s \in R : r # s => b[r] # b[s]
    <3>1. \A r \in R : b[r] \in Q /\ Compatible(evs[b[r]], evs[r])
      BY <1>5, <2>2, <2>4 DEF Matched
    <3>2. b \in [R -> Q]
      BY <2>5, <3>1
    <3>3. ASSUME NEW r \in R, NEW s \in R, b[r] = b[s]
          PROVE  r = s
      <4>1. PICK e \in y : e.response = r /\ b[r] = e.query
        BY <2>4
      <4>2. PICK d \in y : d.response = s /\ b[s] = d.query
        BY <2>4
      <4> QED
        BY <1>5, <2>2, <3>3, <4>1, <4>2
    <3> QED
      BY <3>1, <3>2, <3>3
  <2>7. b \in Assignments(evs)
    <3>1. DOMAIN b = R
      BY <2>5
    <3> QED
      BY <2>6, <3>1 DEF Assignments, R, Q
  <2>8. ASSUME NEW a \in Assignments(evs)
        PROVE  a = b
    <3>1. a = [r \in R |-> a[r]]
      BY DEF Assignments, R
    <3>2. \A r \in R : a[r] = b[r]
      BY <1>5, <2>2, <2>4
    <3> QED
      BY <2>5, <3>1, <3>2
  <2>9. Assignments(evs) = {b}
    BY <2>7, <2>8
  <2> QED
    BY <2>9 DEF b
<1> QED
  BY <1>7, <1>8, <1>9, <1>10 DEF Forced, x, R, Q

(* The number of open queries is a number.                                  *)
NoResponse(x) == {e \in x : e.status = "no_response"}

LEMMA OpenIsFinite ==
    ASSUME NEW evs \in Seq(Frames)
    PROVE  Cardinality(NoResponse(PairEvents(evs))) \in Nat
<1> DEFINE y == Responses(evs)
           open == OfKind(evs, "query") \ {e.query : e \in Matched(y)}
           f == [i \in open |-> Paired("no_response", i, 0)]
<1>1. IsFiniteSet(open)
  <2>1. open \subseteq 1 .. Len(evs)
    BY DEF OfKind
  <2>2. IsFiniteSet(1 .. Len(evs))
    BY FS_Interval
  <2> QED
    BY <2>1, <2>2, FS_Subset
<1>2. \A e \in y : e.status # "no_response"
  BY ResponsesAnswer DEF Answering
<1>3. PairEvents(evs) = y \cup {Paired("no_response", i, 0) : i \in open}
  BY DEF PairEvents
<1> HIDE DEF y, open
<1> DEFINE rest == {f[i] : i \in open}
<1>4. NoResponse(PairEvents(evs)) \subseteq rest
  BY <1>2, <1>3 DEF NoResponse
<1>5. IsFiniteSet(rest)
  <2>1. f \in Surjection(open, rest)
    <3>1. f \in [open -> rest]
      OBVIOUS
    <3>2. \A e \in rest : \E i \in open : f[i] = e
      OBVIOUS
    <3> HIDE DEF f, rest
    <3> QED
      BY <3>1, <3>2 DEF Surjection
  <2> HIDE DEF f, rest
  <2> QED
    BY <1>1, <2>1, FS_Surjection
<1> HIDE DEF rest
<1> QED
  BY <1>4, <1>5, FS_Subset, FS_CardinalityType

-----------------------------------------------------------------------------
TapTypeOK ==
    /\ stream \in Seq(Frames) /\ taken \in 0 .. Len(stream) /\ events \in Seq(Frames)
    /\ tapPhase \in {"handshake", "reading", "ended"}
    /\ tapCtx \in {"live", "timeout", "cancelled"} /\ finished \in BOOLEAN

(* Until the end the events are the frames taken, within the limits.        *)
EventsFollow ==
    /\ \A i \in 1 .. Len(events) : Decodable(events[i])
    /\ Len(events) <= MaxEvents /\ TotalBytes(events) <= MaxTotalFrameBytes
    /\ tapPhase # "ended" => Len(events) = taken /\ \A i \in 1 .. taken : events[i] = stream[i]
    /\ tapPhase = "handshake" => events = <<>>

(* The result pairs the events, or the loop was never entered.              *)
ResultFollows ==
    /\ tapPhase # "ended" => tapResult.status = ""
    /\ \/ /\ tapResult.exchanges = {} /\ tapResult.integrity = "exact"
          /\ tapResult.status # "complete"
          /\ tapPhase = "ended" => events = <<>>
       \/ /\ tapPhase = "ended" /\ tapResult.exchanges = PairEvents(events)
          /\ tapResult.integrity = Integrity(PairEvents(events))
    /\ tapResult.status = "complete" =>
          /\ finished /\ events = stream
          /\ Cardinality(NoResponse(tapResult.exchanges)) <= MaxOutstandingQuery

TapInv == TapTypeOK /\ EventsFollow /\ ResultFollows

LEMMA TapStarts == TapInit => TapInv
<1> SUFFICES ASSUME TapInit
             PROVE  TapInv
  OBVIOUS
<1>1. stream \in Seq(Frames)
  <2>1. PICK n \in 0 .. MaxStream : stream \in [1 .. n -> Frames]
    BY DEF TapInit
  <2>2. n \in Nat
    BY <2>1, LimitsAssumption
  <2> QED
    BY <2>1, <2>2
<1>2. TotalBytes(<<>>) = 0
  <2>1. <<>> \in Seq(Frames) /\ Len(<<>>) = 0
    OBVIOUS
  <2> QED
    BY <2>1, TotalsAre, FramesAssumption
<1>3. /\ events = <<>> /\ taken = 0 /\ tapPhase = "handshake"
      /\ tapCtx = "live" /\ finished = FALSE
  BY DEF TapInit
<1>4. events \in Seq(Frames) /\ Len(events) = 0
  BY <1>3
<1>5. TapTypeOK
  <2>1. taken \in 0 .. Len(stream)
    BY <1>1, <1>3
  <2> QED
    BY <1>1, <1>3, <1>4, <2>1 DEF TapTypeOK
<1>6. EventsFollow
  <2>1. Len(events) <= MaxEvents /\ TotalBytes(events) <= MaxTotalFrameBytes
    BY <1>2, <1>3, <1>4, LimitsAssumption
  <2>2. 1 .. Len(events) = {} /\ 1 .. taken = {}
    BY <1>3, <1>4
  <2> QED
    BY <1>3, <1>4, <2>1, <2>2 DEF EventsFollow
<1>7. ResultFollows
  BY DEF TapInit, ResultFollows
<1> QED
  BY <1>5, <1>6, <1>7 DEF TapInv

LEMMA StatusIsFailure ==
    ASSUME NEW err, NEW handshake
    PROVE  StatusOf(err, handshake)[1] # "complete"
BY DEF StatusOf

(* The loop ends: only after the last frame is it complete.                 *)
LEMMA LoopEnds ==
    ASSUME TapInv, NEW status, NEW code, tapPhase = "reading", EndLoop(status, code, events),
           UNCHANGED <<stream, tapCtx, events>>, taken' \in 0 .. Len(stream), finished' \in BOOLEAN,
           status = "complete" => taken = Len(stream) /\ finished'
    PROVE  TapInv'
<1> DEFINE x == PairEvents(events)
           tooOpen == Cardinality(NoResponse(x)) > MaxOutstandingQuery /\ status = "complete"
<1>1. /\ tapPhase' = "ended"
      /\ tapResult' = [status |-> IF tooOpen THEN "limit_exceeded" ELSE status,
                        code |-> IF tooOpen THEN "outstanding_limit" ELSE code,
                        exchanges |-> x, integrity |-> Integrity(x)]
  BY DEF EndLoop, NoResponse
<1>2. Cardinality(NoResponse(x)) \in Nat
  BY OpenIsFinite DEF TapInv, TapTypeOK
<1>3. TapTypeOK'
  BY <1>1 DEF TapInv, TapTypeOK
<1>4. EventsFollow'
  BY <1>1 DEF TapInv, EventsFollow
<1>5. status = "complete" => finished' /\ events = stream
  <2> SUFFICES ASSUME status = "complete"
               PROVE  events = stream
    OBVIOUS
  <2>1. Len(events) = Len(stream) /\ \A i \in 1 .. Len(stream) : events[i] = stream[i]
    BY DEF TapInv, EventsFollow
  <2>2. events \in Seq(Frames) /\ stream \in Seq(Frames)
    BY DEF TapInv, TapTypeOK
  <2> QED
    BY <2>1, <2>2
<1> HIDE DEF x
<1>6. tapResult'.exchanges = x /\ tapResult'.integrity = Integrity(x)
      /\ (tapResult'.status = "complete" => status = "complete" /\ ~tooOpen)
  BY <1>1
<1>7. tapResult'.status = "complete" => Cardinality(NoResponse(x)) <= MaxOutstandingQuery
  BY <1>2, <1>6, LimitsAssumption
<1>8. PairEvents(events') = x
  BY DEF x
<1>9. ResultFollows'
  BY <1>1, <1>5, <1>6, <1>7, <1>8 DEF ResultFollows
<1> QED
  BY <1>3, <1>4, <1>9 DEF TapInv

LEMMA DataKeeps == TapInv /\ ReadData => TapInv'
<1> SUFFICES ASSUME TapInv, ReadData
             PROVE  TapInv'
  OBVIOUS
<1> DEFINE f == stream[taken + 1]
<1>1. /\ tapPhase = "reading" /\ taken' = taken + 1 /\ UNCHANGED <<stream, tapCtx, finished>>
      /\ taken' \in 0 .. Len(stream) /\ taken + 1 \in 1 .. Len(stream) /\ finished' \in BOOLEAN
  BY DEF ReadData, TapInv, TapTypeOK
<1>2. f \in Frames /\ f.size \in Nat
  BY <1>1, FramesAssumption DEF TapInv, TapTypeOK
<1>3. CASE \E status, code : status # "complete" /\ EndLoop(status, code, events) /\ UNCHANGED events
  BY <1>1, <1>3, LoopEnds
<1>4. CASE /\ Len(events) < MaxEvents /\ TotalBytes(events) + f.size <= MaxTotalFrameBytes
           /\ Decodable(f) /\ events' = Append(events, f) /\ UNCHANGED <<tapPhase, tapResult>>
  <2>1. events \in Seq(Frames)
    BY DEF TapInv, TapTypeOK
  <2>2. events' \in Seq(Frames) /\ Len(events') = Len(events) + 1 /\ events'[Len(events) + 1] = f
        /\ \A i \in 1 .. Len(events) : events'[i] = events[i]
    BY <1>2, <1>4, <2>1
  <2>3. TotalBytes(events') <= MaxTotalFrameBytes
    BY <1>2, <1>4, <2>1, TotalOfAppend, FramesAssumption
  <2>4. Len(events) = taken /\ \A i \in 1 .. taken : events[i] = stream[i]
    BY <1>1 DEF TapInv, EventsFollow
  <2> HIDE DEF f
  <2>5. \A i \in 1 .. Len(events') : Decodable(events'[i])
    BY <1>4, <2>1, <2>2 DEF TapInv, EventsFollow
  <2>6. Len(events') <= MaxEvents
    BY <1>4, <2>1, <2>2, LimitsAssumption
  <2>7. Len(events') = taken' /\ \A i \in 1 .. taken' : events'[i] = stream'[i]
    BY <1>1, <2>1, <2>2, <2>4 DEF f
  <2>8. EventsFollow'
    BY <1>1, <1>4, <2>3, <2>5, <2>6, <2>7 DEF EventsFollow
  <2>9. TapTypeOK'
    BY <1>1, <1>4, <2>2 DEF TapInv, TapTypeOK
  <2>10. ResultFollows'
    BY <1>1, <1>4 DEF TapInv, ResultFollows
  <2> QED
    BY <2>8, <2>9, <2>10 DEF TapInv
<1>5. TotalBytes(events) \in Nat /\ Len(events) \in Nat
  BY <1>2, TotalOfAppend, FramesAssumption DEF TapInv, TapTypeOK
<1>6. ~(Len(events) >= MaxEvents) => Len(events) < MaxEvents
  BY <1>5, LimitsAssumption
<1>7. ~(TotalBytes(events) + f.size > MaxTotalFrameBytes)
        => TotalBytes(events) + f.size <= MaxTotalFrameBytes
  BY <1>2, <1>5, LimitsAssumption
<1> HIDE DEF f
<1> QED
  BY <1>3, <1>4, <1>6, <1>7, StatusIsFailure, Zenon DEF ReadData, f

LEMMA TapStep == TapInv /\ [TapNext]_tapVars => TapInv'
<1> SUFFICES ASSUME TapInv, [TapNext]_tapVars
             PROVE  TapInv'
  OBVIOUS
<1>1. CASE Expire
  BY <1>1 DEF Expire, TapInv, TapTypeOK, EventsFollow, ResultFollows
<1>2. CASE Handshake
  <2>1. CASE tapPhase' = "reading" /\ UNCHANGED tapResult
    BY <1>2, <2>1 DEF Handshake, TapInv, TapTypeOK, EventsFollow, ResultFollows
  <2>2. CASE \E status, code : status # "complete" /\ GiveUp(status, code)
    <3>1. PICK status, code : status # "complete" /\ GiveUp(status, code)
      BY <2>2
    <3>2. tapPhase = "handshake" /\ UNCHANGED <<stream, taken, tapCtx, finished, events>>
      BY <1>2 DEF Handshake
    <3>3. tapResult.exchanges = {} /\ tapResult.integrity = "exact" /\ events = <<>>
      BY <3>2 DEF TapInv, EventsFollow, ResultFollows
    <3>4. /\ tapPhase' = "ended" /\ tapResult'.exchanges = tapResult.exchanges
          /\ tapResult'.integrity = tapResult.integrity /\ tapResult'.status # "complete"
      BY <3>1 DEF GiveUp
    <3> QED
      BY <3>2, <3>3, <3>4 DEF TapInv, TapTypeOK, EventsFollow, ResultFollows
  <2> QED
    BY <1>2, <2>1, <2>2, StatusIsFailure DEF Handshake
<1>3. CASE ReadData
  BY <1>3, DataKeeps
<1>4. CASE ReadStop
  BY <1>4, LoopEnds DEF ReadStop, TapInv, TapTypeOK
<1>5. CASE ReadEOF
  BY <1>5, LoopEnds DEF ReadEOF, TapInv, TapTypeOK
<1>6. ASSUME NEW err, ReadFails(err)
      PROVE  TapInv'
  BY <1>6, LoopEnds, StatusIsFailure DEF ReadFails, TapInv, TapTypeOK
<1>7. CASE UNCHANGED tapVars
  BY <1>7 DEF tapVars, TapInv, TapTypeOK, EventsFollow, ResultFollows
<1> QED
  BY <1>1, <1>2, <1>3, <1>4, <1>5, <1>6, <1>7 DEF TapNext

-----------------------------------------------------------------------------
(* Complete is said of a collection only when nothing is missing from it    *)
(* (Collect:64-105).                                                        *)
THEOREM CompleteMeansWhole == TapSpec => []CompleteIsWhole
<1>1. TapInv => CompleteIsWhole
  <2> SUFFICES ASSUME TapInv, tapResult.status = "complete"
               PROVE  CompleteIsWhole
    BY DEF CompleteIsWhole
  <2>1. finished /\ events = stream
        /\ Cardinality(NoResponse(tapResult.exchanges)) <= MaxOutstandingQuery
    BY DEF TapInv, ResultFollows
  <2> QED
    BY <2>1 DEF TapInv, EventsFollow, CompleteIsWhole, NoResponse
<1> QED
  BY <1>1, TapStarts, TapStep, PTL DEF TapSpec

(* For every stream of frames: what the collector calls exact is the only   *)
(* assignment of the responses to the queries (pairing.go:21-98).           *)
THEOREM ExactIsForced == TapSpec => []ExactPairingIsForced
<1>1. TapInv => ExactPairingIsForced
  <2> SUFFICES ASSUME TapInv, tapPhase = "ended"
               PROVE  ExactPairingIsForced
    BY DEF ExactPairingIsForced
  <2>1. events \in Seq(Frames) /\ \A i \in 1 .. Len(events) : Decodable(events[i])
    BY DEF TapInv, TapTypeOK, EventsFollow
  <2>2. CASE tapResult.exchanges = {} /\ events = <<>>
    BY <2>2 DEF ExactPairingIsForced, OfKind
  <2>3. CASE /\ tapResult.exchanges = PairEvents(events)
             /\ tapResult.integrity = Integrity(PairEvents(events))
    <3>1. Forced(events, tapResult.exchanges) /\ tapResult.integrity = Integrity(tapResult.exchanges)
      BY <2>1, <2>3, PairingIsForced
    <3> QED
      BY <3>1, Zenon DEF ExactPairingIsForced, Forced
  <2> QED
    BY <2>2, <2>3 DEF TapInv, ResultFollows
<1> QED
  BY <1>1, TapStarts, TapStep, PTL DEF TapSpec

-----------------------------------------------------------------------------
(* The sum of a function over a set of its domain is the number of the      *)
(* squares below its graph, whatever order the fold takes them in.          *)
Squares(g, s) == {e \in s \X Nat : e[2] \in 1 .. g[e[1]]}
Total(g, s) == Cardinality(Squares(g, s))

LEMMA SquaresAdd ==
    ASSUME NEW g, NEW s, NEW p, p \notin s, g[p] \in Nat, IsFiniteSet(Squares(g, s))
    PROVE  /\ IsFiniteSet(Squares(g, s \cup {p}))
           /\ Total(g, s \cup {p}) = Total(g, s) + g[p]
<1> DEFINE column == {p} \X (1 .. g[p])
<1>1. Squares(g, s \cup {p}) = Squares(g, s) \cup column
  BY DEF Squares
<1>2. Squares(g, s) \cap column = {}
  BY DEF Squares
<1>3. IsFiniteSet(column) /\ Cardinality(column) = g[p]
  <2>1. IsFiniteSet(1 .. g[p]) /\ Cardinality(1 .. g[p]) = g[p]
    BY FS_Interval
  <2>2. IsFiniteSet({p}) /\ Cardinality({p}) = 1
    BY FS_Singleton
  <2>3. /\ IsFiniteSet({p} \X (1 .. g[p]))
        /\ Cardinality({p} \X (1 .. g[p])) = Cardinality({p}) * Cardinality(1 .. g[p])
    BY <2>1, <2>2, FS_Product
  <2> QED
    BY <2>1, <2>2, <2>3
<1> HIDE DEF column
<1>4. Cardinality({}) = 0
  BY FS_EmptySet
<1>5. Cardinality(Squares(g, s)) \in Nat
  BY FS_CardinalityType
<1>6. /\ IsFiniteSet(Squares(g, s) \cup column)
      /\ Cardinality(Squares(g, s) \cup column)
           = Cardinality(Squares(g, s)) + Cardinality(column) - Cardinality(Squares(g, s) \cap column)
  BY <1>3, FS_Union
<1>7. Cardinality(Squares(g, s) \cap column) = 0
  BY <1>2, <1>4
<1>8. Cardinality(Squares(g, s) \cup column) = Cardinality(Squares(g, s)) + g[p]
  BY <1>3, <1>5, <1>6, <1>7
<1> QED
  BY <1>1, <1>6, <1>8 DEF Total

(* Induction over the subsets of a finite set.                              *)
LEMMA SmallestSubset ==
    ASSUME NEW S, IsFiniteSet(S), NEW P,
           \A s \in SUBSET S : (\A t \in SUBSET s : t # s => t \in P) => s \in P
    PROVE  \A s \in SUBSET S : s \in P
<1> DEFINE Missed == {s \in SUBSET S : s \notin P}
<1> SUFFICES ASSUME Missed # {}
             PROVE  FALSE
  OBVIOUS
<1>1. IsWellFoundedOn(StrictSubsetOrdering(S), SUBSET S)
  <2>1. IsWellFoundedOn(StrictSubsetOrdering(S), FiniteSubsetsOf(S))
    BY FS_StrictSubsetOrderingWellFounded
  <2>2. FiniteSubsetsOf(S) = SUBSET S
    BY FS_FiniteSubsetsOfFinite
  <2> QED
    BY <2>1, <2>2
<1>2. PICK s \in Missed : \A t \in Missed : ~(<<t, s>> \in StrictSubsetOrdering(S))
  <2>1. Missed \subseteq SUBSET S
    OBVIOUS
  <2> HIDE DEF Missed
  <2> QED
    BY <1>1, <2>1, WFMin
<1>3. \A t \in SUBSET s : t # s => t \notin Missed
  BY <1>2 DEF StrictSubsetOrdering
<1> QED
  BY <1>2, <1>3

LEMMA SquaresAreFinite ==
    ASSUME NEW S, IsFiniteSet(S), NEW g, \A x \in S : g[x] \in Nat
    PROVE  \A s \in SUBSET S : IsFiniteSet(Squares(g, s))
<1> DEFINE P == {s \in SUBSET S : IsFiniteSet(Squares(g, s))}
<1>1. ASSUME NEW s \in SUBSET S, \A t \in SUBSET s : t # s => t \in P
      PROVE  s \in P
  <2>1. CASE s = {}
    <3>1. Squares(g, s) = {}
      BY <2>1 DEF Squares
    <3> QED
      BY <3>1, FS_EmptySet
  <2>2. CASE s # {}
    <3>1. PICK p \in s : TRUE
      BY <2>2
    <3> DEFINE t == s \ {p}
    <3>2. t \in P /\ p \notin t /\ t \cup {p} = s /\ g[p] \in Nat
      BY <1>1
    <3>3. IsFiniteSet(Squares(g, t))
      BY <3>2
    <3> HIDE DEF t
    <3>4. IsFiniteSet(Squares(g, t \cup {p}))
      BY <3>2, <3>3, SquaresAdd
    <3> QED
      BY <3>2, <3>4
  <2> QED
    BY <2>1, <2>2
<1>2. \A s \in SUBSET S : s \in P
  <2> HIDE DEF P
  <2> QED
    BY <1>1, SmallestSubset
<1> QED
  BY <1>2

Picked(s) == CHOOSE x \in s : TRUE
Adding(g, S) ==
    CHOOSE f : f = [s \in SUBSET S |-> IF s = {} THEN 0 ELSE g[Picked(s)] + f[s \ {Picked(s)}]]

LEMMA SumIsTotal ==
    ASSUME NEW S, IsFiniteSet(S), NEW g, \A x \in S : g[x] \in Nat
    PROVE  MapThenSumSet(LAMBDA p : g[p], S) = Total(g, S)
<1> DEFINE f == [s \in SUBSET S |-> Total(g, s)]
           a == Adding(g, S)
           P == {s \in SUBSET S : a[s] = f[s]}
           Adds(h) == h = [s \in SUBSET S |-> IF s = {} THEN 0 ELSE g[Picked(s)] + h[s \ {Picked(s)}]]
<1>1. Total(g, {}) = 0
  <2>1. Squares(g, {}) = {}
    BY DEF Squares
  <2> QED
    BY <2>1, FS_EmptySet DEF Total
<1>2. ASSUME NEW s \in SUBSET S, s # {}
      PROVE  /\ Picked(s) \in s /\ s \ {Picked(s)} \in SUBSET S
             /\ Total(g, s) = g[Picked(s)] + Total(g, s \ {Picked(s)})
  <2> DEFINE p == Picked(s)
             t == s \ {p}
  <2>1. p \in s
    BY <1>2 DEF Picked
  <2>2. t \in SUBSET S /\ p \notin t /\ t \cup {p} = s /\ g[p] \in Nat
    BY <2>1
  <2> HIDE DEF p, t
  <2>3. IsFiniteSet(Squares(g, t))
    BY <2>2, SquaresAreFinite
  <2>4. Total(g, s) = Total(g, t) + g[p] /\ Total(g, t) \in Nat
    BY <2>2, <2>3, SquaresAdd, FS_CardinalityType DEF Total
  <2>5. Total(g, s) = g[p] + Total(g, t)
    BY <2>2, <2>4
  <2> QED
    BY <2>1, <2>2, <2>5 DEF p, t
<1>3. Adds(f)
  <2>1. f = [s \in SUBSET S |-> IF s = {} THEN 0 ELSE g[Picked(s)] + f[s \ {Picked(s)}]]
    BY <1>1, <1>2
  <2> QED
    BY <2>1
<1>4. Adds(a)
  <2> HIDE DEF f
  <2> QED
    BY <1>3 DEF Adding
<1>5. ASSUME NEW s \in SUBSET S, \A t \in SUBSET s : t # s => t \in P
      PROVE  s \in P
  <2>1. CASE s = {}
    <3>1. a[s] = 0
      BY <1>4, <2>1
    <3> QED
      BY <1>1, <2>1, <3>1
  <2>2. CASE s # {}
    <3> DEFINE t == s \ {Picked(s)}
    <3>1. t \in SUBSET s /\ t # s
      BY <1>2, <2>2
    <3>2. a[t] = f[t] /\ t \in SUBSET S
      BY <1>5, <3>1
    <3>3. a[s] = g[Picked(s)] + a[t]
      <4> HIDE DEF a
      <4> QED
        BY <1>4, <2>2
    <3> HIDE DEF a, P
    <3>4. f[s] = g[Picked(s)] + f[t]
      BY <1>2, <2>2, <3>2
    <3> HIDE DEF f, t
    <3> QED
      BY <3>2, <3>3, <3>4 DEF P
  <2> QED
    BY <2>1, <2>2
<1>6. S \in P
  <2>1. \A s \in SUBSET S : s \in P
    <3> HIDE DEF P
    <3> QED
      BY <1>5, SmallestSubset
  <2> QED
    BY <2>1
<1>7. MapThenSumSet(LAMBDA p : g[p], S) = Adding(g, S)[S]
  BY DEF MapThenSumSet, MapThenFoldSet, Adding, Picked
<1> QED
  BY <1>6, <1>7

(* One entry of a counter is added or set; the sum follows.                 *)
LEMMA TotalWith ==
    ASSUME NEW g, IsFiniteSet(DOMAIN g), \A x \in DOMAIN g : g[x] \in Nat, NEW p, NEW n \in Nat
    PROVE  LET before == IF p \in DOMAIN g THEN g[p] ELSE 0
               h == With(g, p, n)
           IN  /\ IsFiniteSet(DOMAIN h) /\ \A x \in DOMAIN h : h[x] \in Nat
               /\ Total(g, DOMAIN g) \in Nat /\ Total(h, DOMAIN h) \in Nat
               /\ Total(h, DOMAIN h) + before = Total(g, DOMAIN g) + n
<1> DEFINE D == DOMAIN g
           rest == D \ {p}
           before == IF p \in DOMAIN g THEN g[p] ELSE 0
           h == With(g, p, n)
<1>1. /\ DOMAIN h = rest \cup {p} /\ h[p] = n /\ p \notin rest
      /\ \A x \in rest : h[x] = g[x]
  BY DEF With
<1>2. IsFiniteSet(rest) /\ IsFiniteSet(rest \cup {p})
  BY FS_RemoveElement, FS_AddElement
<1>3. \A x \in DOMAIN h : h[x] \in Nat
  BY <1>1
<1> HIDE DEF h
<1>4. IsFiniteSet(Squares(g, rest))
  BY <1>2, SquaresAreFinite
<1>5. Squares(h, rest) = Squares(g, rest)
  BY <1>1 DEF Squares
<1>6. Total(h, DOMAIN h) = Total(g, rest) + n
  BY <1>1, <1>4, <1>5, SquaresAdd DEF Total
<1>7. Total(g, D) = Total(g, rest) + before
  <2>1. CASE p \in D
    <3>1. D = rest \cup {p} /\ before = g[p] /\ g[p] \in Nat
      BY <2>1
    <3> HIDE DEF D, rest, before
    <3> QED
      BY <1>1, <1>4, <3>1, SquaresAdd
  <2>2. CASE p \notin D
    <3>1. D = rest /\ before = 0
      BY <2>2
    <3>2. Total(g, rest) \in Nat
      BY <1>4, FS_CardinalityType DEF Total
    <3> QED
      BY <3>1, <3>2
  <2> QED
    BY <2>1, <2>2
<1>8. Total(g, rest) \in Nat /\ before \in Nat
  BY <1>4, FS_CardinalityType DEF Total
<1> HIDE DEF before, rest
<1>9. /\ Total(g, D) \in Nat /\ Total(h, DOMAIN h) \in Nat
      /\ Total(h, DOMAIN h) + before = Total(g, D) + n
  BY <1>6, <1>7, <1>8
<1> QED
  BY <1>1, <1>2, <1>3, <1>9 DEF before, h

-----------------------------------------------------------------------------
(* An mtr numbers its replies, or none of them.                             *)
Numbered == \A e \in dialect : e.kind = "p" => e.seq # 0
Unnumbered == \A e \in dialect : e.kind = "p" => e.seq = 0

HopFields == {"sent", "received", "sentSeq", "replySeq", "current", "paths"}
IsHop(s) == s = [f \in HopFields |-> s[f]]

(* The counters of a hop: when replies are numbered, what was received are  *)
(* the numbers that answered, all of them numbers sent; and the paths share *)
(* what was received.                                                       *)
HopOK(s) ==
    /\ IsHop(s)
    /\ s.sent \in Nat /\ s.received \in Nat /\ s.received <= s.sent
    /\ Numbered =>
          /\ IsFiniteSet(s.sentSeq) /\ s.replySeq \subseteq s.sentSeq
          /\ Cardinality(s.sentSeq) <= s.sent /\ Cardinality(s.replySeq) = s.received
    /\ IsFiniteSet(DOMAIN s.paths) /\ \A p \in DOMAIN s.paths : s.paths[p] \in Nat
    /\ Total(s.paths, DOMAIN s.paths) <= s.received

HopsOK ==
    /\ dialect \in RawDialects
    /\ \A h \in DOMAIN hops : HopOK(hops[h])

Cycles == SentCount(1)

Climbs(s) == \A i, j \in 1 .. Len(s) : i <= j => s[i] <= s[j]

(* What was emitted grows up to what was last emitted.                      *)
EmittedOK ==
    /\ emitted \in Seq(Nat) /\ lastEmitted \in Nat
    /\ lastEmitted <= ReportCycles /\ lastEmitted <= Cycles
    /\ Len(emitted) = 0 => lastEmitted = 0
    /\ Climbs(emitted)
    /\ mtrResult.summary = "" /\ Len(emitted) # 0 => emitted[Len(emitted)] = lastEmitted

MTRResultOK ==
    /\ \A i \in 1 .. Len(emitted) : emitted[i] <= ReportCycles
    /\ mtrResult.summary = "raw" =>
          /\ mtrResult.err = "" => completedCount = ReportCycles
          /\ Len(emitted) # 0 /\ emitted[Len(emitted)] = completedCount

StoppedOK == mtrResult.summary = "raw" => mtrResult.stopped = (mtrResult.err # "")

MTRInv == HopsOK /\ EmittedOK /\ MTRResultOK /\ StoppedOK

LEMMA NewHopIsOK == HopOK(NewHop)
<1>1. /\ NewHop.sent = 0 /\ NewHop.received = 0 /\ NewHop.sentSeq = {} /\ NewHop.replySeq = {}
      /\ DOMAIN NewHop.paths = {}
      /\ IsHop(NewHop)
  BY DEF NewHop, HopFields, IsHop
<1>2. IsFiniteSet({}) /\ Cardinality({}) = 0
  BY FS_EmptySet
<1>3. Total(NewHop.paths, {}) = 0
  <2>1. Squares(NewHop.paths, {}) = {}
    BY DEF Squares
  <2> QED
    BY <1>2, <2>1 DEF Total
<1> QED
  BY <1>1, <1>2, <1>3 DEF HopOK

LEMMA MTRStarts == MTRInit => MTRInv
<1> SUFFICES ASSUME MTRInit
             PROVE  MTRInv
  OBVIOUS
<1>1. HopsOK
  BY DEF MTRInit, HopsOK
<1>2. Cycles = 0
  BY DEF MTRInit, SentCount, Cycles
<1>3. emitted \in Seq(Nat) /\ Len(emitted) = 0
  <2>1. emitted = <<>>
    BY DEF MTRInit
  <2> QED
    BY <2>1
<1>4. mtrResult.summary = "" /\ lastEmitted = 0
  BY DEF MTRInit
<1>5. 1 .. Len(emitted) = {}
  BY <1>3
<1>6. Climbs(emitted)
  BY <1>5 DEF Climbs
<1>7. ReportCycles \in Nat
  BY MTRAssumption
<1>8. EmittedOK
  <2>1. lastEmitted <= Cycles
    <3>1. 0 <= 0
      OBVIOUS
    <3> QED
      BY <1>2, <1>4, <3>1, Zenon
  <2>2. lastEmitted <= ReportCycles
    <3>1. lastEmitted = 0
      BY <1>4
    <3>2. 0 <= ReportCycles
      BY <1>7
    <3> QED
      BY <3>1, <3>2, Zenon
  <2>3. lastEmitted \in Nat
    BY <1>4
  <2> QED
    BY <1>3, <1>4, <1>6, <2>1, <2>2, <2>3, Zenon DEF EmittedOK
<1>9. MTRResultOK
  BY <1>4, <1>5 DEF MTRResultOK
<1>10. StoppedOK
  BY <1>4 DEF StoppedOK
<1> QED
  BY <1>1, <1>8, <1>9, <1>10 DEF MTRInv

LEMMA StatsAreOK == ASSUME HopsOK, NEW hop PROVE HopOK(StatsOf(hop))
BY NewHopIsOK DEF HopsOK, StatsOf

(* A hop is given statistics that are in order and send no less.            *)
LEMMA SetHopKeeps ==
    ASSUME MTRInv, NEW hop, NEW stats, SetHop(hop, stats), HopOK(stats),
           StatsOf(hop).sent <= stats.sent, UNCHANGED dialect
    PROVE  HopsOK' /\ Cycles <= Cycles'
<1>1. DOMAIN hops' = DOMAIN hops \cup {hop} /\ hops'[hop] = stats
      /\ \A h \in DOMAIN hops \ {hop} : hops'[h] = hops[h]
  BY DEF SetHop
<1>2. \A s : HopOK(s)' <=> HopOK(s)
  BY DEF HopOK, Numbered
<1>3. HopsOK'
  BY <1>1, <1>2 DEF MTRInv, HopsOK
<1>4. Cycles \in Nat /\ stats.sent \in Nat
  BY DEF MTRInv, HopsOK, HopOK, SentCount, Cycles
<1>5. Cycles <= Cycles'
  <2>1. CASE hop = 1
    <3>1. Cycles <= stats.sent
      BY <1>4, <2>1 DEF SentCount, Cycles, StatsOf
    <3> QED
      BY <1>1, <2>1, <3>1 DEF SentCount, Cycles
  <2>2. CASE hop # 1
    BY <1>1, <1>4, <2>2 DEF SentCount, Cycles
  <2> QED
    BY <2>1, <2>2
<1> QED
  BY <1>3, <1>5

LEMMA SameHopsKeep ==
    ASSUME MTRInv, UNCHANGED <<hops, dialect>>
    PROVE  HopsOK' /\ Cycles <= Cycles'
<1>1. \A s : HopOK(s)' <=> HopOK(s)
  BY DEF HopOK, Numbered
<1>2. HopsOK'
  BY <1>1 DEF MTRInv, HopsOK
<1>3. Cycles \in Nat /\ Cycles' = Cycles
  BY DEF MTRInv, HopsOK, HopOK, SentCount, Cycles
<1> QED
  BY <1>2, <1>3

LEMMA AppendClimbs ==
    ASSUME NEW s \in Seq(Nat), NEW n \in Nat, Climbs(s), Len(s) # 0 => s[Len(s)] <= n,
           NEW b \in Nat, n <= b, \A i \in 1 .. Len(s) : s[i] <= b
    PROVE  LET t == Append(s, n)
           IN  /\ t \in Seq(Nat) /\ Len(t) # 0 /\ t[Len(t)] = n /\ Climbs(t)
               /\ \A i \in 1 .. Len(t) : t[i] <= b
<1> DEFINE t == Append(s, n)
<1>1. /\ t \in Seq(Nat) /\ Len(t) = Len(s) + 1 /\ t[Len(s) + 1] = n
      /\ \A i \in 1 .. Len(s) : t[i] = s[i]
  OBVIOUS
<1> HIDE DEF t
<1>2. Len(t) # 0 /\ t[Len(t)] = n
  BY <1>1
<1>3. ASSUME NEW i \in 1 .. Len(t)
      PROVE  t[i] <= b
  <2>1. i = Len(s) + 1 \/ i \in 1 .. Len(s)
    BY <1>1
  <2> QED
    BY <1>1, <2>1
<1>4. ASSUME NEW i \in 1 .. Len(s) + 1, NEW j \in 1 .. Len(s) + 1, i <= j
      PROVE  t[i] <= t[j]
  <2>1. CASE j \in 1 .. Len(s)
    <3>1. i \in 1 .. Len(s) /\ s[i] <= s[j]
      BY <1>4, <2>1 DEF Climbs
    <3> QED
      BY <1>1, <2>1, <3>1
  <2>2. CASE j = Len(s) + 1 /\ i = Len(s) + 1
    BY <1>1, <2>2
  <2>3. CASE j = Len(s) + 1 /\ i \in 1 .. Len(s)
    <3>1. Len(s) \in 1 .. Len(s) /\ s[i] \in Nat /\ s[Len(s)] \in Nat
      BY <2>3
    <3>2. s[i] <= s[Len(s)] /\ s[Len(s)] <= n
      BY <2>3, <3>1 DEF Climbs
    <3>3. t[i] = s[i] /\ t[j] = n
      BY <1>1, <2>3
    <3> QED
      BY <3>1, <3>2, <3>3
  <2>4. \/ j \in 1 .. Len(s)
        \/ j = Len(s) + 1 /\ (i = Len(s) + 1 \/ i \in 1 .. Len(s))
    OBVIOUS
  <2> QED
    BY <2>1, <2>2, <2>3, <2>4
<1>5. Climbs(t)
  BY <1>1, <1>4 DEF Climbs
<1> QED
  BY <1>1, <1>2, <1>3, <1>5 DEF t

-----------------------------------------------------------------------------
(* The lines that do not emit: what was emitted stays.                      *)
LEMMA QuietLineKeeps ==
    ASSUME MTRInv, HopsOK', Cycles <= Cycles',
           UNCHANGED <<completedCount, lastEmitted, emitted, mtrResult>>
    PROVE  MTRInv'
<1>1. Cycles \in Nat /\ Cycles' \in Nat /\ ReportCycles \in Nat
  BY MTRAssumption DEF MTRInv, HopsOK, HopOK, SentCount, Cycles
<1>2. Climbs(emitted')
  BY DEF MTRInv, EmittedOK
<1>3. EmittedOK'
  <2>1. lastEmitted \in Nat /\ lastEmitted <= Cycles
    BY DEF MTRInv, EmittedOK
  <2>2. lastEmitted <= Cycles'
    BY <1>1, <2>1
  <2> QED
    BY <1>2, <2>2 DEF MTRInv, EmittedOK
<1>4. MTRResultOK'
  BY DEF MTRInv, MTRResultOK
<1>5. StoppedOK'
  BY DEF MTRInv, StoppedOK
<1> QED
  BY <1>3, <1>4, <1>5 DEF MTRInv

WithSent(s, x, y) == [s EXCEPT !.sent = x, !.sentSeq = y]

LEMMA SentUpdated ==
    ASSUME NEW s, IsHop(s), NEW x, NEW y
    PROVE  LET t == WithSent(s, x, y)
           IN  /\ IsHop(t) /\ t.sent = x /\ t.sentSeq = y
               /\ t.received = s.received /\ t.replySeq = s.replySeq /\ t.paths = s.paths
BY DEF HopFields, IsHop, WithSent

LEMMA TransmitKeeps ==
    ASSUME MTRInv, NEW e \in dialect, e.kind = "x", Transmit(e.hop, e.seq)
    PROVE  MTRInv'
<1> DEFINE hop == e.hop
           seq == e.seq
           stats == StatsOf(hop)
           known == seq # 0 /\ hop \in DOMAIN hops /\ seq \in stats.sentSeq
           count == Smaller(Cycles, ReportCycles)
           more == [stats EXCEPT !.sent = @ + 1,
                                 !.sentSeq = IF seq = 0 THEN @ ELSE @ \cup {seq}]
<1>1. HopOK(stats)
  BY StatsAreOK DEF MTRInv
<1>2. ASSUME ~known
      PROVE  HopOK(more) /\ stats.sent <= more.sent
  <2>1. seq = 0 \/ seq \notin stats.sentSeq
    BY <1>2 DEF StatsOf, NewHop
  <2> HIDE DEF stats, known, seq
  <2> DEFINE seqs == IF seq = 0 THEN stats.sentSeq ELSE stats.sentSeq \cup {seq}
  <2>2. more = [stats EXCEPT !.sent = stats.sent + 1, !.sentSeq = seqs]
    OBVIOUS
  <2>3. /\ more.sent = stats.sent + 1 /\ more.received = stats.received
        /\ more.sentSeq = seqs
        /\ more.replySeq = stats.replySeq /\ more.paths = stats.paths
        /\ IsHop(more)
    <3>1. IsHop(stats)
      BY <1>1 DEF HopOK
    <3> DEFINE x == stats.sent + 1
    <3>2. more = WithSent(stats, x, seqs)
      BY <2>2 DEF WithSent
    <3> HIDE DEF more, seqs, x
    <3>3. /\ more.sent = x /\ more.received = stats.received
          /\ more.sentSeq = seqs
          /\ more.replySeq = stats.replySeq /\ more.paths = stats.paths
          /\ IsHop(more)
      BY <3>1, <3>2, SentUpdated
    <3> QED
      BY <3>3 DEF x
  <2> HIDE DEF more
  <2>4. Numbered => /\ IsFiniteSet(more.sentSeq) /\ more.replySeq \subseteq more.sentSeq
                    /\ Cardinality(more.sentSeq) <= more.sent
                    /\ Cardinality(more.replySeq) = more.received
    <3> SUFFICES ASSUME Numbered
                 PROVE  /\ IsFiniteSet(more.sentSeq) /\ more.replySeq \subseteq more.sentSeq
                        /\ Cardinality(more.sentSeq) <= more.sent
                        /\ Cardinality(more.replySeq) = more.received
      OBVIOUS
    <3>1. /\ IsFiniteSet(stats.sentSeq) /\ stats.replySeq \subseteq stats.sentSeq
          /\ Cardinality(stats.sentSeq) <= stats.sent /\ Cardinality(stats.replySeq) = stats.received
          /\ stats.sent \in Nat /\ Cardinality(stats.sentSeq) \in Nat
      BY <1>1, FS_CardinalityType DEF HopOK
    <3>2. more.sentSeq = IF seq = 0 THEN stats.sentSeq ELSE stats.sentSeq \cup {seq}
      BY <2>3
    <3>3. CASE seq = 0
      BY <2>3, <3>1, <3>2, <3>3
    <3>4. CASE seq # 0
      <4>1. /\ IsFiniteSet(stats.sentSeq \cup {seq})
            /\ Cardinality(stats.sentSeq \cup {seq}) = Cardinality(stats.sentSeq) + 1
        BY <2>1, <3>1, <3>4, FS_AddElement
      <4> HIDE DEF seqs
      <4>2. more.sentSeq = stats.sentSeq \cup {seq}
        BY <3>2, <3>4
      <4>3. Cardinality(more.sentSeq) <= more.sent
        BY <2>3, <3>1, <4>1, <4>2
      <4> QED
        BY <2>3, <3>1, <4>1, <4>2, <4>3
    <3> QED
      BY <3>3, <3>4
  <2>5. more.sent \in Nat /\ more.received \in Nat /\ more.received <= more.sent
        /\ stats.sent <= more.sent
    BY <1>1, <2>3 DEF HopOK
  <2> QED
    BY <1>1, <2>3, <2>4, <2>5 DEF HopOK
<1>3. /\ UNCHANGED <<dialect, mtrResult>> /\ mtrResult.summary = ""
      /\ \/ UNCHANGED hops
         \/ ~known /\ SetHop(hop, more)
      /\ \/ UNCHANGED <<completedCount, lastEmitted, emitted>>
         \/ /\ Cycles > lastEmitted /\ completedCount' = count /\ lastEmitted' = count
            /\ emitted' = Append(emitted, count)
  BY DEF Transmit, Reading, NextLine, Cycles
<1> HIDE DEF hop, seq, stats, known, more
<1>4. HopsOK' /\ Cycles <= Cycles'
  <2>1. CASE UNCHANGED hops
    BY <1>3, <2>1, SameHopsKeep
  <2>2. CASE ~known /\ SetHop(hop, more)
    <3>1. SetHop(hop, more) /\ HopOK(more) /\ StatsOf(hop).sent <= more.sent
      BY <1>2, <2>2 DEF stats
    <3> QED
      BY <1>3, <3>1, SetHopKeeps
  <2> QED
    BY <1>3, <2>1, <2>2
<1>5. CASE UNCHANGED <<completedCount, lastEmitted, emitted>>
  BY <1>3, <1>4, <1>5, QuietLineKeeps
<1>6. CASE /\ Cycles > lastEmitted /\ completedCount' = count /\ lastEmitted' = count
           /\ emitted' = Append(emitted, count)
  <2>1. Cycles \in Nat /\ Cycles' \in Nat
    BY <1>4 DEF MTRInv, HopsOK, HopOK, SentCount, Cycles
  <2>2. ReportCycles \in Nat /\ lastEmitted \in Nat /\ lastEmitted <= ReportCycles
    <3>1. ReportCycles \in Nat
      BY MTRAssumption
    <3>2. lastEmitted \in Nat
      BY DEF MTRInv, EmittedOK
    <3>3. lastEmitted <= ReportCycles
      BY DEF MTRInv, EmittedOK
    <3> QED
      BY <3>1, <3>2, <3>3
  <2>3. count \in Nat /\ count <= ReportCycles /\ count <= Cycles /\ lastEmitted <= count
    BY <1>6, <2>1, <2>2 DEF Smaller
  <2>4. count <= Cycles'
    BY <1>4, <2>1, <2>3
  <2> HIDE DEF count
  <2>5. /\ emitted \in Seq(Nat) /\ Climbs(emitted) /\ (Len(emitted) # 0 => emitted[Len(emitted)] <= count)
        /\ \A i \in 1 .. Len(emitted) : emitted[i] <= ReportCycles
    BY <1>3, <2>3 DEF MTRInv, EmittedOK, MTRResultOK
  <2>6. /\ emitted' \in Seq(Nat) /\ Len(emitted') # 0 /\ emitted'[Len(emitted')] = count
        /\ Climbs(emitted') /\ \A i \in 1 .. Len(emitted') : emitted'[i] <= ReportCycles
    BY <1>6, <2>2, <2>3, <2>5, AppendClimbs
  <2>7. EmittedOK'
    BY <1>6, <2>3, <2>4, <2>6 DEF EmittedOK
  <2>8. MTRResultOK'
    BY <1>3, <2>6 DEF MTRResultOK
  <2>9. StoppedOK'
    BY <1>3 DEF StoppedOK
  <2> QED
    BY <1>4, <2>7, <2>8, <2>9 DEF MTRInv
<1> QED
  BY <1>3, <1>5, <1>6
(* Statistics whose paths change and whose counts follow.                   *)
WithPath(s, c, p) == [s EXCEPT !.current = c, !.paths = p]
WithReply(s, x, y, r, q, p) ==
    [s EXCEPT !.sent = x, !.sentSeq = y, !.received = r, !.replySeq = q, !.paths = p]

LEMMA PathUpdated ==
    ASSUME NEW s, IsHop(s), NEW c, NEW p
    PROVE  LET t == WithPath(s, c, p)
           IN  /\ IsHop(t) /\ t.sent = s.sent /\ t.sentSeq = s.sentSeq
               /\ t.received = s.received /\ t.replySeq = s.replySeq /\ t.paths = p
BY DEF HopFields, IsHop, WithPath

LEMMA ReplyUpdated ==
    ASSUME NEW s, IsHop(s), NEW x, NEW y, NEW r, NEW q, NEW p
    PROVE  LET t == WithReply(s, x, y, r, q, p)
           IN  /\ IsHop(t) /\ t.sent = x /\ t.sentSeq = y
               /\ t.received = r /\ t.replySeq = q /\ t.paths = p
BY DEF HopFields, IsHop, WithReply

LEMMA SetPathKeeps ==
    ASSUME MTRInv, NEW e \in dialect, SetPath(e.hop, e.path)
    PROVE  MTRInv'
<1> DEFINE stats == StatsOf(e.hop)
           key == Canonical(e.path)
           kept == key \in DOMAIN stats.paths /\ e.path.written = key
           paths == IF kept THEN stats.paths ELSE With(stats.paths, key, 0)
           more == WithPath(stats, key, paths)
<1>1. HopOK(stats)
  BY StatsAreOK DEF MTRInv
<1>2. /\ UNCHANGED <<dialect, mtrResult>>
      /\ UNCHANGED <<completedCount, lastEmitted, emitted>>
      /\ (UNCHANGED hops \/ SetHop(e.hop, more))
  BY DEF SetPath, NextLine, WithPath
<1> HIDE DEF stats, key, kept
<1>3. /\ IsHop(more) /\ more.sent = stats.sent /\ more.sentSeq = stats.sentSeq
      /\ more.received = stats.received /\ more.replySeq = stats.replySeq /\ more.paths = paths
  <2> HIDE DEF paths
  <2>1. IsHop(stats)
    BY <1>1 DEF HopOK
  <2> QED
    BY <2>1, PathUpdated
<1>4. /\ IsFiniteSet(DOMAIN paths) /\ \A p \in DOMAIN paths : paths[p] \in Nat
      /\ Total(paths, DOMAIN paths) <= stats.received
  <2>1. /\ IsFiniteSet(DOMAIN stats.paths) /\ \A p \in DOMAIN stats.paths : stats.paths[p] \in Nat
        /\ Total(stats.paths, DOMAIN stats.paths) <= stats.received /\ stats.received \in Nat
    BY <1>1 DEF HopOK
  <2>2. CASE kept
    BY <2>1, <2>2
  <2>3. CASE ~kept
    <3> DEFINE g == stats.paths
               h == With(g, key, 0)
               before == IF key \in DOMAIN g THEN g[key] ELSE 0
    <3>1. 0 \in Nat /\ before \in Nat
      BY <2>1
    <3> HIDE DEF g
    <3>2. /\ IsFiniteSet(DOMAIN g) /\ \A p \in DOMAIN g : g[p] \in Nat
      BY <2>1 DEF g
    <3>3. /\ IsFiniteSet(DOMAIN h) /\ \A x \in DOMAIN h : h[x] \in Nat
          /\ Total(g, DOMAIN g) \in Nat /\ Total(h, DOMAIN h) \in Nat
          /\ Total(h, DOMAIN h) + before = Total(g, DOMAIN g) + 0
      BY <3>1, <3>2, TotalWith
    <3> HIDE DEF h, before
    <3>4. Total(h, DOMAIN h) <= stats.received
      BY <2>1, <3>1, <3>3 DEF g
    <3> QED
      BY <2>3, <3>3, <3>4 DEF h, g
  <2> QED
    BY <2>2, <2>3
<1> HIDE DEF paths, more
<1>5. HopOK(more) /\ stats.sent <= more.sent
  <2>1. stats.sent \in Nat
    BY <1>1 DEF HopOK
  <2>2. stats.sent <= more.sent
    BY <1>3, <2>1
  <2>3. more.sent \in Nat /\ more.received \in Nat /\ more.received <= more.sent
    BY <1>1, <1>3 DEF HopOK
  <2>4. Numbered => /\ IsFiniteSet(more.sentSeq) /\ more.replySeq \subseteq more.sentSeq
                    /\ Cardinality(more.sentSeq) <= more.sent
                    /\ Cardinality(more.replySeq) = more.received
    BY <1>1, <1>3 DEF HopOK
  <2>5. /\ IsFiniteSet(DOMAIN more.paths) /\ \A p \in DOMAIN more.paths : more.paths[p] \in Nat
        /\ Total(more.paths, DOMAIN more.paths) <= more.received
    BY <1>3, <1>4, Zenon
  <2> QED
    BY <1>3, <2>2, <2>3, <2>4, <2>5 DEF HopOK
<1>6. HopsOK' /\ Cycles <= Cycles'
  BY <1>2, <1>5, SetHopKeeps, SameHopsKeep DEF stats
<1> QED
  BY <1>2, <1>6, QuietLineKeeps

LEMMA ReplyLineKeeps ==
    ASSUME MTRInv, NEW e \in dialect, e.kind = "p", ReplyLine(e.hop, e.seq)
    PROVE  MTRInv'
<1> DEFINE seq == e.seq
           stats == StatsOf(e.hop)
           duplicate == seq # 0 /\ seq \in stats.replySeq
           unsent == IF seq # 0 THEN seq \notin stats.sentSeq ELSE stats.sent <= stats.received
           key == IF stats.current = "" THEN NoPath ELSE stats.current
           before == IF key \in DOMAIN stats.paths THEN stats.paths[key] ELSE 0
           sent == IF unsent THEN stats.sent + 1 ELSE stats.sent
           sentSeq == IF seq = 0 THEN stats.sentSeq ELSE stats.sentSeq \cup {seq}
           received == stats.received + 1
           replySeq == IF seq = 0 THEN stats.replySeq ELSE stats.replySeq \cup {seq}
           paths == With(stats.paths, key, before + 1)
           more == WithReply(stats, sent, sentSeq, received, replySeq, paths)
<1>1. HopOK(stats)
  BY StatsAreOK DEF MTRInv
<1>2. /\ UNCHANGED <<dialect, mtrResult>>
      /\ UNCHANGED <<completedCount, lastEmitted, emitted>>
      /\ \/ UNCHANGED hops
         \/ ~duplicate /\ SetHop(e.hop, more)
  BY DEF ReplyLine, NextLine, WithReply
<1>3. \/ Numbered /\ seq # 0
      \/ ~Numbered /\ seq = 0
  <2>1. Numbered \/ Unnumbered
    BY DialectsAssumption DEF MTRInv, HopsOK, Numbered, Unnumbered
  <2>2. (Numbered => seq # 0) /\ (Unnumbered => seq = 0)
    BY DEF Numbered, Unnumbered
  <2> QED
    BY <2>1, <2>2
<1> HIDE DEF seq, stats, key
<1>4. /\ IsHop(more) /\ more.sent = sent /\ more.sentSeq = sentSeq
      /\ more.received = received /\ more.replySeq = replySeq /\ more.paths = paths
  <2> HIDE DEF sent, sentSeq, received, replySeq, paths
  <2>1. IsHop(stats)
    BY <1>1 DEF HopOK
  <2> QED
    BY <2>1, ReplyUpdated
<1>5. /\ IsFiniteSet(DOMAIN paths) /\ \A p \in DOMAIN paths : paths[p] \in Nat
      /\ Total(paths, DOMAIN paths) <= received
  <2> DEFINE g == stats.paths
             n == before + 1
             h == With(g, key, n)
  <2>1. /\ IsFiniteSet(DOMAIN g) /\ \A p \in DOMAIN g : g[p] \in Nat
        /\ Total(g, DOMAIN g) <= stats.received /\ stats.received \in Nat
    BY <1>1 DEF HopOK
  <2>2. before \in Nat /\ n \in Nat
    BY <2>1
  <2>3. before = IF key \in DOMAIN g THEN g[key] ELSE 0
    OBVIOUS
  <2>4. n = before + 1
    OBVIOUS
  <2> HIDE DEF g, before, n
  <2>5. /\ IsFiniteSet(DOMAIN h) /\ \A x \in DOMAIN h : h[x] \in Nat
        /\ Total(g, DOMAIN g) \in Nat /\ Total(h, DOMAIN h) \in Nat
        /\ Total(h, DOMAIN h) + before = Total(g, DOMAIN g) + n
    BY <2>1, <2>2, <2>3, TotalWith
  <2>6. h = paths
    BY DEF h, g, n
  <2> HIDE DEF h, paths
  <2>7. Total(h, DOMAIN h) <= stats.received + 1
    BY <2>1, <2>2, <2>4, <2>5
  <2> QED
    BY <2>5, <2>6, <2>7
<1> HIDE DEF paths, before, more
<1>6. ASSUME ~duplicate
      PROVE  HopOK(more) /\ stats.sent <= more.sent
  <2>1. stats.sent \in Nat /\ stats.received \in Nat /\ stats.received <= stats.sent
    BY <1>1 DEF HopOK
  <2>2. more.sent \in Nat /\ more.received \in Nat /\ stats.sent <= more.sent
    BY <1>4, <2>1
  <2>3. CASE Numbered /\ seq # 0
    <3>1. /\ IsFiniteSet(stats.sentSeq) /\ stats.replySeq \subseteq stats.sentSeq
          /\ Cardinality(stats.sentSeq) <= stats.sent /\ Cardinality(stats.replySeq) = stats.received
          /\ Cardinality(stats.sentSeq) \in Nat
      BY <1>1, <2>3, FS_CardinalityType DEF HopOK
    <3>2. /\ sentSeq = stats.sentSeq \cup {seq} /\ replySeq = stats.replySeq \cup {seq}
          /\ seq \notin stats.replySeq
      BY <1>6, <2>3
    <3>3. IsFiniteSet(stats.replySeq)
      BY <3>1, FS_Subset
    <3>4. /\ IsFiniteSet(stats.sentSeq \cup {seq})
          /\ Cardinality(stats.sentSeq \cup {seq})
               = IF seq \in stats.sentSeq THEN Cardinality(stats.sentSeq) ELSE Cardinality(stats.sentSeq) + 1
      BY <3>1, FS_AddElement
    <3>5. Cardinality(stats.replySeq \cup {seq}) = Cardinality(stats.replySeq) + 1
      BY <3>2, <3>3, FS_AddElement
    <3>6. Cardinality(sentSeq) <= sent /\ Cardinality(sentSeq) \in Nat /\ sent \in Nat
      BY <2>1, <2>3, <3>1, <3>2, <3>4
    <3>7. Cardinality(replySeq) = received
      BY <3>1, <3>2, <3>5
    <3>8. IsFiniteSet(sentSeq) /\ replySeq \subseteq sentSeq
      BY <3>1, <3>2, <3>4
    <3>9. received <= sent
      <4>1. Cardinality(replySeq) <= Cardinality(sentSeq) /\ received \in Nat
        BY <2>1, <3>8, FS_Subset
      <4> QED
        BY <3>6, <3>7, <4>1
    <3> HIDE DEF sent, sentSeq, received, replySeq
    <3> QED
      BY <1>4, <1>5, <2>2, <3>6, <3>7, <3>8, <3>9 DEF HopOK
  <2>4. CASE ~Numbered /\ seq = 0
    <3>1. received <= sent
      BY <2>1, <2>4
    <3> HIDE DEF sent, sentSeq, received, replySeq
    <3> QED
      BY <1>4, <1>5, <2>2, <2>4, <3>1 DEF HopOK
  <2> QED
    BY <1>3, <2>3, <2>4
<1>7. HopsOK' /\ Cycles <= Cycles'
  BY <1>2, <1>6, SetHopKeeps, SameHopsKeep DEF stats
<1> QED
  BY <1>2, <1>7, QuietLineKeeps

LEMMA EndsAs ==
    ASSUME NEW kind, NEW reason, NEW cut, Ends(kind, reason, cut)
    PROVE  mtrResult'.summary = kind /\ mtrResult'.err = reason /\ mtrResult'.stopped = cut
BY DEF Ends

(* The end of the raw output: the summary of the cycles that were probed is *)
(* the last one handed out.                                                 *)
LEMMA RawEndsKeeps ==
    ASSUME MTRInv, NEW scanOK, NEW cmdOK, NEW ctxOK, NEW reportOK,
           RawEnds(scanOK, cmdOK, ctxOK, reportOK)
    PROVE  MTRInv'
<1> DEFINE count == Smaller(Cycles, ReportCycles)
<1>1. HopsOK' /\ Cycles <= Cycles'
  BY SameHopsKeep DEF RawEnds
<1>2. /\ UNCHANGED <<dialect, hops, lastEmitted>> /\ mtrResult.summary = ""
  BY DEF RawEnds
<1>3. Cycles \in Nat /\ Cycles' = Cycles
  BY <1>2 DEF MTRInv, HopsOK, HopOK, SentCount, Cycles
<1>4. ReportCycles \in Nat \ {0}
  BY MTRAssumption
<1>5. lastEmitted \in Nat
  BY DEF MTRInv, EmittedOK
<1>6. lastEmitted <= ReportCycles
  BY DEF MTRInv, EmittedOK
<1>7. lastEmitted <= Cycles
  BY DEF MTRInv, EmittedOK
<1>8. /\ emitted \in Seq(Nat) /\ Climbs(emitted)
      /\ Len(emitted) = 0 => lastEmitted = 0
      /\ Len(emitted) # 0 => emitted[Len(emitted)] = lastEmitted
  BY <1>2 DEF MTRInv, EmittedOK
<1>9. \A i \in 1 .. Len(emitted) : emitted[i] <= ReportCycles
  BY DEF MTRInv, MTRResultOK
<1>10. CASE scanOK /\ transmitted /\ Cycles > 0
  <2>1. /\ completedCount' = count
        /\ emitted' = IF count > lastEmitted THEN Append(emitted, count) ELSE emitted
    BY <1>10 DEF RawEnds, Cycles
  <2>2. \/ Ends("raw", "context", TRUE)
        \/ Ends("raw", "command", TRUE)
        \/ Ends("raw", "short", TRUE)
        \/ Ends("raw", "", FALSE) /\ ~(Cycles < ReportCycles)
    BY <1>10 DEF RawEnds, Cycles
  <2>3. count \in Nat /\ count <= ReportCycles /\ count > 0 /\ lastEmitted <= count
    BY <1>3, <1>4, <1>5, <1>6, <1>7, <1>10 DEF Smaller
  <2>4. ~(Cycles < ReportCycles) => count = ReportCycles
    BY <1>3, <1>4 DEF Smaller
  <2> HIDE DEF count
  <2>5. /\ emitted' \in Seq(Nat) /\ Len(emitted') # 0 /\ emitted'[Len(emitted')] = count
        /\ Climbs(emitted') /\ \A i \in 1 .. Len(emitted') : emitted'[i] <= ReportCycles
    <3>1. CASE count > lastEmitted
      <4>1. emitted' = Append(emitted, count)
        BY <2>1, <3>1
      <4>2. Len(emitted) # 0 => emitted[Len(emitted)] <= count
        BY <1>8, <2>3
      <4>3. ReportCycles \in Nat
        BY <1>4
      <4> QED
        BY <1>8, <1>9, <2>3, <4>1, <4>2, <4>3, AppendClimbs
    <3>2. CASE ~(count > lastEmitted)
      <4>1. emitted' = emitted /\ count = lastEmitted
        BY <1>5, <2>1, <2>3, <3>2
      <4>2. Len(emitted) # 0
        BY <1>8, <2>3, <4>1
      <4> QED
        BY <1>8, <1>9, <4>1, <4>2
    <3> QED
      BY <3>1, <3>2
  <2>6. mtrResult'.summary = "raw"
    BY <2>2, EndsAs, Zenon
  <2>7. mtrResult'.err = "" => completedCount' = ReportCycles
    <3>1. mtrResult'.err = "" => ~(Cycles < ReportCycles)
      BY <2>2, EndsAs, "context" # "", "command" # "", "short" # "", Zenon
    <3> QED
      BY <2>1, <2>4, <3>1
  <2>8. StoppedOK'
    <3>1. mtrResult'.stopped = (mtrResult'.err # "")
      BY <2>2, EndsAs, "context" # "", "command" # "", "short" # "", Zenon
    <3> QED
      BY <3>1, Zenon DEF StoppedOK
  <2>9. EmittedOK'
    <3>1. /\ emitted' \in Seq(Nat) /\ Climbs(emitted') /\ Len(emitted') # 0
      BY <2>5
    <3>2. lastEmitted' \in Nat
      BY <1>2, <1>5
    <3>3. lastEmitted' <= ReportCycles
      BY <1>2, <1>6
    <3>4. lastEmitted' <= Cycles'
      BY <1>2, <1>3, <1>7
    <3> QED
      BY <2>6, <3>1, <3>2, <3>3, <3>4 DEF EmittedOK
  <2>10. MTRResultOK'
    BY <2>1, <2>5, <2>7 DEF MTRResultOK
  <2> QED
    BY <1>1, <2>8, <2>9, <2>10 DEF MTRInv
<1>11. CASE ~(scanOK /\ transmitted /\ Cycles > 0)
  <2>1. UNCHANGED <<completedCount, emitted>>
    BY <1>11 DEF RawEnds, Cycles
  <2>2. mtrResult'.summary # "raw" /\ mtrResult'.summary # ""
    <3>1. \/ Ends("none", "context", FALSE)
          \/ Ends("report", "", FALSE)
          \/ Ends("none", "failed", FALSE)
      BY <1>11 DEF RawEnds, Cycles
    <3>2. mtrResult'.summary \in {"none", "report"}
      BY <3>1, EndsAs, Zenon
    <3> QED
      BY <3>2
  <2>3. EmittedOK'
    <3>1. lastEmitted' \in Nat
      BY <1>2, <1>5
    <3>2. lastEmitted' <= ReportCycles
      BY <1>2, <1>6
    <3>3. lastEmitted' <= Cycles'
      BY <1>2, <1>3, <1>7
    <3>4. /\ emitted' \in Seq(Nat) /\ Climbs(emitted')
          /\ Len(emitted') = 0 => lastEmitted' = 0
      BY <1>2, <1>8, <2>1
    <3> QED
      BY <2>2, <3>1, <3>2, <3>3, <3>4 DEF EmittedOK
  <2>4. MTRResultOK'
    BY <1>9, <2>1, <2>2 DEF MTRResultOK
  <2>5. StoppedOK'
    BY <2>2 DEF StoppedOK
  <2> QED
    BY <1>1, <2>3, <2>4, <2>5 DEF MTRInv
<1> QED
  BY <1>10, <1>11

LEMMA MTRStep == ASSUME MTRInv, [MTRNext]_mtrVars PROVE MTRInv'
<1>1. CASE UNCHANGED mtrVars
  <2>1. HopsOK' /\ Cycles <= Cycles'
    BY <1>1, SameHopsKeep DEF mtrVars
  <2> QED
    BY <1>1, <2>1, QuietLineKeeps DEF mtrVars
<1>2. ASSUME NEW e \in dialect, e.kind = "x", Transmit(e.hop, e.seq)
      PROVE  MTRInv'
  BY <1>2, TransmitKeeps
<1>3. ASSUME NEW e \in dialect, e.kind = "h", SetPath(e.hop, e.path)
      PROVE  MTRInv'
  BY <1>3, SetPathKeeps
<1>4. ASSUME NEW e \in dialect, e.kind = "p", ReplyLine(e.hop, e.seq)
      PROVE  MTRInv'
  BY <1>4, ReplyLineKeeps
<1>5. ASSUME NEW scanOK \in BOOLEAN, NEW cmdOK \in BOOLEAN, NEW ctxOK \in BOOLEAN,
             NEW reportOK \in BOOLEAN, RawEnds(scanOK, cmdOK, ctxOK, reportOK)
      PROVE  MTRInv'
  BY <1>5, RawEndsKeeps
<1> QED
  BY <1>1, <1>2, <1>3, <1>4, <1>5 DEF MTRNext

LEMMA MTRInvTells == ASSUME MTRInv PROVE MTRCountsAreCoherent
<1>1. ASSUME NEW h \in DOMAIN hops
      PROVE  /\ hops[h].received <= hops[h].sent
             /\ MapThenSumSet(LAMBDA p : hops[h].paths[p], DOMAIN hops[h].paths) <= hops[h].received
  <2> DEFINE g == hops[h].paths
             total == MapThenSumSet(LAMBDA p : g[p], DOMAIN g)
  <2>1. HopOK(hops[h])
    BY DEF MTRInv, HopsOK
  <2>2. hops[h].received <= hops[h].sent
    BY <2>1 DEF HopOK
  <2>3. IsFiniteSet(DOMAIN g) /\ (\A p \in DOMAIN g : g[p] \in Nat)
    BY <2>1 DEF HopOK
  <2>4. Total(g, DOMAIN g) <= hops[h].received
    BY <2>1 DEF HopOK
  <2> HIDE DEF g
  <2>5. total = Total(g, DOMAIN g)
    BY <2>3, SumIsTotal
  <2>6. total <= hops[h].received
    <3> HIDE DEF total
    <3> QED
      BY <2>4, <2>5
  <2> QED
    BY <2>2, <2>6 DEF g
<1>2. DOMAIN emitted = 1 .. Len(emitted)
  <2>1. emitted \in Seq(Nat)
    BY DEF MTRInv, EmittedOK
  <2> QED
    BY <2>1
<1>3. ASSUME NEW i \in DOMAIN emitted, NEW j \in DOMAIN emitted, i <= j
      PROVE  emitted[i] <= emitted[j] /\ emitted[j] <= ReportCycles
  <2>1. Climbs(emitted)
    BY DEF MTRInv, EmittedOK
  <2>2. emitted[i] <= emitted[j]
    BY <1>2, <1>3, <2>1 DEF Climbs
  <2>3. emitted[j] <= ReportCycles
    BY <1>2 DEF MTRInv, MTRResultOK
  <2> QED
    BY <2>2, <2>3
<1>4. ASSUME mtrResult.summary = "raw"
      PROVE  /\ mtrResult.err = "" => completedCount = ReportCycles
             /\ Len(emitted) # 0 /\ emitted[Len(emitted)] = completedCount
  BY <1>4 DEF MTRInv, MTRResultOK
<1>5. mtrResult.summary = "raw" => mtrResult.stopped = (mtrResult.err # "")
  BY DEF MTRInv, StoppedOK
<1>6. mtrResult.summary = "raw" => emitted # <<>>
  <2>1. Len(emitted) # 0 => emitted # <<>>
    OBVIOUS
  <2> QED
    BY <1>4, <2>1, Zenon
<1> QED
  BY <1>1, <1>3, <1>4, <1>5, <1>6, Zenon DEF MTRCountsAreCoherent

(* Whatever lines are lost, repeated or reordered, no hop of the mtr probe  *)
(* answers more than it was asked nor its paths more than the hop, progress *)
(* only grows, and only a run of every cycle ends without an error.         *)
THEOREM CountsCohere == MTRSpec => []MTRCountsAreCoherent
<1>1. MTRInit => MTRInv
  BY MTRStarts
<1>2. MTRInv /\ [MTRNext]_mtrVars => MTRInv'
  BY MTRStep
<1>3. MTRInv => MTRCountsAreCoherent
  BY MTRInvTells
<1> QED
  BY <1>1, <1>2, <1>3, PTL DEF MTRSpec
=============================================================================
