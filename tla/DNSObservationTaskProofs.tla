----------------------- MODULE DNSObservationTaskProofs -----------------------
(***************************************************************************)
(* What holds of the dns_propagation tasks of a process for any requests,  *)
(* any number of workers, any capacity of the gate and any replies; and of *)
(* the data of one response (DNSResponseData), for any records, any names, *)
(* any length of the alias chain and any limits.                           *)
(***************************************************************************)
EXTENDS DNSObservationTask, DNSResponseData, ListLemmas, FiniteSetTheorems,
        SequenceTheorems, TLAPS

(* Sequences of whatever, so that the elements need no type.                *)
IsSeq(s) == \E S : s \in Seq(S)

\* Sequences stay sequences.
LEMMA SequencesGrow ==
    ASSUME NEW s, IsSeq(s), NEW t, IsSeq(t), NEW a
    PROVE  /\ IsSeq(<<a>>) /\ IsSeq(Append(s, a)) /\ IsSeq(s \o t)
           /\ Len(s) \in Nat /\ Len(Append(s, a)) = Len(s) + 1 /\ Len(s \o t) = Len(s) + Len(t)
<1> PICK S : s \in Seq(S)
  BY DEF IsSeq
<1> PICK T : t \in Seq(T)
  BY DEF IsSeq
<1> DEFINE U == S \cup T \cup {a}
<1>1. \A A, B : A \subseteq B => Seq(A) \subseteq Seq(B)
  OBVIOUS
<1>2. s \in Seq(U) /\ t \in Seq(U) /\ a \in U
  BY <1>1
<1> HIDE DEF U
<1>3. <<a>> \in Seq(U) /\ Append(s, a) \in Seq(U) /\ s \o t \in Seq(U)
  BY <1>2
<1>4. Len(s) \in Nat /\ Len(Append(s, a)) = Len(s) + 1 /\ Len(s \o t) = Len(s) + Len(t)
  BY <1>2
<1> QED
  BY <1>3, <1>4 DEF IsSeq

(* A result of the engine, whose content was read from the attempt it names *)
(* as its owner.                                                            *)
ResultFields == {"attempts", "fallback", "owner", "parsed", "header", "outcome", "truncated",
                 "tcFlag", "from", "pending"}
IsResult(r) == r = [f \in ResultFields |-> r[f]] /\ IsSeq(r.attempts)
Owns(r) == IsResult(r) /\ (r.from # 0 => r.from = r.owner)

(* The results of the wire engine are such results: one attempt ...         *)
LEMMA EngineOwns ==
    ASSUME NEW proto, NEW q
    PROVE  Owns(SingleAttempt(proto, q).res) /\ Owns(TruncatedUDP(q))
<1>1. ASSUME NEW p
      PROVE  IsResult(Bare(p, q)) /\ Bare(p, q).from = 0 /\ Bare(p, q).owner = 1
  <2> PICK s : s = <<AttemptOf(p, q)>>
    OBVIOUS
  <2>1. IsSeq(s)
    <3>1. s \in Seq({AttemptOf(p, q)})
      <4> HIDE DEF AttemptOf
      <4> QED
        OBVIOUS
    <3> QED
      BY <3>1 DEF IsSeq
  <2>2. /\ Bare(p, q) = [f \in ResultFields |-> Bare(p, q)[f]]
        /\ Bare(p, q).attempts = s /\ Bare(p, q).from = 0 /\ Bare(p, q).owner = 1
    BY DEF Bare, ResultFields
  <2> QED
    BY <2>1, <2>2 DEF IsResult
<1>3. ASSUME NEW r, IsResult(r), r.owner = 1
      PROVE  Owns(Composed(r, q, 1)) /\ Owns(HeaderOnly(r, 1))
  BY <1>3 DEF Owns, IsResult, ResultFields, Composed, HeaderOnly
<1>4. ASSUME NEW r, IsResult(r), r.from = 0, NEW p
      PROVE  Owns([r EXCEPT !.outcome = "malformed", !.pending = p])
  BY <1>4 DEF Owns, IsResult, ResultFields
<1>5. Owns(SingleAttempt(proto, q).res)
  <2> PICK r : r = Bare(proto, q)
    OBVIOUS
  <2>1. IsResult(r) /\ r.from = 0 /\ r.owner = 1 /\ Owns(r)
    BY <1>1 DEF Owns
  <2> QED
    BY <1>3, <1>4, <2>1 DEF SingleAttempt, Exchange
<1>6. Owns(TruncatedUDP(q))
  BY <1>1, <1>3 DEF TruncatedUDP
<1> QED
  BY <1>5, <1>6

(* ... the TCP attempt that replaces a truncated response ...               *)
LEMMA FallbackOwns ==
    ASSUME NEW udp, Owns(udp), NEW q
    PROVE  Owns(WithFallback(udp, q).res)
<1> DEFINE r == [udp EXCEPT !.attempts = Append(@, AttemptOf("tcp", q)), !.fallback = TRUE]
           tcp == [r EXCEPT !.owner = 2]
<1>1. Owns(r)
  <2> DEFINE a == Append(udp.attempts, AttemptOf("tcp", q))
  <2>1. r = [udp EXCEPT !.attempts = a, !.fallback = TRUE]
    OBVIOUS
  <2>2. IsSeq(a)
    BY SequencesGrow DEF Owns, IsResult
  <2> HIDE DEF a, r
  <2> QED
    BY <2>1, <2>2 DEF Owns, IsResult, ResultFields
<1> HIDE DEF r
<1>2. IsResult(tcp) /\ tcp.owner = 2
  BY <1>1 DEF Owns, IsResult, ResultFields
<1>3. ASSUME NEW s, IsResult(s), s.owner = 2
      PROVE  Owns(Composed(s, q, 2)) /\ Owns(HeaderOnly(s, 2)) /\ Owns(Cleared(s))
  BY <1>3 DEF Owns, IsResult, ResultFields, Composed, HeaderOnly, Cleared
<1> HIDE DEF tcp
<1> QED
  BY <1>1, <1>2, <1>3 DEF WithFallback, Exchange, r, tcp

(* ... and a retry joined to the exchange before it.                        *)
LEMMA RetryOwns ==
    ASSUME NEW first, Owns(first), NEW retry, Owns(retry), NEW err
    PROVE  Owns(WholeRetry(first, retry)) /\ Owns(FallbackRetry(first, retry, err))
<1>1. ASSUME NEW n
      PROVE  Owns(Shifted(retry, n))
  <2> DEFINE later(i) == IF i = 0 THEN 0 ELSE i + n
  <2>1. Shifted(retry, n) = [retry EXCEPT !.owner = later(retry.owner), !.from = later(retry.from),
                                          !.pending = later(retry.pending)]
    BY DEF Shifted
  <2>2. \A i, j : i = j => later(i) = later(j)
    OBVIOUS
  <2>3. later(0) = 0
    OBVIOUS
  <2> HIDE DEF later
  <2> QED
    BY <2>1, <2>2, <2>3 DEF Owns, IsResult, ResultFields
<1>2. ASSUME NEW r, Owns(r), NEW s, IsSeq(s), NEW f
      PROVE  Owns([r EXCEPT !.attempts = s]) /\ Owns([r EXCEPT !.fallback = f])
  BY <1>2 DEF Owns, IsResult, ResultFields
<1> PICK s : s = first.attempts \o retry.attempts
  OBVIOUS
<1>3. IsSeq(s)
  BY SequencesGrow DEF Owns, IsResult
<1>4. Owns(WholeRetry(first, retry))
  <2>1. WholeRetry(first, retry) = [Shifted(retry, Len(first.attempts)) EXCEPT !.attempts = s]
    BY DEF WholeRetry
  <2> PICK r : r = Shifted(retry, Len(first.attempts))
    OBVIOUS
  <2>2. WholeRetry(first, retry) = [r EXCEPT !.attempts = s]
    BY <2>1
  <2>3. Owns([r EXCEPT !.attempts = s])
    <3>1. Owns(r)
      BY <1>1
    <3> QED
      BY <1>2, <1>3, <3>1
  <2> QED
    BY <2>2, <2>3
<1>5. Owns([WholeRetry(first, retry) EXCEPT !.fallback = TRUE])
  BY <1>2, <1>3, <1>4
<1>6. Owns([first EXCEPT !.attempts = @ \o retry.attempts])
  <2>1. [first EXCEPT !.attempts = @ \o retry.attempts] = [first EXCEPT !.attempts = s]
    OBVIOUS
  <2> QED
    BY <1>2, <1>3, <2>1
<1> QED
  BY <1>4, <1>5, <1>6 DEF FallbackRetry

(* A header promoted to be the evidence is that of the attempt it names.    *)
LEMMA PromotedOwns ==
    ASSUME NEW r, Owns(r), NEW err
    PROVE  /\ Owns(Promoted(r, err))
           /\ Promoted(r, err).attempts = r.attempts /\ Promoted(r, err).fallback = r.fallback
<1>1. ASSUME NEW n
      PROVE  HeaderOnly(r, n).attempts = r.attempts /\ HeaderOnly(r, n).fallback = r.fallback
  BY DEF Owns, IsResult, ResultFields, HeaderOnly
<1>2. ASSUME NEW n, r.owner = n
      PROVE  Owns(HeaderOnly(r, n))
  BY <1>2 DEF Owns, IsResult, ResultFields, HeaderOnly
<1> QED
  BY <1>1, <1>2 DEF Promoted

(* The checks of ToObservation make that attempt the owner of the evidence. *)
LEMMA ObservationHasOwner ==
    ASSUME NEW endpoint, NEW r, Owns(r), NEW err, NEW terminal, Convertible(r, err, terminal)
    PROVE  LET o == ObservationOf(endpoint, r, err, terminal)
           IN  o.from # 0 => o.from = o.owner
<1> DEFINE o == ObservationOf(endpoint, r, err, terminal)
           i == EvidenceAttempt(r, err)
           evident == r.parsed \/ r.header
<1>1. o.from = (IF evident THEN r.from ELSE 0) /\ o.owner = i
  BY DEF ObservationOf
<1>2. evident => r.owner = i
  <2>1. /\ err # "" /\ evident => RetainedUDP(r, err) \/ RetainedTCP(r, err)
        /\ err = "" => Provenance(r, i, TRUE)
        /\ RetainedUDP(r, err) => Provenance(r, i, TRUE)
        /\ Malformed(err) /\ i # 0 => Provenance(r, i, RetainedTCP(r, err))
    <3> HIDE DEF i
    <3> QED
      BY DEF Convertible, i
  <2>2. RetainedTCP(r, err) => Malformed(err) /\ i # 0
    <3>1. RetainedTCP(r, err) => Malformed(err) /\ r.fallback /\ i = Len(r.attempts)
      BY DEF RetainedTCP, RetainedHeader, EvidenceAttempt
    <3>2. r.fallback => FallbackSequence(r.attempts)
      BY DEF Convertible
    <3>3. FallbackSequence(r.attempts) => Len(r.attempts) # 0
      BY DEF FallbackSequence
    <3> QED
      BY <3>1, <3>2, <3>3
  <2> HIDE DEF i, evident
  <2> QED
    BY <2>1, <2>2 DEF Provenance
<1> QED
  BY <1>1, <1>2 DEF Owns

\* A function on 1 .. n is a sequence of length n.
LEMMA TabulatedLength ==
    ASSUME NEW n \in Nat, NEW s, s = [j \in 1 .. n |-> s[j]]
    PROVE  Len(s) = n /\ (n # 0 => n \in 1 .. n)
<1>1. s \in Seq({s[j] : j \in 1 .. n})
  OBVIOUS
<1> QED
  BY <1>1

(* An observation without an attempt is one the contract knows.             *)
LEMMA UnattemptedIsAccepted ==
    ASSUME NEW endpoint, NEW o \in {ExecutionFailure(endpoint), CancelledObservation(endpoint)}
    PROVE  /\ ObservationAccepted(o) /\ o.endpoint = endpoint /\ o.from = 0
           /\ Len(o.attempts) + RetryGapAttempts(o) = 0
<1>1. Len(<<>>) = 0
  OBVIOUS
<1>2. /\ o.endpoint = endpoint /\ o.proto = endpoint /\ ~o.fallback /\ o.attempts = <<>>
      /\ o.owner = 0 /\ o.meta = 0 /\ o.observedAt = 0 /\ o.from = 0
      /\ ~o.truncated /\ o.truncated = o.tcFlag /\ ~o.tcFlag /\ ~o.qr /\ ~o.retryable
      /\ o.outcome = "not_observed"
      /\ \/ o.status = "network_error" /\ o.code = "INTERNAL_ERROR"
         \/ o.status = "cancelled" /\ o.code = "CANCELLED"
  <2>1. CASE o = ExecutionFailure(endpoint)
    BY <2>1 DEF ExecutionFailure, Unattempted
  <2>2. CASE o = CancelledObservation(endpoint)
    BY <2>2 DEF CancelledObservation, Unattempted
  <2> QED
    BY <2>1, <2>2
<1>3. Len(o.attempts) = 0
  BY <1>1, <1>2
<1>4. TranscriptAccepted(o)
  <2>1. 0 <= AttemptBound /\ 0 \in 0 .. 0
    BY DEF AttemptBound
  <2> QED
    BY <1>2, <1>3, <2>1 DEF TranscriptAccepted
<1>5. ResponseAccepted(o) /\ ErrorAccepted(o) /\ ZeroAttemptAccepted(o)
  BY <1>2, <1>3 DEF ResponseAccepted, RetainedTruncatedUDP, ErrorAccepted, StatusMatchesCode,
                    ZeroAttemptAccepted
<1>6. RetryGapAttempts(o) = 0
  BY <1>3 DEF RetryGapAttempts
<1> QED
  BY <1>2, <1>3, <1>4, <1>5, <1>6 DEF ObservationAccepted

(* The retry of an exchange, and its own TCP fallback, are in the budget.   *)
Slot(endpoint, r, max) ==
    IF r.fallback THEN Len(r.attempts) < max ELSE CanRetry(endpoint, Len(r.attempts), max)

(* An observation the contract accepts leaves room for the retry that an    *)
(* interruption cut short, if there was a slot for one whenever its status  *)
(* is not that of its last attempt.                                         *)
LEMMA GapFits ==
    ASSUME NEW o, ObservationAccepted(o), Len(o.attempts) \in Nat,
           NEW max \in Nat, Len(o.attempts) <= max,
           /\ Len(o.attempts) # 0 /\ o.status \in {"cancelled", "timeout"}
           /\ Final(o).status \notin {"success", o.status}
           => Slot(o.endpoint, o, max)
    PROVE  Len(o.attempts) + RetryGapAttempts(o) <= max
<1> PICK n : n = Len(o.attempts)
  OBVIOUS
<1>1. RetryGapAttempts(o) \in {0, 1, 2}
  BY DEF RetryGapAttempts
<1>2. CASE RetryGapAttempts(o) = 0
  BY <1>2
<1>3. CASE RetryGapAttempts(o) # 0
  <2>1. n # 0 /\ RetryGapShape(o) /\ o.status # Final(o).status
    BY <1>3 DEF RetryGapAttempts
  <2>2. AttemptContractAccepted(o)
    BY <2>1 DEF ObservationAccepted
  <2>3. o.status \in {"cancelled", "timeout"} /\ Final(o).status # "success"
    BY <2>1, <2>2 DEF AttemptContractAccepted
  <2>4. Slot(o.endpoint, o, max)
    BY <2>1, <2>3
  <2>5. CASE o.fallback
    <3>1. RetryGapAttempts(o) = 1
      BY <1>3, <2>1, <2>5 DEF RetryGapAttempts
    <3> QED
      BY <2>4, <2>5, <3>1 DEF Slot
  <2>6. CASE ~o.fallback
    <3>1. n + 1 <= max /\ (o.endpoint = "udp" => n + 2 <= max)
      <4>1. CanRetry(o.endpoint, n, max)
        BY <2>4, <2>6 DEF Slot
      <4>2. CASE o.endpoint = "udp"
        BY <4>1, <4>2 DEF CanRetry
      <4>3. CASE o.endpoint # "udp"
        BY <4>1, <4>3 DEF CanRetry
      <4> QED
        BY <4>2, <4>3
    <3>2. CASE Final(o).proto # "udp"
      <4>1. RetryGapAttempts(o) = 1
        BY <1>3, <2>6, <3>2 DEF RetryGapAttempts
      <4> QED
        BY <3>1, <4>1
    <3>3. CASE Final(o).proto = "udp"
      <4>1. n = 1 /\ o.attempts[1].proto = o.endpoint
        <5>1. Len(o.attempts) = 1 /\ o.attempts[1].proto = o.endpoint
          BY <2>1, <2>6, Zenon DEF RetryGapShape
        <5> QED
          BY <5>1
      <4>2. o.endpoint = "udp"
        BY <3>3, <4>1 DEF Final
      <4> QED
        BY <1>1, <3>1, <4>1, <4>2
    <3> QED
      BY <3>2, <3>3
  <2> QED
    BY <2>5, <2>6
<1> QED
  BY <1>2, <1>3

Observes(o, endpoint, r, err, terminal) == o = ObservationOf(endpoint, r, err, terminal)

(* That holds of every observation of an exchange: without a decision of    *)
(* the task its status is that of its last attempt.                         *)
LEMMA ObservationFits ==
    ASSUME NEW endpoint, NEW r, IsSeq(r.attempts), NEW err, NEW terminal,
           Convertible(r, err, terminal),
           NEW max \in Nat, Len(r.attempts) <= max, terminal # "" => Slot(endpoint, r, max),
           NEW o, Observes(o, endpoint, r, err, terminal), ObservationAccepted(o)
    PROVE  o.endpoint = endpoint /\ Len(o.attempts) + RetryGapAttempts(o) <= max
<1> PICK n : n = Len(r.attempts)
  OBVIOUS
<1>1. n \in Nat
  BY SequencesGrow DEF IsSeq
<1>2. /\ o.attempts = [j \in 1 .. n |-> PublicAttempt(r, j, EvidenceAttempt(r, err))]
      /\ o.fallback = r.fallback /\ o.endpoint = endpoint
      /\ o.status = ClassOf(IF terminal # "" THEN terminal ELSE err)
  BY DEF Observes, ObservationOf
<1>3. o.attempts = [j \in 1 .. n |-> o.attempts[j]]
  <2> HIDE DEF PublicAttempt
  <2> QED
    BY <1>2
<1>4. Len(o.attempts) = n
  BY <1>1, <1>3, TabulatedLength
<1>5. n # 0 => Final(o).status = PublicStatus(LastAttempt(r))
  <2>1. ASSUME NEW i
        PROVE  PublicAttempt(r, n, i).status = PublicStatus(r.attempts[n])
    BY DEF PublicAttempt
  <2>2. n # 0 => n \in 1 .. n
    BY <1>1, <1>3, TabulatedLength, Zenon
  <2>3. n # 0 => Final(o) = PublicAttempt(r, n, EvidenceAttempt(r, err))
    <3> DEFINE public(j) == PublicAttempt(r, j, EvidenceAttempt(r, err))
    <3>1. o.attempts = [j \in 1 .. n |-> public(j)]
      BY <1>2
    <3> HIDE DEF public
    <3>2. n # 0 => o.attempts[n] = public(n)
      BY <2>2, <3>1
    <3> QED
      BY <1>4, <3>2 DEF Final, public
  <2> QED
    BY <2>1, <2>3 DEF LastAttempt
<1>6. ASSUME n # 0, o.status \in {"cancelled", "timeout"},
             Final(o).status \notin {"success", o.status}
      PROVE  Slot(endpoint, r, max)
  <2> SUFFICES ASSUME terminal = ""
               PROVE  FALSE
    OBVIOUS
  <2>1. err = o.status /\ err # "" /\ ~Malformed(err) /\ err \in {"cancelled", "timeout"}
    BY <1>2, <1>6 DEF ClassOf, Malformed
  <2>2. LastAttempt(r).err = err
    BY <2>1 DEF Convertible
  <2>3. PublicStatus(LastAttempt(r)) = err
    BY <2>1, <2>2 DEF PublicStatus
  <2> QED
    BY <1>5, <1>6, <2>1, <2>3
<1>7. Slot(endpoint, r, max) => Slot(o.endpoint, o, max)
  BY <1>2, <1>4 DEF Slot
<1>8. Len(o.attempts) + RetryGapAttempts(o) <= max
  <2>1. n <= max
    OBVIOUS
  <2> HIDE DEF ObservationAccepted
  <2> QED
    BY <1>1, <1>4, <1>6, <1>7, <2>1, GapFits
<1> QED
  BY <1>2, <1>8

-----------------------------------------------------------------------------
Held(t, i) == \E w \in Workers(t) : worker[t][w] = i
Queued(t, i) == \E n \in DOMAIN jobs[t] : jobs[t][n] = i
Out(t) == completed[t] \cup observations[t]

TaskTypeOK ==
    /\ req \in Requests
    /\ ctx \in [Tasks -> {"live", "cancelled", "timeout"}]
    /\ phase \in [Tasks -> {"decoded", "running", "reported"}]
    /\ firstErr \in [Tasks -> BOOLEAN]
    /\ report = [t \in Tasks |-> report[t]]
    /\ jobs = [t \in Tasks |-> jobs[t]] /\ \A t \in Tasks : jobs[t] \in Seq(Ops(t))
    /\ worker = [t \in Tasks |-> worker[t]]
    /\ \A t \in Tasks : worker[t] \in [Workers(t) -> Ops(t) \cup {0}]
    /\ op = [t \in Tasks |-> op[t]] /\ \A t \in Tasks : op[t] = [i \in Ops(t) |-> op[t][i]]
    /\ completed = [t \in Tasks |-> completed[t]] /\ \A t \in Tasks : completed[t] \subseteq Ops(t)
    /\ observations = [t \in Tasks |-> observations[t]]
    /\ \A t \in Tasks : observations[t] \subseteq Ops(t)

(* An operation of a running task is in one place at a time: in the jobs    *)
(* channel, with one worker, or out.                                        *)
PlacesOK ==
    \A t \in Tasks :
        /\ phase[t] = "running" => \A i \in Ops(t) : Queued(t, i) \/ Held(t, i) \/ i \in Out(t)
        /\ \A i \in Ops(t) : Held(t, i) \/ Queued(t, i) => phase[t] = "running" /\ i \notin Out(t)
        /\ \A i \in Ops(t) : ~(Held(t, i) /\ Queued(t, i))
        /\ \A v, w \in Workers(t) : worker[t][v] = worker[t][w] /\ worker[t][v] # 0 => v = w
        /\ \A m, n \in DOMAIN jobs[t] : jobs[t][m] = jobs[t][n] => m = n
        /\ phase[t] = "decoded" => Out(t) = {}

ExecFields == {"stage", "kind", "held", "now", "gated", "cause", "obs"}

\* What the attempt limit of an exchange comes to.
LEMMA NotGreater == ASSUME NEW n \in Nat, NEW max \in Nat, ~(n > max) PROVE n <= max
OBVIOUS

(* What an operation may end with: evidence with one owner, no cancellation *)
(* of a live context, and what the contract of its request accepts.         *)
Truthful(t, i, o) ==
    /\ o.from # 0 => o.from = o.owner
    /\ o.status = "cancelled" => ctx[t] # "live"
    /\ ObservationAccepted(o) /\ o.endpoint = Endpoint(t, i)
    /\ Len(o.attempts) + RetryGapAttempts(o) <= req[t].maxAttempts

HasSlot(t, i, r) == Slot(Endpoint(t, i), r, req[t].maxAttempts)

(* What an execution holds on its way.                                      *)
ExecOK(t, i, x) ==
    /\ x = [f \in ExecFields |-> x[f]]
    /\ x.stage \in {"queued", "attempt", "fallback", "wait", "done"}
    /\ x.kind # "first" => Owns(x.held.res)
    /\ x.stage = "wait" => x.kind # "first" /\ HasSlot(t, i, x.held.res)
    /\ x.stage = "fallback" => Owns(x.now.res)
    /\ x.stage = "done" => Truthful(t, i, x.obs)

(* Tokens of the gate are held by workers that run an exchange.             *)
ExecsOK ==
    \A t \in Tasks : \A i \in Ops(t) :
        /\ ExecOK(t, i, op[t][i])
        /\ op[t][i].gated => Held(t, i) /\ op[t][i].stage # "queued"
        /\ i \in Out(t) => op[t][i].stage = "done"
        /\ op[t][i].stage = "done" => i \in Out(t)

ReportsOK ==
    \A t \in Tasks :
        /\ report[t] # "" => phase[t] = "reported"
        /\ report[t] # "batch_rejected"
        /\ \A i \in observations[t] : op[t][i].cause # "" => firstErr[t]

TaskInv == TaskTypeOK /\ PlacesOK /\ ExecsOK /\ ReportsOK /\ ReportTellsFailures

-----------------------------------------------------------------------------
(* What RequestsAssumption says of one task.                                *)
LEMMA RequestFacts ==
    ASSUME req \in Requests, NEW t \in Tasks
    PROVE  /\ Len(req[t].endpoints) \in Nat /\ Ops(t) = 1 .. Len(req[t].endpoints)
           /\ Workers(t) # {} /\ 0 \notin Ops(t) /\ Ops(t) # {}
           /\ req[t].parallel \in Nat /\ req[t].maxAttempts \in 1 .. AttemptBound
           /\ req[t].maxAttempts \in Nat
<1> DEFINE R == [mode : {"recursive", "iterative"}, kind : {"system", "catalog"},
                 endpoints : Seq(Protocols), parallel : Nat, maxAttempts : 1 .. AttemptBound,
                 few : BOOLEAN]
<1>1. req \in Seq(R) /\ req[t].parallel \in 1 .. Len(req[t].endpoints)
  BY RequestsAssumption DEF Tasks
<1>2. req[t] \in R
  <2> HIDE DEF R
  <2> QED
    BY <1>1 DEF Tasks
<1>3. req[t].endpoints \in Seq(Protocols) /\ req[t].maxAttempts \in 1 .. AttemptBound
  BY <1>2
<1> HIDE DEF R
<1> PICK e, p, m : e = req[t].endpoints /\ p = req[t].parallel /\ m = req[t].maxAttempts
  OBVIOUS
<1>4. Len(e) \in Nat /\ DOMAIN e = 1 .. Len(e) /\ p \in 1 .. Len(e)
  BY <1>1, <1>3
<1>5. p \in Nat /\ 1 \in 1 .. p /\ 1 \in 1 .. Len(e) /\ 0 \notin 1 .. Len(e)
  BY <1>4
<1>6. Ops(t) = 1 .. Len(e) /\ Workers(t) = 1 .. p
  BY <1>4 DEF Ops, Workers
<1>7. \A n \in 1 .. AttemptBound : n \in Nat
  OBVIOUS
<1> QED
  BY <1>3, <1>4, <1>5, <1>6, <1>7

LEMMA TasksStart == Init => TaskInv
<1> SUFFICES ASSUME Init
             PROVE  TaskInv
  OBVIOUS
<1>1. TaskTypeOK
  <2>1. \A t \in Tasks : jobs[t] \in Seq(Ops(t))
    <3>1. ASSUME NEW S
          PROVE  <<>> \in Seq(S)
      OBVIOUS
    <3> QED
      BY <3>1 DEF Init
  <2>2. worker = [t \in Tasks |-> worker[t]]
        /\ \A t \in Tasks : worker[t] \in [Workers(t) -> Ops(t) \cup {0}]
    BY DEF Init
  <2>3. op = [t \in Tasks |-> op[t]] /\ \A t \in Tasks : op[t] = [i \in Ops(t) |-> op[t][i]]
    BY DEF Init
  <2> QED
    BY <2>1, <2>2, <2>3 DEF Init, TaskTypeOK
<1>2. \A t \in Tasks : /\ \A i \in Ops(t) : op[t][i] = Idle /\ ~Held(t, i) /\ ~Queued(t, i)
                       /\ Out(t) = {} /\ DOMAIN jobs[t] = {} /\ report[t] = ""
                       /\ phase[t] = "decoded" /\ \A w \in Workers(t) : worker[t][w] = 0
  <2> TAKE t \in Tasks
  <2>1. jobs[t] = <<>> /\ DOMAIN <<>> = {}
    <3>1. DOMAIN <<>> = {}
      OBVIOUS
    <3> QED
      BY <3>1 DEF Init
  <2>2. 0 \notin Ops(t)
    BY RequestFacts DEF Init
  <2> QED
    BY <2>1, <2>2 DEF Init, Held, Queued, Out
<1>3. PlacesOK
  BY <1>2 DEF PlacesOK
<1>4. \A t \in Tasks : \A i \in Ops(t) : ExecOK(t, i, Idle)
  BY DEF ExecOK, Idle, ExecFields
<1>5. ExecsOK
  <2>1. Idle.gated = FALSE /\ Idle.stage # "done"
    BY DEF Idle
  <2> QED
    BY <1>2, <1>4, <2>1 DEF ExecsOK
<1>6. ReportsOK /\ ReportTellsFailures
  BY <1>2 DEF ReportsOK, ReportTellsFailures, Out
<1> QED
  BY <1>1, <1>3, <1>5, <1>6 DEF TaskInv

-----------------------------------------------------------------------------
(* The executions after a step that changes one of them.                    *)
OpBecomes(t, i, y) ==
    /\ \A s \in Tasks : \A j \in Ops(s) : op'[s][j] = IF s = t /\ j = i THEN y ELSE op[s][j]
    /\ op' = [s \in Tasks |-> op'[s]]
    /\ \A s \in Tasks : op'[s] = [j \in Ops(s) |-> op'[s][j]]

LEMMA OpUpdated ==
    ASSUME TaskTypeOK, NEW t \in Tasks, NEW i \in Ops(t), NEW y, op' = [op EXCEPT ![t][i] = y]
    PROVE  OpBecomes(t, i, y)
<1>1. DOMAIN op = Tasks /\ \A s \in Tasks : DOMAIN op[s] = Ops(s)
  BY DEF TaskTypeOK
<1>2. op' = [op EXCEPT ![t] = [op[t] EXCEPT ![i] = y]]
  OBVIOUS
<1> PICK z : z = [op[t] EXCEPT ![i] = y]
  OBVIOUS
<1>3. op' = [op EXCEPT ![t] = z]
  BY <1>2
<1>4. z = [j \in Ops(t) |-> IF j = i THEN y ELSE op[t][j]]
  BY <1>1
<1>5. op' = [s \in Tasks |-> IF s = t THEN z ELSE op[s]]
  BY <1>1, <1>3 DEF TaskTypeOK
<1>6. \A s \in Tasks : op[s] = [j \in Ops(s) |-> op[s][j]]
  BY DEF TaskTypeOK
<1>7. \A s \in Tasks : op'[s] = IF s = t THEN z ELSE op[s]
  BY <1>5
<1>8. \A s \in Tasks : \A j \in Ops(s) : op'[s][j] = IF s = t /\ j = i THEN y ELSE op[s][j]
  BY <1>4, <1>7
<1>9. op' = [s \in Tasks |-> op'[s]]
  BY <1>5
<1>10. \A s \in Tasks : op'[s] = [j \in Ops(s) |-> op'[s][j]]
  <2> TAKE s \in Tasks
  <2>1. CASE s = t
    BY <1>4, <1>7, <2>1
  <2>2. CASE s # t
    BY <1>6, <1>7, <2>2
  <2> QED
    BY <2>1, <2>2
<1> QED
  BY <1>8, <1>9, <1>10 DEF OpBecomes

(* A worker goes on with the operation it holds.                            *)
Continues(t, w, y) ==
    /\ OpBecomes(t, worker[t][w], y)
    /\ y.stage \notin {"queued", "done"} /\ ExecOK(t, worker[t][w], y)
    /\ UNCHANGED <<req, ctx, phase, jobs, worker, completed, observations, firstErr, report>>

LEMMA ContinuingKeeps ==
    ASSUME TaskInv, NEW t \in Tasks, NEW w \in Workers(t), worker[t][w] # 0, NEW y,
           Continues(t, w, y)
    PROVE  TaskInv'
<1> DEFINE i == worker[t][w]
<1> USE DEF TaskInv
<1>1. i \in Ops(t) /\ Held(t, i)
  BY DEF TaskTypeOK, Held
<1>2. UNCHANGED <<req, ctx, phase, jobs, worker, completed, observations, firstErr, report>>
  BY DEF Continues
<1>3. Tasks' = Tasks /\ \A s \in Tasks : /\ Ops(s)' = Ops(s) /\ Workers(s)' = Workers(s)
                                         /\ Out(s)' = Out(s)
                                         /\ \A j : Held(s, j)' = Held(s, j)
                                         /\ \A j : Queued(s, j)' = Queued(s, j)
                                         /\ \A j, x : ExecOK(s, j, x)' = ExecOK(s, j, x)
  BY <1>2 DEF Tasks, Ops, Workers, Out, Held, Queued, ExecOK, Truthful, HasSlot, Endpoint
<1>4. \A s \in Tasks : \A j \in Ops(s) : op'[s][j] = IF s = t /\ j = i THEN y ELSE op[s][j]
  BY DEF Continues, OpBecomes
<1>5. i \notin Out(t) /\ phase[t] = "running"
  BY <1>1 DEF PlacesOK
<1>6. TaskTypeOK'
  <2>1. (op = [s \in Tasks |-> op[s]] /\ \A s \in Tasks : op[s] = [j \in Ops(s) |-> op[s][j]])'
    BY <1>3 DEF Continues, OpBecomes
  <2> QED
    BY <1>2, <1>3, <2>1 DEF TaskTypeOK
<1>7. PlacesOK'
  BY <1>2, <1>3 DEF PlacesOK
<1>8. ExecsOK'
  BY <1>1, <1>3, <1>4, <1>5 DEF ExecsOK, Continues
<1>9. ReportsOK'
  <2>1. \A s \in Tasks : observations[s] \subseteq Ops(s) /\ observations[s] \subseteq Out(s)
    BY DEF TaskTypeOK, Out
  <2> QED
    BY <1>2, <1>3, <1>4, <1>5, <2>1 DEF ReportsOK
<1>10. ReportTellsFailures'
  <2>1. report[t] \notin {"completed", "cancelled", "timeout"}
    BY <1>5 DEF ReportsOK
  <2>2. \A s \in Tasks : s # t => \A j \in Ops(s) : op'[s][j] = op[s][j]
    BY <1>4
  <2> SUFFICES ASSUME NEW s \in Tasks, report[s] \in {"completed", "cancelled", "timeout"},
                      NEW j \in Ops(s)
               PROVE  /\ op'[s][j].cause = ""
                      /\ op'[s][j].obs.status = "cancelled" => report[s] # "completed"
    BY <1>2, <1>3 DEF ReportTellsFailures
  <2>3. op'[s][j] = op[s][j]
    BY <2>1, <2>2
  <2> QED
    BY <2>3 DEF ReportTellsFailures
<1> QED
  BY <1>6, <1>7, <1>8, <1>9, <1>10

(* A worker ends the operation it holds.                                    *)
Ends(t, w, y) ==
    /\ OpBecomes(t, worker[t][w], y)
    /\ y.stage = "done" /\ ~y.gated /\ ExecOK(t, worker[t][w], y)
    /\ completed' = [completed EXCEPT ![t] = @ \cup {worker[t][w]}]
    /\ worker' = [worker EXCEPT ![t][w] = 0]
    /\ UNCHANGED <<req, ctx, phase, jobs, observations, firstErr, report>>

LEMMA EndingKeeps ==
    ASSUME TaskInv, NEW t \in Tasks, NEW w \in Workers(t), worker[t][w] # 0, NEW y, Ends(t, w, y)
    PROVE  TaskInv'
<1> PICK i : i = worker[t][w]
  OBVIOUS
<1> USE DEF TaskInv
<1>1. i \in Ops(t) /\ Held(t, i) /\ 0 \notin Ops(t)
  BY RequestFacts DEF TaskTypeOK, Held
<1>2. UNCHANGED <<req, ctx, phase, jobs, observations, firstErr, report>>
  BY DEF Ends
<1>3. Tasks' = Tasks /\ \A s \in Tasks : /\ Ops(s)' = Ops(s) /\ Workers(s)' = Workers(s)
                                         /\ \A j : Queued(s, j)' = Queued(s, j)
                                         /\ \A j, x : ExecOK(s, j, x)' = ExecOK(s, j, x)
  BY <1>2 DEF Tasks, Ops, Workers, Queued, ExecOK, Truthful, HasSlot, Endpoint
<1>4. \A s \in Tasks : \A j \in Ops(s) : op'[s][j] = IF s = t /\ j = i THEN y ELSE op[s][j]
  BY DEF Ends, OpBecomes
<1>5. i \notin Out(t) /\ phase[t] = "running" /\ ~Queued(t, i)
  BY <1>1 DEF PlacesOK
<1>6. /\ worker' = [s \in Tasks |-> worker'[s]]
      /\ \A s \in Tasks : worker'[s] \in [Workers(s) -> Ops(s) \cup {0}]
      /\ \A s \in Tasks : \A v \in Workers(s) :
            worker'[s][v] = IF s = t /\ v = w THEN 0 ELSE worker[s][v]
  <2>1. worker' = [worker EXCEPT ![t] = [worker[t] EXCEPT ![w] = 0]]
    BY DEF Ends
  <2> PICK z : z = [worker[t] EXCEPT ![w] = 0]
    OBVIOUS
  <2>2. z \in [Workers(t) -> Ops(t) \cup {0}]
        /\ \A v \in Workers(t) : z[v] = IF v = w THEN 0 ELSE worker[t][v]
    BY DEF TaskTypeOK
  <2>3. worker' = [s \in Tasks |-> IF s = t THEN z ELSE worker[s]]
    BY <2>1 DEF TaskTypeOK
  <2> QED
    BY <2>2, <2>3 DEF TaskTypeOK
<1>7. /\ completed' = [s \in Tasks |-> completed'[s]]
      /\ \A s \in Tasks : completed'[s] = IF s = t THEN completed[s] \cup {i} ELSE completed[s]
  BY DEF Ends, TaskTypeOK
<1>8. \A s \in Tasks : Out(s)' = IF s = t THEN Out(s) \cup {i} ELSE Out(s)
  BY <1>2, <1>7 DEF Out
<1>9. \A s \in Tasks : \A j \in Ops(s) : Held(s, j)' <=> Held(s, j) /\ ~(s = t /\ j = i)
  <2> TAKE s \in Tasks
  <2> TAKE j \in Ops(s)
  <2>1. 0 \notin Ops(s)
    BY RequestFacts DEF TaskTypeOK
  <2>2. Held(s, j)' <=> \E v \in Workers(s) : worker'[s][v] = j
    BY <1>3 DEF Held
  <2>3. Held(s, j)' <=> \E v \in Workers(s) : worker[s][v] = j /\ ~(s = t /\ v = w)
    BY <1>6, <2>1, <2>2
  <2>4. \A v \in Workers(t) : worker[t][v] = i => v = w
    BY <1>1 DEF PlacesOK
  <2> QED
    BY <2>3, <2>4 DEF Held
<1>10. TaskTypeOK'
  <2>1. (op = [s \in Tasks |-> op[s]] /\ \A s \in Tasks : op[s] = [j \in Ops(s) |-> op[s][j]])'
    BY <1>3 DEF Ends, OpBecomes
  <2>2. (worker = [s \in Tasks |-> worker[s]]
         /\ \A s \in Tasks : worker[s] \in [Workers(s) -> Ops(s) \cup {0}])'
    BY <1>3, <1>6
  <2>3. (completed = [s \in Tasks |-> completed[s]]
         /\ \A s \in Tasks : completed[s] \subseteq Ops(s))'
    <3>1. \A s \in Tasks : completed'[s] \subseteq Ops(s)
      <4> TAKE s \in Tasks
      <4>1. completed[s] \subseteq Ops(s) /\ (s = t => i \in Ops(s))
        BY <1>1 DEF TaskTypeOK
      <4>2. completed'[s] = IF s = t THEN completed[s] \cup {i} ELSE completed[s]
        BY <1>7
      <4> QED
        BY <4>1, <4>2
    <3> QED
      BY <1>3, <1>7, <3>1
  <2> QED
    BY <1>2, <1>3, <2>1, <2>2, <2>3 DEF TaskTypeOK
<1>11. PlacesOK'
  <2> SUFFICES ASSUME NEW s \in Tasks
               PROVE  /\ phase[s] = "running" =>
                           \A j \in Ops(s) : Queued(s, j) \/ Held(s, j)' \/ j \in Out(s)'
                      /\ \A j \in Ops(s) : Held(s, j)' \/ Queued(s, j) =>
                                              phase[s] = "running" /\ j \notin Out(s)'
                      /\ \A j \in Ops(s) : ~(Held(s, j)' /\ Queued(s, j))
                      /\ \A u, v \in Workers(s) :
                            worker'[s][u] = worker'[s][v] /\ worker'[s][u] # 0 => u = v
                      /\ \A m, n \in DOMAIN jobs[s] : jobs[s][m] = jobs[s][n] => m = n
                      /\ phase[s] = "decoded" => Out(s)' = {}
    BY <1>2, <1>3 DEF PlacesOK
  <2>1. \A u, v \in Workers(s) : worker'[s][u] = worker'[s][v] /\ worker'[s][u] # 0 => u = v
    BY <1>6 DEF PlacesOK
  <2> QED
    BY <1>5, <1>8, <1>9, <2>1 DEF PlacesOK
<1>12. ExecsOK'
  <2> SUFFICES ASSUME NEW s \in Tasks, NEW j \in Ops(s)
               PROVE  /\ ExecOK(s, j, op'[s][j])
                      /\ op'[s][j].gated => Held(s, j)' /\ op'[s][j].stage # "queued"
                      /\ j \in Out(s)' => op'[s][j].stage = "done"
                      /\ op'[s][j].stage = "done" => j \in Out(s)'
    BY <1>3 DEF ExecsOK
  <2>1. CASE s = t /\ j = i
    BY <1>4, <1>5, <1>8, <1>9, <2>1 DEF Ends
  <2>2. CASE ~(s = t /\ j = i)
    BY <1>4, <1>8, <1>9, <2>2 DEF ExecsOK
  <2> QED
    BY <2>1, <2>2
<1>13. ReportsOK'
  <2>1. \A s \in Tasks : observations[s] \subseteq Ops(s) /\ observations[s] \subseteq Out(s)
    BY DEF TaskTypeOK, Out
  <2> QED
    BY <1>2, <1>3, <1>4, <1>5, <2>1 DEF ReportsOK
<1>14. ReportTellsFailures'
  <2>1. report[t] \notin {"completed", "cancelled", "timeout"}
    BY <1>5 DEF ReportsOK
  <2>2. \A s \in Tasks : s # t => \A j \in Ops(s) : op'[s][j] = op[s][j]
    BY <1>4
  <2> SUFFICES ASSUME NEW s \in Tasks, report[s] \in {"completed", "cancelled", "timeout"},
                      NEW j \in Ops(s)
               PROVE  /\ op'[s][j].cause = ""
                      /\ op'[s][j].obs.status = "cancelled" => report[s] # "completed"
    BY <1>2, <1>3 DEF ReportTellsFailures
  <2>3. op'[s][j] = op[s][j]
    BY <2>1, <2>2
  <2> QED
    BY <2>3 DEF ReportTellsFailures
<1> QED
  BY <1>10, <1>11, <1>12, <1>13, <1>14

-----------------------------------------------------------------------------
(* An execution on which a worker can act.                                  *)
Running(x) == x = [f \in ExecFields |-> x[f]] /\ (x.kind # "first" => Owns(x.held.res))

LEMMA FinishKeeps ==
    ASSUME TaskInv, NEW t \in Tasks, NEW w \in Workers(t), worker[t][w] # 0,
           NEW x, Running(x), Truthful(t, worker[t][w], x.obs), Finish(t, w, x)
    PROVE  TaskInv'
<1> DEFINE y == [x EXCEPT !.stage = "done", !.gated = FALSE]
<1>1. worker[t][w] \in Ops(t)
  BY DEF TaskInv, TaskTypeOK
<1>2. /\ y = [f \in ExecFields |-> y[f]] /\ y.stage = "done" /\ y.gated = FALSE
      /\ y.obs = x.obs /\ y.kind = x.kind /\ y.held = x.held
  BY DEF Running, ExecFields
<1> HIDE DEF y
<1>3. ExecOK(t, worker[t][w], y)
  BY <1>2 DEF ExecOK, Running
<1>4. op' = [op EXCEPT ![t][worker[t][w]] = y]
  BY DEF Finish, y
<1>5. OpBecomes(t, worker[t][w], y)
  BY <1>1, <1>4, OpUpdated DEF TaskInv
<1>6. Ends(t, w, y)
  BY <1>2, <1>3, <1>5 DEF Ends, Finish
<1> QED
  BY <1>6, EndingKeeps

LEMMA OpContinues ==
    ASSUME TaskInv, NEW t \in Tasks, NEW w \in Workers(t), worker[t][w] # 0, NEW y,
           op' = [op EXCEPT ![t][worker[t][w]] = y],
           y = [f \in ExecFields |-> y[f]],
           y.stage \in {"attempt", "fallback", "wait"},
           y.kind # "first" => Owns(y.held.res),
           y.stage = "wait" => y.kind # "first" /\ HasSlot(t, worker[t][w], y.held.res),
           y.stage = "fallback" => Owns(y.now.res),
           UNCHANGED <<req, ctx, phase, jobs, worker, completed, observations, firstErr, report>>
    PROVE  TaskInv'
<1>1. worker[t][w] \in Ops(t)
  BY DEF TaskInv, TaskTypeOK
<1>2. OpBecomes(t, worker[t][w], y)
  BY <1>1, OpUpdated DEF TaskInv
<1>3. ExecOK(t, worker[t][w], y)
  BY DEF ExecOK
<1>4. Continues(t, w, y)
  BY <1>2, <1>3 DEF Continues
<1> QED
  BY <1>4, ContinuingKeeps

LEMMA FailureIsTruthful ==
    ASSUME NEW t, NEW i, NEW x, Running(x), NEW why, req[t].maxAttempts \in Nat
    PROVE  Running(Failure(t, i, x, why)) /\ Truthful(t, i, Failure(t, i, x, why).obs)
<1> DEFINE o == ExecutionFailure(Endpoint(t, i))
           y == [x EXCEPT !.obs = o, !.cause = why]
<1>1. o.status # "cancelled"
  BY DEF ExecutionFailure, Unattempted
<1>2. /\ ObservationAccepted(o) /\ o.endpoint = Endpoint(t, i) /\ o.from = 0
      /\ Len(o.attempts) + RetryGapAttempts(o) = 0
  BY UnattemptedIsAccepted
<1> HIDE DEF o
<1>3. y = [f \in ExecFields |-> y[f]] /\ y.obs = o /\ y.kind = x.kind /\ y.held = x.held
  BY DEF Running, ExecFields
<1> HIDE DEF y
<1>4. Truthful(t, i, o)
  BY <1>1, <1>2 DEF Truthful
<1>5. Running(y) /\ Truthful(t, i, y.obs)
  BY <1>3, <1>4 DEF Running
<1> QED
  BY <1>5 DEF Failure, y, o

LEMMA ConvertedIsTruthful ==
    ASSUME NEW t, NEW i, NEW x, Running(x), NEW e, Owns(e.res), NEW terminal,
           req[t].maxAttempts \in Nat,
           e.err = "cancelled" => ctx[t] # "live",
           terminal # "" => ctx[t] # "live" /\ HasSlot(t, i, e.res)
    PROVE  LET y == Converted(t, i, x, e, terminal)
           IN  Running(y) /\ Truthful(t, i, y.obs)
<1> DEFINE r == Promoted(e.res, e.err)
           o == ObservationOf(Endpoint(t, i), r, e.err, terminal)
           y == [x EXCEPT !.obs = o]
           sound == /\ Convertible(r, e.err, terminal) /\ ObservationAccepted(o)
                    /\ ~(Len(e.res.attempts) > req[t].maxAttempts)
<1>1. /\ Owns(r) /\ IsSeq(r.attempts) /\ Len(r.attempts) \in Nat
      /\ r.attempts = e.res.attempts /\ r.fallback = e.res.fallback
  <2>1. /\ Owns(r)
        /\ r.attempts = e.res.attempts /\ r.fallback = e.res.fallback
    BY PromotedOwns
  <2> HIDE DEF r
  <2> QED
    BY <2>1, SequencesGrow DEF Owns, IsResult
<1>2. Convertible(r, e.err, terminal) => (o.from # 0 => o.from = o.owner)
  <2> HIDE DEF r
  <2> QED
    BY <1>1, ObservationHasOwner
<1>3. o.status = "cancelled" => ctx[t] # "live"
  <2>1. o.status = ClassOf(IF terminal # "" THEN terminal ELSE e.err)
    BY DEF ObservationOf
  <2>2. \A d : ClassOf(d) = "cancelled" => d = "cancelled"
    BY DEF ClassOf
  <2> HIDE DEF o
  <2> QED
    BY <2>1, <2>2
<1>4. Observes(o, Endpoint(t, i), r, e.err, terminal)
  BY DEF Observes
<1> HIDE DEF r, o
<1>5. sound => /\ o.endpoint = Endpoint(t, i)
               /\ Len(o.attempts) + RetryGapAttempts(o) <= req[t].maxAttempts
  <2>1. terminal # "" => Slot(Endpoint(t, i), r, req[t].maxAttempts)
    BY <1>1 DEF HasSlot, Slot
  <2>2. sound => Len(r.attempts) <= req[t].maxAttempts
    <3>1. sound => ~(Len(r.attempts) > req[t].maxAttempts)
      <4>1. Len(r.attempts) = Len(e.res.attempts)
        BY <1>1
      <4> QED
        BY <4>1, Zenon
    <3> QED
      BY <1>1, <3>1, NotGreater, Zenon
  <2> QED
    BY <1>1, <1>4, <2>1, <2>2, ObservationFits
<1>6. y = [f \in ExecFields |-> y[f]] /\ y.obs = o /\ y.kind = x.kind /\ y.held = x.held
  BY DEF Running, ExecFields
<1> HIDE DEF y
<1>7. sound => Truthful(t, i, o)
  BY <1>2, <1>3, <1>5 DEF Truthful
<1>8. sound => Running(y) /\ Truthful(t, i, y.obs)
  BY <1>6, <1>7 DEF Running
<1>9. \/ Converted(t, i, x, e, terminal) = y /\ sound
      \/ \E why \in {"attempts", "conversion"} :
            Converted(t, i, x, e, terminal) = Failure(t, i, x, why)
  BY DEF Converted, r, o, y
<1> HIDE DEF sound
<1> QED
  BY <1>8, <1>9, FailureIsTruthful

LEMMA ExchangeEndKeeps ==
    ASSUME TaskInv, NEW t \in Tasks, NEW w \in Workers(t), worker[t][w] # 0,
           NEW x, Running(x), NEW e, Owns(e.res), e.err = "cancelled" => ctx[t] # "live",
           ExchangeEnds(t, w, x, e)
    PROVE  TaskInv'
<1> DEFINE i == worker[t][w]
           retry == IF x.kind = "first" THEN RetryKind(t, i, e) ELSE ""
           y == [x EXCEPT !.stage = "wait", !.kind = retry, !.held = e]
<1>0. req[t].maxAttempts \in Nat
  BY RequestFacts DEF TaskInv, TaskTypeOK
<1>1. CASE retry # ""
  <2>1. retry # "first" /\ HasSlot(t, i, e.res)
    BY <1>1 DEF RetryKind, HasSlot, Slot
  <2> HIDE DEF retry
  <2>2. y = [f \in ExecFields |-> y[f]] /\ y.stage = "wait" /\ y.kind = retry /\ y.held = e
    BY DEF Running, ExecFields
  <2> HIDE DEF y
  <2>3. op' = [op EXCEPT ![t][i] = y]
        /\ UNCHANGED <<req, ctx, phase, jobs, worker, completed, observations, firstErr, report>>
    BY <1>1 DEF ExchangeEnds, y, retry
  <2> QED
    BY <2>1, <2>2, <2>3, OpContinues
<1>2. CASE retry = ""
  <2> DEFINE j == Joined(x, e)
             c == Converted(t, i, x, j, "")
  <2>1. Owns(j.res) /\ j.err = e.err
    BY RetryOwns DEF Joined, Exchange, Running
  <2>2. Finish(t, w, c)
    BY <1>2 DEF ExchangeEnds
  <2> HIDE DEF j
  <2>3. Running(c) /\ Truthful(t, i, c.obs)
    BY <1>0, <2>1, ConvertedIsTruthful
  <2> HIDE DEF c
  <2> QED
    BY <2>2, <2>3, FinishKeeps
<1> QED
  BY <1>1, <1>2

-----------------------------------------------------------------------------
LEMMA WorkerKeeps ==
    ASSUME TaskInv, NEW t \in Tasks, NEW w \in Workers(t),
           \/ Acquire(t, w) \/ CancelQueued(t, w)
           \/ \E q \in AllReplies : AttemptEnds(t, w, q) \/ FallbackEnds(t, w, q)
           \/ NoResult(t, w) \/ RetryStarts(t, w) \/ RetryAbandoned(t, w)
    PROVE  TaskInv'
<1> DEFINE i == worker[t][w]
           x == op[t][i]
<1>0. i # 0
  BY DEF Acquire, CancelQueued, AttemptEnds, FallbackEnds, NoResult, RetryStarts, RetryAbandoned
<1>1. i \in Ops(t) /\ ExecOK(t, i, x) /\ req[t].maxAttempts \in Nat
  BY <1>0, RequestFacts DEF TaskInv, TaskTypeOK, ExecsOK
<1>2. Running(x)
  BY <1>1 DEF ExecOK, Running
<1>3. CASE Acquire(t, w)
  <2> DEFINE y == [x EXCEPT !.stage = "attempt", !.gated = TRUE]
  <2>1. op' = [op EXCEPT ![t][i] = y]
        /\ UNCHANGED <<req, ctx, phase, jobs, worker, completed, observations, firstErr, report>>
    BY <1>3 DEF Acquire
  <2>2. y = [f \in ExecFields |-> y[f]] /\ y.stage = "attempt" /\ y.kind = x.kind /\ y.held = x.held
    <3> HIDE DEF x
    <3> QED
      BY <1>2 DEF Running, ExecFields
  <2> HIDE DEF y
  <2> QED
    BY <1>0, <1>2, <2>1, <2>2, OpContinues DEF Running
<1>4. CASE CancelQueued(t, w)
  <2> DEFINE o == CancelledObservation(Endpoint(t, i))
             y == [x EXCEPT !.obs = o]
  <2>1. Finish(t, w, y) /\ ctx[t] # "live"
    BY <1>4 DEF CancelQueued
  <2>2. /\ ObservationAccepted(o) /\ o.endpoint = Endpoint(t, i) /\ o.from = 0
        /\ Len(o.attempts) + RetryGapAttempts(o) = 0
    BY UnattemptedIsAccepted
  <2> HIDE DEF o
  <2>3. y = [f \in ExecFields |-> y[f]] /\ y.obs = o /\ y.kind = x.kind /\ y.held = x.held
    <3> HIDE DEF x
    <3> QED
      BY <1>2 DEF Running, ExecFields
  <2> HIDE DEF y
  <2>4. Truthful(t, i, o)
    BY <1>1, <2>1, <2>2 DEF Truthful
  <2>5. Running(y) /\ Truthful(t, i, y.obs)
    BY <1>2, <2>3, <2>4 DEF Running
  <2> QED
    BY <1>0, <2>1, <2>5, FinishKeeps
<1>5. ASSUME NEW q \in AllReplies, AttemptEnds(t, w, q)
      PROVE  TaskInv'
  <2> DEFINE proto == ProtoOf(t, i)
  <2>1. q.err = "cancelled" => ctx[t] # "live"
    BY <1>5 DEF AttemptEnds, Possible
  <2>2. CASE NeedsFallback(proto, q)
    <3> DEFINE z == Exchange(TruncatedUDP(q), "")
               y == [x EXCEPT !.stage = "fallback", !.now = z]
    <3>1. op' = [op EXCEPT ![t][i] = y]
          /\ UNCHANGED <<req, ctx, phase, jobs, worker, completed, observations, firstErr, report>>
      BY <1>5, <2>2, ZenonT(60) DEF AttemptEnds
    <3>2. Owns(z.res)
      BY EngineOwns DEF Exchange
    <3> HIDE DEF z
    <3>3. y = [f \in ExecFields |-> y[f]] /\ y.stage = "fallback" /\ y.now = z
          /\ y.kind = x.kind /\ y.held = x.held
      <4> HIDE DEF x
      <4> QED
        BY <1>2 DEF Running, ExecFields
    <3> HIDE DEF y
    <3> QED
      BY <1>0, <1>2, <3>1, <3>2, <3>3, OpContinues DEF Running
  <2>3. CASE ~NeedsFallback(proto, q)
    <3> DEFINE e == SingleAttempt(proto, q)
    <3>1. ExchangeEnds(t, w, x, e)
      BY <1>5, <2>3 DEF AttemptEnds
    <3>2. e.err = "cancelled" => ctx[t] # "live"
      BY <2>1 DEF SingleAttempt, Exchange
    <3>3. Owns(e.res)
      BY EngineOwns
    <3> HIDE DEF e, x
    <3> QED
      BY <1>0, <1>2, <3>1, <3>2, <3>3, ExchangeEndKeeps
  <2> QED
    BY <2>2, <2>3
<1>6. ASSUME NEW q \in AllReplies, FallbackEnds(t, w, q)
      PROVE  TaskInv'
  <2> DEFINE e == WithFallback(x.now.res, q)
             y == [x EXCEPT !.now = NoExchange]
  <2>1. ExchangeEnds(t, w, y, e) /\ x.stage = "fallback"
        /\ (q.err = "cancelled" => ctx[t] # "live")
    BY <1>6 DEF FallbackEnds, Possible
  <2>2. Owns(e.res)
    BY <1>1, <2>1, FallbackOwns DEF ExecOK
  <2>3. e.err = "cancelled" => ctx[t] # "live"
    BY <2>1 DEF WithFallback, Exchange
  <2>4. y = [f \in ExecFields |-> y[f]] /\ y.kind = x.kind /\ y.held = x.held
    <3> HIDE DEF x
    <3> QED
      BY <1>2 DEF Running, ExecFields
  <2> HIDE DEF e, y
  <2>5. Running(y)
    BY <1>2, <2>4 DEF Running
  <2> QED
    BY <1>0, <2>1, <2>2, <2>3, <2>5, ExchangeEndKeeps
<1>7. CASE NoResult(t, w)
  <2> DEFINE y == Failure(t, i, x, "no_result")
  <2>1. Finish(t, w, y)
    BY <1>7 DEF NoResult
  <2>2. Running(y) /\ Truthful(t, i, y.obs)
    <3> HIDE DEF x
    <3> QED
      BY <1>1, <1>2, FailureIsTruthful
  <2> HIDE DEF y
  <2> QED
    BY <1>0, <2>1, <2>2, FinishKeeps
<1>8. CASE RetryStarts(t, w)
  <2> DEFINE y == [x EXCEPT !.stage = "attempt"]
  <2>1. op' = [op EXCEPT ![t][i] = y]
        /\ UNCHANGED <<req, ctx, phase, jobs, worker, completed, observations, firstErr, report>>
    BY <1>8 DEF RetryStarts
  <2>2. y = [f \in ExecFields |-> y[f]] /\ y.stage = "attempt" /\ y.kind = x.kind /\ y.held = x.held
    <3> HIDE DEF x
    <3> QED
      BY <1>2 DEF Running, ExecFields
  <2> HIDE DEF y
  <2> QED
    BY <1>0, <1>2, <2>1, <2>2, OpContinues DEF Running
<1>9. CASE RetryAbandoned(t, w)
  <2> DEFINE y == Converted(t, i, x, x.held, ctx[t])
  <2>1. Finish(t, w, y) /\ ctx[t] # "live" /\ x.stage = "wait"
    BY <1>9 DEF RetryAbandoned
  <2>2. Owns(x.held.res) /\ HasSlot(t, i, x.held.res)
    BY <1>1, <2>1 DEF ExecOK
  <2>3. Running(y) /\ Truthful(t, i, y.obs)
    <3> HIDE DEF x
    <3> QED
      BY <1>1, <1>2, <2>1, <2>2, ConvertedIsTruthful
  <2> HIDE DEF y
  <2> QED
    BY <1>0, <2>1, <2>3, FinishKeeps
<1> QED
  BY <1>3, <1>4, <1>5, <1>6, <1>7, <1>8, <1>9

(* The steps of a task that change no execution.                            *)
LEMMA InterruptKeeps ==
    ASSUME TaskInv, NEW t \in Tasks, Interrupt(t)
    PROVE  TaskInv'
<1> USE DEF TaskInv
<1>1. /\ UNCHANGED <<req, phase, jobs, worker, op, completed, observations, firstErr, report>>
      /\ ctx[t] = "live" /\ phase[t] # "reported"
  BY DEF Interrupt
<1>2. ctx' \in [Tasks -> {"live", "cancelled", "timeout"}]
      /\ \A s \in Tasks : ctx[s] # "live" => ctx'[s] # "live"
  BY DEF Interrupt, TaskTypeOK
<1>3. Tasks' = Tasks /\ \A s \in Tasks : /\ Ops(s)' = Ops(s) /\ Workers(s)' = Workers(s)
                                         /\ Out(s)' = Out(s)
                                         /\ \A j : Held(s, j)' = Held(s, j)
                                         /\ \A j : Queued(s, j)' = Queued(s, j)
  BY <1>1 DEF Tasks, Ops, Workers, Out, Held, Queued
<1>4. \A s \in Tasks : \A j, x : ExecOK(s, j, x) => ExecOK(s, j, x)'
  BY <1>1, <1>2 DEF ExecOK, Truthful, HasSlot, Endpoint
<1>5. TaskTypeOK'
  BY <1>1, <1>2, <1>3 DEF TaskTypeOK
<1>6. PlacesOK'
  BY <1>1, <1>3 DEF PlacesOK
<1>7. ExecsOK'
  BY <1>1, <1>3, <1>4 DEF ExecsOK
<1>8. ReportsOK' /\ ReportTellsFailures'
  BY <1>1, <1>3 DEF ReportsOK, ReportTellsFailures
<1> QED
  BY <1>5, <1>6, <1>7, <1>8

LEMMA PrepareKeeps ==
    ASSUME TaskInv, NEW t \in Tasks, NEW systemDNS, Prepare(t, systemDNS)
    PROVE  TaskInv'
<1> DEFINE refusal == RefusalOf(req[t], systemDNS)
<1> USE DEF TaskInv
<1>1. UNCHANGED <<req, ctx, worker, op, completed, observations, firstErr>> /\ phase[t] = "decoded"
  BY DEF Prepare
<1>2. Tasks' = Tasks /\ \A s \in Tasks : /\ Ops(s)' = Ops(s) /\ Workers(s)' = Workers(s)
                                         /\ Out(s)' = Out(s)
                                         /\ \A j : Held(s, j)' = Held(s, j)
                                         /\ \A j, x : ExecOK(s, j, x)' = ExecOK(s, j, x)
  BY <1>1 DEF Tasks, Ops, Workers, Out, Held, ExecOK, Truthful, HasSlot, Endpoint
<1>3. Out(t) = {} /\ \A j \in Ops(t) : ~Held(t, j) /\ ~Queued(t, j)
  BY <1>1 DEF PlacesOK
<1>4. \A s \in Tasks : observations[s] \subseteq Ops(s) /\ observations[s] \subseteq Out(s)
  BY DEF TaskTypeOK, Out
<1>5. CASE refusal # ""
  <2>1. /\ phase' = [phase EXCEPT ![t] = "reported"]
        /\ report' = [report EXCEPT ![t] = refusal]
        /\ jobs' = jobs
    BY <1>5 DEF Prepare
  <2>2. refusal \notin {"completed", "cancelled", "timeout", "batch_rejected"}
    BY DEF RefusalOf
  <2> HIDE DEF refusal
  <2>3. \A s \in Tasks : \A j : Queued(s, j)' = Queued(s, j)
    BY <2>1 DEF Queued
  <2>4. phase' \in [Tasks -> {"decoded", "running", "reported"}]
        /\ \A s \in Tasks : phase'[s] = IF s = t THEN "reported" ELSE phase[s]
    BY <2>1 DEF TaskTypeOK
  <2>5. report' = [s \in Tasks |-> report'[s]]
        /\ \A s \in Tasks : report'[s] = IF s = t THEN refusal ELSE report[s]
    BY <2>1 DEF TaskTypeOK
  <2>6. TaskTypeOK'
    BY <1>1, <1>2, <2>1, <2>4, <2>5 DEF TaskTypeOK
  <2>7. PlacesOK'
    BY <1>1, <1>2, <1>3, <2>1, <2>3, <2>4 DEF PlacesOK
  <2>8. ExecsOK'
    BY <1>1, <1>2 DEF ExecsOK
  <2>9. ReportsOK'
    BY <1>1, <1>2, <2>2, <2>4, <2>5 DEF ReportsOK
  <2>10. ReportTellsFailures'
    BY <1>1, <1>2, <2>2, <2>5 DEF ReportTellsFailures
  <2> QED
    BY <2>6, <2>7, <2>8, <2>9, <2>10
<1>6. CASE refusal = ""
  <2> DEFINE all == [j \in Ops(t) |-> j]
  <2>1. /\ phase' = [phase EXCEPT ![t] = "running"]
        /\ jobs' = [jobs EXCEPT ![t] = all]
        /\ report' = report
    BY <1>6 DEF Prepare
  <2>2. all \in Seq(Ops(t))
    <3>1. Ops(t) = 1 .. Len(req[t].endpoints) /\ Len(req[t].endpoints) \in Nat
      BY RequestFacts DEF TaskTypeOK
    <3>2. \A n \in Nat : [j \in 1 .. n |-> j] \in Seq(1 .. n)
      OBVIOUS
    <3> QED
      BY <3>1, <3>2
  <2>3. DOMAIN all = Ops(t) /\ \A j \in Ops(t) : all[j] = j
    OBVIOUS
  <2> HIDE DEF all, refusal
  <2>4. phase' \in [Tasks -> {"decoded", "running", "reported"}]
        /\ \A s \in Tasks : phase'[s] = IF s = t THEN "running" ELSE phase[s]
    BY <2>1 DEF TaskTypeOK
  <2>5. jobs' = [s \in Tasks |-> jobs'[s]]
        /\ \A s \in Tasks : jobs'[s] = IF s = t THEN all ELSE jobs[s]
    BY <2>1 DEF TaskTypeOK
  <2>6. \A s \in Tasks : \A j \in Ops(s) : Queued(s, j)' <=> s = t \/ Queued(s, j)
    BY <2>3, <2>5 DEF Queued
  <2>7. TaskTypeOK'
    <3>1. \A s \in Tasks : jobs'[s] \in Seq(Ops(s))
      BY <2>2, <2>5 DEF TaskTypeOK
    <3> QED
      BY <1>1, <1>2, <2>1, <2>4, <2>5, <3>1 DEF TaskTypeOK
  <2>8. PlacesOK'
    <3> SUFFICES ASSUME NEW s \in Tasks
                 PROVE  /\ phase'[s] = "running" =>
                             \A j \in Ops(s) : Queued(s, j)' \/ Held(s, j) \/ j \in Out(s)
                        /\ \A j \in Ops(s) : Held(s, j) \/ Queued(s, j)' =>
                                                phase'[s] = "running" /\ j \notin Out(s)
                        /\ \A j \in Ops(s) : ~(Held(s, j) /\ Queued(s, j)')
                        /\ \A u, v \in Workers(s) :
                              worker[s][u] = worker[s][v] /\ worker[s][u] # 0 => u = v
                        /\ \A m, n \in DOMAIN jobs'[s] : jobs'[s][m] = jobs'[s][n] => m = n
                        /\ phase'[s] = "decoded" => Out(s) = {}
      BY <1>1, <1>2 DEF PlacesOK
    <3>1. \A m, n \in DOMAIN jobs'[s] : jobs'[s][m] = jobs'[s][n] => m = n
      BY <2>3, <2>5 DEF PlacesOK
    <3> QED
      BY <1>3, <2>4, <2>6, <3>1 DEF PlacesOK
  <2>9. ExecsOK'
    BY <1>1, <1>2 DEF ExecsOK
  <2>10. ReportsOK'
    <3>1. report[t] = ""
      BY <1>1 DEF ReportsOK
    <3> QED
      BY <1>1, <1>2, <2>1, <2>4, <3>1 DEF ReportsOK
  <2>11. ReportTellsFailures'
    BY <1>1, <1>2, <2>1 DEF ReportTellsFailures
  <2> QED
    BY <2>7, <2>8, <2>9, <2>10, <2>11
<1> QED
  BY <1>5, <1>6

LEMMA TakeKeeps ==
    ASSUME TaskInv, NEW t \in Tasks, NEW w \in Workers(t), Take(t, w)
    PROVE  TaskInv'
<1> USE DEF TaskInv
<1> PICK i, rest : i = Head(jobs[t]) /\ rest = Tail(jobs[t])
  OBVIOUS
<1>1. /\ UNCHANGED <<req, ctx, phase, op, completed, observations, firstErr, report>>
      /\ phase[t] = "running" /\ worker[t][w] = 0 /\ jobs[t] # <<>>
      /\ worker' = [worker EXCEPT ![t][w] = i]
      /\ jobs' = [jobs EXCEPT ![t] = rest]
  BY DEF Take
<1>2. Tasks' = Tasks /\ \A s \in Tasks : /\ Ops(s)' = Ops(s) /\ Workers(s)' = Workers(s)
                                         /\ Out(s)' = Out(s)
                                         /\ \A j, x : ExecOK(s, j, x)' = ExecOK(s, j, x)
  BY <1>1 DEF Tasks, Ops, Workers, Out, ExecOK, Truthful, HasSlot, Endpoint
<1>3. jobs[t] \in Seq(Ops(t)) /\ 0 \notin Ops(t)
  BY RequestFacts DEF TaskTypeOK
<1>4. /\ rest \in Seq(Ops(t)) /\ i \in Ops(t)
      /\ i = jobs[t][1] /\ 1 \in DOMAIN jobs[t]
      /\ \A n \in DOMAIN rest : n + 1 \in DOMAIN jobs[t] /\ rest[n] = jobs[t][n + 1] /\ n \in Nat
      /\ \A n \in DOMAIN jobs[t] : n # 1 => n - 1 \in DOMAIN rest /\ rest[n - 1] = jobs[t][n]
  BY <1>1, <1>3
<1>5. /\ worker' = [s \in Tasks |-> worker'[s]]
      /\ \A s \in Tasks : worker'[s] \in [Workers(s) -> Ops(s) \cup {0}]
      /\ \A s \in Tasks : \A v \in Workers(s) :
            worker'[s][v] = IF s = t /\ v = w THEN i ELSE worker[s][v]
  <2>1. worker' = [worker EXCEPT ![t] = [worker[t] EXCEPT ![w] = i]]
    BY <1>1
  <2> PICK z : z = [worker[t] EXCEPT ![w] = i]
    OBVIOUS
  <2>2. z \in [Workers(t) -> Ops(t) \cup {0}]
        /\ \A v \in Workers(t) : z[v] = IF v = w THEN i ELSE worker[t][v]
    BY <1>4 DEF TaskTypeOK
  <2>3. worker' = [s \in Tasks |-> IF s = t THEN z ELSE worker[s]]
    BY <2>1 DEF TaskTypeOK
  <2> QED
    BY <2>2, <2>3 DEF TaskTypeOK
<1>6. /\ jobs' = [s \in Tasks |-> jobs'[s]]
      /\ \A s \in Tasks : jobs'[s] = IF s = t THEN rest ELSE jobs[s]
  BY <1>1 DEF TaskTypeOK
<1>7. Queued(t, i) /\ ~Held(t, i) /\ i \notin Out(t)
  BY <1>4 DEF Queued, PlacesOK
<1>8. \A s \in Tasks : \A j \in Ops(s) : Held(s, j)' <=> Held(s, j) \/ (s = t /\ j = i)
  <2> TAKE s \in Tasks
  <2> TAKE j \in Ops(s)
  <2>1. 0 \notin Ops(s)
    BY RequestFacts DEF TaskTypeOK
  <2>2. Held(s, j)' <=> \E v \in Workers(s) : worker'[s][v] = j
    BY <1>2 DEF Held
  <2> QED
    BY <1>1, <1>5, <2>1, <2>2 DEF Held
<1>9. \A s \in Tasks : \A j \in Ops(s) : Queued(s, j)' <=> Queued(s, j) /\ ~(s = t /\ j = i)
  <2> TAKE s \in Tasks
  <2> TAKE j \in Ops(s)
  <2>1. Queued(s, j)' <=> \E n \in DOMAIN jobs'[s] : jobs'[s][n] = j
    BY DEF Queued
  <2>2. CASE s = t
    <3>1. \A n \in DOMAIN jobs[t] : jobs[t][n] = i => n = 1
      BY <1>4 DEF PlacesOK
    <3>2. Queued(t, j) /\ j # i => \E n \in DOMAIN rest : rest[n] = j
      BY <1>4 DEF Queued
    <3>3. \A n \in DOMAIN rest : rest[n] # i /\ \E m \in DOMAIN jobs[t] : jobs[t][m] = rest[n]
      BY <1>4, <3>1
    <3> QED
      BY <1>6, <2>1, <2>2, <3>2, <3>3 DEF Queued
  <2>3. CASE s # t
    BY <1>6, <2>1, <2>3 DEF Queued
  <2> QED
    BY <2>2, <2>3
<1>10. TaskTypeOK'
  <2>1. (worker = [s \in Tasks |-> worker[s]]
         /\ \A s \in Tasks : worker[s] \in [Workers(s) -> Ops(s) \cup {0}])'
    BY <1>2, <1>5
  <2>2. (jobs = [s \in Tasks |-> jobs[s]] /\ \A s \in Tasks : jobs[s] \in Seq(Ops(s)))'
    <3>1. \A s \in Tasks : jobs'[s] \in Seq(Ops(s))
      BY <1>4, <1>6 DEF TaskTypeOK
    <3> QED
      BY <1>2, <1>6, <3>1
  <2> QED
    BY <1>1, <1>2, <2>1, <2>2 DEF TaskTypeOK
<1>11. PlacesOK'
  <2> SUFFICES ASSUME NEW s \in Tasks
               PROVE  /\ phase[s] = "running" =>
                           \A j \in Ops(s) : Queued(s, j)' \/ Held(s, j)' \/ j \in Out(s)
                      /\ \A j \in Ops(s) : Held(s, j)' \/ Queued(s, j)' =>
                                              phase[s] = "running" /\ j \notin Out(s)
                      /\ \A j \in Ops(s) : ~(Held(s, j)' /\ Queued(s, j)')
                      /\ \A u, v \in Workers(s) :
                            worker'[s][u] = worker'[s][v] /\ worker'[s][u] # 0 => u = v
                      /\ \A m, n \in DOMAIN jobs'[s] : jobs'[s][m] = jobs'[s][n] => m = n
                      /\ phase[s] = "decoded" => Out(s) = {}
    BY <1>1, <1>2 DEF PlacesOK
  <2>1. \A u, v \in Workers(s) : worker'[s][u] = worker'[s][v] /\ worker'[s][u] # 0 => u = v
    <3>1. \A v \in Workers(t) : worker[t][v] # i
      BY <1>7 DEF Held
    <3> QED
      BY <1>5, <3>1 DEF PlacesOK
  <2>2. \A m, n \in DOMAIN jobs'[s] : jobs'[s][m] = jobs'[s][n] => m = n
    <3>1. \A m, n \in DOMAIN rest : rest[m] = rest[n] => m = n
      <4> SUFFICES ASSUME NEW m \in DOMAIN rest, NEW n \in DOMAIN rest, rest[m] = rest[n]
                   PROVE  m = n
        OBVIOUS
      <4>1. m \in Nat /\ n \in Nat /\ m + 1 = n + 1
        BY <1>4 DEF PlacesOK
      <4> QED
        BY <4>1
    <3> QED
      BY <1>6, <3>1 DEF PlacesOK
  <2> QED
    BY <1>1, <1>7, <1>8, <1>9, <2>1, <2>2 DEF PlacesOK
<1>12. ExecsOK'
  <2> SUFFICES ASSUME NEW s \in Tasks, NEW j \in Ops(s)
               PROVE  /\ ExecOK(s, j, op[s][j])
                      /\ op[s][j].gated => Held(s, j)' /\ op[s][j].stage # "queued"
                      /\ j \in Out(s) => op[s][j].stage = "done"
                      /\ op[s][j].stage = "done" => j \in Out(s)
    BY <1>1, <1>2 DEF ExecsOK
  <2> QED
    BY <1>8 DEF ExecsOK
<1>13. ReportsOK' /\ ReportTellsFailures'
  BY <1>1, <1>2 DEF ReportsOK, ReportTellsFailures
<1> QED
  BY <1>10, <1>11, <1>12, <1>13

LEMMA CollectKeeps ==
    ASSUME TaskInv, NEW t \in Tasks, NEW i \in Ops(t), Collect(t, i)
    PROVE  TaskInv'
<1> USE DEF TaskInv
<1>1. /\ UNCHANGED <<req, ctx, phase, jobs, worker, op, report>>
      /\ i \in completed[t]
      /\ completed' = [completed EXCEPT ![t] = @ \ {i}]
      /\ observations' = [observations EXCEPT ![t] = @ \cup {i}]
  BY DEF Collect
<1>2. Tasks' = Tasks /\ \A s \in Tasks : /\ Ops(s)' = Ops(s) /\ Workers(s)' = Workers(s)
                                         /\ \A j : Held(s, j)' = Held(s, j)
                                         /\ \A j : Queued(s, j)' = Queued(s, j)
                                         /\ \A j, x : ExecOK(s, j, x)' = ExecOK(s, j, x)
  BY <1>1 DEF Tasks, Ops, Workers, Held, Queued, ExecOK, Truthful, HasSlot, Endpoint
<1>3. /\ completed' = [s \in Tasks |-> completed'[s]]
      /\ \A s \in Tasks : completed'[s] = IF s = t THEN completed[s] \ {i} ELSE completed[s]
      /\ observations' = [s \in Tasks |-> observations'[s]]
      /\ \A s \in Tasks :
            observations'[s] = IF s = t THEN observations[s] \cup {i} ELSE observations[s]
  BY <1>1 DEF TaskTypeOK
<1>4. /\ firstErr' \in [Tasks -> BOOLEAN]
      /\ firstErr'[t] <=> firstErr[t] \/ op[t][i].cause # ""
      /\ \A s \in Tasks : s # t => firstErr'[s] = firstErr[s]
  <2> PICK b \in BOOLEAN : b <=> firstErr[t] \/ op[t][i].cause # ""
    OBVIOUS
  <2>1. firstErr \in [Tasks -> BOOLEAN]
    BY DEF TaskTypeOK
  <2>2. firstErr' = [firstErr EXCEPT ![t] = b]
    <3>1. b = (firstErr[t] \/ op[t][i].cause # "")
      BY <2>1
    <3> QED
      BY <3>1 DEF Collect
  <2> QED
    BY <2>1, <2>2
<1>5. \A s \in Tasks : Out(s)' = Out(s)
  BY <1>1, <1>3 DEF Out
<1>6. TaskTypeOK'
  <2>1. \A s \in Tasks : completed'[s] \subseteq Ops(s) /\ observations'[s] \subseteq Ops(s)
    <3> SUFFICES ASSUME NEW s \in Tasks
                 PROVE  completed'[s] \subseteq Ops(s) /\ observations'[s] \subseteq Ops(s)
      OBVIOUS
    <3>1. completed[s] \subseteq Ops(s) /\ observations[s] \subseteq Ops(s)
      BY DEF TaskTypeOK
    <3>2. s = t => i \in Ops(s)
      OBVIOUS
    <3>3. completed'[s] \in {completed[s], completed[s] \ {i}}
      BY <1>3
    <3>4. observations'[s] = IF s = t THEN observations[s] \cup {i} ELSE observations[s]
      BY <1>3
    <3>5. completed'[s] \subseteq Ops(s)
      BY <3>1, <3>3
    <3> QED
      BY <3>1, <3>2, <3>4, <3>5
  <2>2. (firstErr \in [Tasks -> BOOLEAN])'
    BY <1>2, <1>4
  <2> QED
    BY <1>1, <1>2, <1>3, <2>1, <2>2 DEF TaskTypeOK
<1>7. PlacesOK'
  BY <1>1, <1>2, <1>5 DEF PlacesOK
<1>8. ExecsOK'
  BY <1>1, <1>2, <1>5 DEF ExecsOK
<1>9. ReportsOK'
  <2> SUFFICES ASSUME NEW s \in Tasks
               PROVE  /\ report[s] # "" => phase[s] = "reported"
                      /\ \A j \in observations'[s] : op[s][j].cause # "" => firstErr'[s]
    BY <1>1, <1>2 DEF ReportsOK
  <2>1. CASE s = t
    BY <1>3, <1>4, <2>1 DEF ReportsOK
  <2>2. CASE s # t
    BY <1>3, <1>4, <2>2 DEF ReportsOK
  <2> QED
    BY <2>1, <2>2
<1>10. ReportTellsFailures'
  BY <1>1, <1>2 DEF ReportTellsFailures
<1> QED
  BY <1>6, <1>7, <1>8, <1>9, <1>10

LEMMA ReportKeeps ==
    ASSUME TaskInv, NEW t \in Tasks, Report(t)
    PROVE  TaskInv'
<1> USE DEF TaskInv
<1> PICK r : r = IF ~BatchAccepted(req[t].endpoints, req[t].maxAttempts, Batch(t))
                 THEN "batch_rejected"
                 ELSE IF firstErr[t] THEN "failed"
                 ELSE IF ctx[t] = "live" THEN "completed" ELSE ctx[t]
  OBVIOUS
<1>1. /\ UNCHANGED <<req, ctx, jobs, worker, op, completed, observations, firstErr>>
      /\ phase[t] = "running" /\ observations[t] = Ops(t)
      /\ phase' = [phase EXCEPT ![t] = "reported"]
      /\ report' = [report EXCEPT ![t] = r]
  BY DEF Report
<1>2. Tasks' = Tasks /\ \A s \in Tasks : /\ Ops(s)' = Ops(s) /\ Workers(s)' = Workers(s)
                                         /\ Out(s)' = Out(s)
                                         /\ \A j : Held(s, j)' = Held(s, j)
                                         /\ \A j : Queued(s, j)' = Queued(s, j)
                                         /\ \A j, x : ExecOK(s, j, x)' = ExecOK(s, j, x)
  BY <1>1 DEF Tasks, Ops, Workers, Out, Held, Queued, ExecOK, Truthful, HasSlot, Endpoint
<1>3. \A j \in Ops(t) : j \in Out(t) /\ ~Held(t, j) /\ ~Queued(t, j) /\ op[t][j].stage = "done"
  BY <1>1 DEF Out, PlacesOK, ExecsOK
<1>4. phase' \in [Tasks -> {"decoded", "running", "reported"}]
      /\ \A s \in Tasks : phase'[s] = IF s = t THEN "reported" ELSE phase[s]
  BY <1>1 DEF TaskTypeOK
<1>5. report' = [s \in Tasks |-> report'[s]]
      /\ \A s \in Tasks : report'[s] = IF s = t THEN r ELSE report[s]
  BY <1>1 DEF TaskTypeOK
<1>6. TaskTypeOK'
  BY <1>1, <1>2, <1>4, <1>5 DEF TaskTypeOK
<1>7. PlacesOK'
  BY <1>1, <1>2, <1>3, <1>4 DEF PlacesOK
<1>8. ExecsOK'
  BY <1>1, <1>2 DEF ExecsOK
<1>9. ReportsOK'
  <2>1. BatchAccepted(req[t].endpoints, req[t].maxAttempts, Batch(t))
    <3>1. \A j \in Ops(t) : Truthful(t, j, op[t][j].obs)
      BY <1>3 DEF ExecsOK, ExecOK
    <3> QED
      BY <3>1 DEF BatchAccepted, Batch, Truthful, Endpoint, Ops
  <2>2. r # "batch_rejected"
    BY <2>1 DEF TaskTypeOK
  <2> QED
    BY <1>1, <1>2, <1>4, <1>5, <2>2 DEF ReportsOK
<1>10. ReportTellsFailures'
  <2> SUFFICES ASSUME NEW s \in Tasks, report'[s] \in {"completed", "cancelled", "timeout"},
                      NEW j \in Ops(s)
               PROVE  /\ op[s][j].cause = ""
                      /\ op[s][j].obs.status = "cancelled" => report'[s] # "completed"
    BY <1>1, <1>2 DEF ReportTellsFailures
  <2>1. CASE s = t
    <3>1. ~firstErr[t] /\ (r = "completed" => ctx[t] = "live")
      BY <1>5, <2>1 DEF TaskTypeOK
    <3>2. op[t][j].cause = ""
      BY <1>1, <2>1, <3>1 DEF ReportsOK
    <3>3. op[t][j].obs.status = "cancelled" => ctx[t] # "live"
      BY <1>3, <2>1 DEF ExecsOK, ExecOK, Truthful
    <3> QED
      BY <1>5, <2>1, <3>1, <3>2, <3>3
  <2>2. CASE s # t
    BY <1>5, <2>2 DEF ReportTellsFailures
  <2> QED
    BY <2>1, <2>2
<1> QED
  BY <1>6, <1>7, <1>8, <1>9, <1>10

LEMMA TasksStep == TaskInv /\ [Next]_vars => TaskInv'
<1> SUFFICES ASSUME TaskInv, [Next]_vars
             PROVE  TaskInv'
  OBVIOUS
<1>1. ASSUME NEW t \in Tasks, NEW systemDNS \in BOOLEAN, Prepare(t, systemDNS)
      PROVE  TaskInv'
  BY <1>1, PrepareKeeps
<1>2. ASSUME NEW t \in Tasks, NEW w \in Workers(t), WorkerStep(t, w)
      PROVE  TaskInv'
  <2>1. CASE Take(t, w)
    BY <2>1, TakeKeeps
  <2>2. CASE ~Take(t, w)
    BY <1>2, <2>2, WorkerKeeps DEF WorkerStep
  <2> QED
    BY <2>1, <2>2
<1>3. ASSUME NEW t \in Tasks, NEW i \in Ops(t), Collect(t, i)
      PROVE  TaskInv'
  BY <1>3, CollectKeeps
<1>4. ASSUME NEW t \in Tasks, Report(t)
      PROVE  TaskInv'
  BY <1>4, ReportKeeps
<1>5. ASSUME NEW t \in Tasks, Interrupt(t)
      PROVE  TaskInv'
  BY <1>5, InterruptKeeps
<1>6. CASE UNCHANGED vars
  <2>1. UNCHANGED <<req, ctx, phase, jobs, worker, op, completed, observations, firstErr, report>>
    BY <1>6 DEF vars
  <2>2. Tasks' = Tasks /\ \A s \in Tasks : /\ Ops(s)' = Ops(s) /\ Workers(s)' = Workers(s)
                                           /\ Out(s)' = Out(s)
                                           /\ \A j : Held(s, j)' = Held(s, j)
                                           /\ \A j : Queued(s, j)' = Queued(s, j)
                                           /\ \A j, x : ExecOK(s, j, x)' = ExecOK(s, j, x)
    BY <2>1 DEF Tasks, Ops, Workers, Out, Held, Queued, ExecOK, Truthful, HasSlot, Endpoint
  <2>3. TaskTypeOK'
    BY <2>1, <2>2 DEF TaskInv, TaskTypeOK
  <2>4. PlacesOK'
    BY <2>1, <2>2 DEF TaskInv, PlacesOK
  <2>5. ExecsOK'
    BY <2>1, <2>2 DEF TaskInv, ExecsOK
  <2>6. ReportsOK' /\ ReportTellsFailures'
    BY <2>1, <2>2 DEF TaskInv, ReportsOK, ReportTellsFailures
  <2> QED
    BY <2>3, <2>4, <2>5, <2>6 DEF TaskInv
<1> QED
  BY <1>1, <1>2, <1>3, <1>4, <1>5, <1>6 DEF Next, SystemStep

(* An observation shows the content of the attempt it names as its owner.   *)
THEOREM EvidenceIsOwned == Spec => []EvidenceHasOneOwner
<1>1. TaskInv => EvidenceHasOneOwner
  BY DEF TaskInv, ExecsOK, ExecOK, Truthful, EvidenceHasOneOwner
<1> QED
  BY <1>1, TasksStart, TasksStep, PTL DEF Spec

(* A task that reports success, or its own interruption, hides no failed    *)
(* operation, and calls none cancelled that was not.                        *)
THEOREM ReportsAreHonest == Spec => []ReportTellsFailures
<1>1. TaskInv => ReportTellsFailures
  BY DEF TaskInv
<1> QED
  BY <1>1, TasksStart, TasksStep, PTL DEF Spec

(* The batch of every task is one its own request contract accepts.         *)
THEOREM BatchesAreAccepted == Spec => []BatchIsAccepted
<1>1. TaskInv => BatchIsAccepted
  BY DEF TaskInv, ReportsOK, BatchIsAccepted
<1> QED
  BY <1>1, TasksStart, TasksStep, PTL DEF Spec

(* While an operation of some task waits for the gate, either a token is    *)
(* free or a worker of a running task holds one and can go on.              *)
LEMMA SomeoneMoves == TaskInv => NobodyIsStuck
<1> SUFFICES ASSUME TaskInv, NEW t \in Tasks, phase[t] # "reported"
             PROVE  \E s \in Tasks : phase[s] # "reported" /\ Movable(s)
  BY DEF NobodyIsStuck
<1> USE DEF TaskInv
<1>1. CASE phase[t] = "decoded" \/ completed[t] # {} \/ observations[t] = Ops(t)
  BY <1>1 DEF Movable
<1>2. CASE phase[t] = "running" /\ completed[t] = {} /\ observations[t] # Ops(t)
  <2>1. PICK i \in Ops(t) : Queued(t, i) \/ Held(t, i)
    <3>1. observations[t] \subseteq Ops(t)
      BY DEF TaskTypeOK
    <3>2. PICK i \in Ops(t) : i \notin observations[t]
      BY <1>2, <3>1
    <3> QED
      BY <1>2, <3>2 DEF PlacesOK, Out
  <2>2. PICK v \in Workers(t) : v \in Workers(t)
    BY RequestFacts DEF TaskTypeOK
  <2>3. CASE \E w \in Workers(t) : worker[t][w] # 0
    <3>1. PICK w \in Workers(t) : worker[t][w] # 0
      BY <2>3
    <3>2. CASE Cardinality(InFlight) < GateLimit
      BY <3>1, <3>2 DEF Movable
    <3>3. CASE ~(Cardinality(InFlight) < GateLimit)
      <4>1. InFlight # {}
        BY <3>3, FS_EmptySet, GateLimitAssumption
      <4>2. PICK s \in Tasks : \E j \in Ops(s) : op[s][j].gated
        BY <4>1 DEF InFlight
      <4>5. PICK j \in Ops(s) : op[s][j].gated
        BY <4>2
      <4>3. PICK u \in Workers(s) : worker[s][u] = j /\ op[s][j].stage # "queued"
        BY <4>5 DEF ExecsOK, Held
      <4>4. phase[s] = "running" /\ j # 0
        BY <4>3, RequestFacts DEF PlacesOK, Held, TaskTypeOK
      <4> QED
        BY <4>3, <4>4 DEF Movable
    <3> QED
      BY <3>2, <3>3
  <2>4. CASE \A w \in Workers(t) : worker[t][w] = 0
    <3>1. 0 \notin Ops(t)
      BY RequestFacts DEF TaskTypeOK
    <3>2. Queued(t, i)
      BY <2>1, <2>4, <3>1 DEF Held
    <3>3. jobs[t] # <<>>
      BY <3>2 DEF Queued
    <3> QED
      BY <1>2, <2>2, <2>4, <3>3 DEF Movable
  <2> QED
    BY <2>3, <2>4
<1> QED
  BY <1>1, <1>2 DEF TaskTypeOK

(* As long as a task is not reported, some task that is not can move.       *)
THEOREM TasksNeverStick == Spec => []NobodyIsStuck
<1> QED
  BY SomeoneMoves, TasksStart, TasksStep, PTL DEF Spec

-----------------------------------------------------------------------------
(* The attempts of an exchange: one that may be repeated, a truncated UDP   *)
(* response, and one that ends the exchange.  Only of DoQ can an attempt    *)
(* that failed for its stream have the TC bit of a whole message.           *)
Failures == {"timeout", "cancelled", "refused", "network", "fatal", "too_large"}
Repeatable(a) == Retryable(a.err) /\ (a.tc => a.proto = "doq")
Truncating(a) == a.proto = "udp" /\ a.tc = TRUE /\ a.err = "" /\ a.size = "full"
Ending(a) ==
    /\ a.tc \in BOOLEAN
    /\ \/ a.err \in {"", "framing"} /\ a.size \in {"short", "full"}
       \/ a.err \in Failures /\ (a.tc => a.err = "too_large" \/ a.proto = "doq")

(* The attempts of the exchange r with an endpoint of that protocol.        *)
Physical(endpoint, r) ==
    LET s == r.attempts
        n == Len(s)
    IN  /\ r.fallback \in BOOLEAN /\ Ending(s[n])
        /\ s[n].proto = "tcp" => s[n].err # "too_large"
        /\ ~r.fallback => /\ s[n].proto = endpoint
                          /\ n = 1 \/ (n = 2 /\ s[1].proto = endpoint /\ Repeatable(s[1]))
        /\ r.fallback =>
              /\ endpoint = "udp" /\ s[n].proto = "tcp"
              /\ \/ n = 2 /\ Truncating(s[1])
                 \/ n = 3 /\ s[1].proto = "udp" /\ Repeatable(s[1]) /\ Truncating(s[2])
                 \/ n = 3 /\ Truncating(s[1]) /\ s[2].proto = "tcp" /\ Repeatable(s[2])

(* What it kept as evidence, by how its last attempt a ended: an answer, a  *)
(* message it cannot read, the header of one it cannot compose, nothing, or *)
(* the truncated UDP response it could not replace.                         *)
Says(r, parsed, header, verdict, truncated) ==
    /\ r.parsed = parsed /\ r.header = header /\ r.outcome = verdict
    /\ r.truncated = truncated /\ r.tcFlag = truncated
Answered(r, err, n, a) ==
    /\ err = "" /\ a.err = "" /\ a.size = "full" /\ r.owner = n /\ r.pending = 0
    /\ Says(r, TRUE, FALSE, "parsed", a.tc)
    /\ a.proto = "udp" => ~a.tc
Unreadable(r, err, n, a) ==
    /\ err = (IF a.err = "" THEN "malformed" ELSE "framing")
    /\ a.err \in {"", "framing"} /\ r.owner = n
    /\ \E verdict \in {"", "malformed"} : Says(r, FALSE, FALSE, verdict, FALSE)
    /\ r.pending # 0 => r.pending = n /\ Clean(a) /\ a.size = "full" /\ a.proto = "tcp"
HeaderRead(r, err, n, a) ==
    /\ r.fallback /\ err = "malformed" /\ Clean(a) /\ a.size = "full" /\ r.owner = n
    /\ r.pending = 0 /\ Says(r, FALSE, TRUE, "truncated_response", TRUE)
Nothing(r, err, a) ==
    /\ ~r.fallback /\ a.err = err /\ err \in Failures /\ r.pending = 0
    /\ Says(r, FALSE, FALSE, "", FALSE)
Retains(r, err, n, a) ==
    /\ r.fallback /\ a.err = err /\ err \in Failures \ {"too_large"} /\ r.pending = 0
    /\ r.owner \in 1 .. n - 1 /\ Truncating(r.attempts[r.owner])
    /\ \/ Says(r, TRUE, FALSE, "parsed", TRUE)
       \/ Says(r, FALSE, TRUE, "truncated_response", TRUE)
Evident(r, err) ==
    LET n == Len(r.attempts)
        a == r.attempts[n]
    IN  \/ Answered(r, err, n, a) \/ Unreadable(r, err, n, a) \/ HeaderRead(r, err, n, a)
        \/ Nothing(r, err, a) \/ Retains(r, err, n, a)

\* An exchange that ended with r and err; the first of an operation; a UDP response to replace.
Ended(endpoint, r, err) == IsResult(r) /\ Physical(endpoint, r) /\ Evident(r, err)
EndedOnce(endpoint, r, err) ==
    Ended(endpoint, r, err) /\ Len(r.attempts) = (IF r.fallback THEN 2 ELSE 1)
Half(r) ==
    /\ IsResult(r) /\ Len(r.attempts) = 1 /\ Truncating(r.attempts[1])
    /\ ~r.fallback /\ r.owner = 1 /\ r.pending = 0
    /\ \/ Says(r, TRUE, FALSE, "parsed", TRUE)
       \/ Says(r, FALSE, TRUE, "truncated_response", TRUE)

(* The replies of a transport without the rare ones.                        *)
LEMMA ReplyFacts ==
    ASSUME RareReplies = {}, NEW p \in Protocols, NEW q \in Replies[p]
    PROVE  /\ q.tc \in BOOLEAN /\ q.prefix \in BOOLEAN
           /\ \/ q.err \in Failures \ {"too_large"} /\ (q.tc => p = "doq")
              \/ q.err = "framing" /\ q.size \in {"short", "full"}
              \/ q.err = "too_large" /\ p = "doh"
              \/ q.err = "" /\ q.size = "short" /\ ~q.prefix /\ q.body = "invalid"
              \/ /\ q.err = "" /\ q.size = "full"
                 /\ q.tc /\ q.body # "invalid" => q.prefix
<1>1. \/ q \in Unanswered \cup Full \cup BadFrames \cup Short
      \/ q \in TooLarge /\ p = "doh"
      \/ q \in Unfinished /\ p = "doq"
  BY DEF Replies
<1>2. CASE q \in Unanswered
  <2>1. PICK e \in {"timeout", "cancelled", "refused", "network", "fatal"} :
                q = Reply(e, "none", FALSE, FALSE, "none")
    BY <1>2, Zenon DEF Unanswered
  <2>2. q.err = e
    BY <2>1 DEF Reply
  <2>3. ~q.tc /\ ~q.prefix /\ q.tc \in BOOLEAN /\ q.prefix \in BOOLEAN
    BY <2>1 DEF Reply
  <2> QED
    BY <2>2, <2>3 DEF Failures
<1>3. CASE q \in Full
  BY <1>3 DEF Full, Messages
<1>4. CASE q \in BadFrames
  <2>1. PICK tc \in BOOLEAN : q = Reply("framing", "short", tc, FALSE, "none")
    BY <1>4, Zenon DEF BadFrames
  <2>2. q.err = "framing" /\ q.size = "short"
    BY <2>1 DEF Reply
  <2>3. q.tc \in BOOLEAN /\ q.prefix \in BOOLEAN
    BY <2>1 DEF Reply
  <2> QED
    BY <2>2, <2>3
<1>5. CASE q \in Short
  <2>1. PICK tc \in BOOLEAN : q = Reply("", "short", tc, FALSE, "invalid")
    BY <1>5, Zenon DEF Short
  <2>2. q.err = "" /\ q.size = "short" /\ q.body = "invalid"
    BY <2>1 DEF Reply
  <2>3. q.tc \in BOOLEAN /\ q.prefix \in BOOLEAN /\ ~q.prefix
    BY <2>1 DEF Reply
  <2> QED
    BY <2>2, <2>3
<1>6. CASE q \in TooLarge /\ p = "doh"
  <2>1. PICK tc \in BOOLEAN : q = Reply("too_large", "full", tc, FALSE, "none")
    BY <1>6, Zenon DEF TooLarge
  <2>2. q.err = "too_large"
    BY <2>1 DEF Reply
  <2>3. q.tc \in BOOLEAN /\ q.prefix \in BOOLEAN
    BY <2>1 DEF Reply
  <2> QED
    BY <1>6, <2>2, <2>3
<1>7. CASE q \in Unfinished /\ p = "doq"
  <2>1. /\ q.err = "framing" \/ q.err \in Failures \ {"too_large"}
        /\ q.size = "full" /\ q.tc \in BOOLEAN /\ q.prefix \in BOOLEAN
    BY <1>7 DEF Unfinished, Failures
  <2> QED
    BY <1>7, <2>1
<1> QED
  BY <1>1, <1>2, <1>3, <1>4, <1>5, <1>6, <1>7

\* What one attempt alone leaves in a result: no evidence of another.
LEMMA BareFacts ==
    ASSUME NEW p, NEW q
    PROVE  LET r == Bare(p, q)
           IN  /\ IsResult(r) /\ Len(r.attempts) = 1 /\ r.attempts[1] = AttemptOf(p, q)
               /\ ~r.fallback /\ r.fallback \in BOOLEAN /\ r.owner = 1 /\ r.pending = 0
               /\ Says(r, FALSE, FALSE, "", FALSE)
<1> PICK s : s = <<AttemptOf(p, q)>>
  OBVIOUS
<1>1. IsSeq(s) /\ Len(s) = 1 /\ s[1] = AttemptOf(p, q)
  <2>1. s \in Seq({AttemptOf(p, q)}) /\ Len(s) = 1 /\ s[1] = AttemptOf(p, q)
    <3> HIDE DEF AttemptOf
    <3> QED
      OBVIOUS
  <2> QED
    BY <2>1 DEF IsSeq
<1>2. /\ Bare(p, q) = [f \in ResultFields |-> Bare(p, q)[f]]
      /\ Bare(p, q).attempts = s /\ Bare(p, q).fallback = FALSE
      /\ Bare(p, q).owner = 1 /\ Bare(p, q).pending = 0
      /\ Says(Bare(p, q), FALSE, FALSE, "", FALSE)
  BY DEF Bare, ResultFields, Says
<1> QED
  BY <1>1, <1>2 DEF IsResult

(* What the steps of the engine change of a result.                         *)
Became(c, r, pending) ==
    /\ IsResult(c) /\ c.attempts = r.attempts /\ c.fallback = r.fallback
    /\ c.owner = r.owner /\ c.pending = pending

\* Composing, keeping a header and clearing change the evidence only.
LEMMA StepFacts ==
    ASSUME NEW r, IsResult(r), NEW q, NEW i
    PROVE  /\ Became(Composed(r, q, i), r, r.pending)
           /\ Says(Composed(r, q, i), TRUE, FALSE, "parsed", q.tc)
           /\ Became(HeaderOnly(r, i), r, 0)
           /\ Says(HeaderOnly(r, i), FALSE, TRUE, "truncated_response", TRUE)
           /\ Became(Cleared(r), r, 0)
           /\ Says(Cleared(r), FALSE, FALSE, "malformed", FALSE)
BY DEF Became, IsResult, ResultFields, Composed, HeaderOnly, Cleared, Says

\* An exchange that needs no second attempt has ended after its first.
LEMMA EndedAlone ==
    ASSUME RareReplies = {}, NEW p \in Protocols, NEW q \in Replies[p], ~NeedsFallback(p, q)
    PROVE  LET e == SingleAttempt(p, q)
           IN  EndedOnce(p, e.res, e.err) /\ ~e.res.fallback
<1> PICK b : b = Bare(p, q)
  OBVIOUS
<1> PICK a : a = AttemptOf(p, q)
  OBVIOUS
<1>1. /\ IsResult(b) /\ Len(b.attempts) = 1 /\ b.attempts[1] = a
      /\ ~b.fallback /\ b.fallback \in BOOLEAN /\ b.owner = 1 /\ b.pending = 0
      /\ Says(b, FALSE, FALSE, "", FALSE)
  BY BareFacts
<1>2. a.proto = p /\ a.err = q.err /\ a.size = q.size /\ a.tc = q.tc
  BY DEF AttemptOf
<1>3. Ending(a) /\ (p = "tcp" => a.err # "too_large")
  BY <1>2, ReplyFacts DEF Ending, Failures
<1>4. ASSUME NEW r, IsResult(r), r.attempts = b.attempts, r.fallback = b.fallback,
             NEW err, Evident(r, err)
      PROVE  EndedOnce(p, r, err) /\ ~r.fallback
  BY <1>1, <1>2, <1>3, <1>4 DEF EndedOnce, Ended, Physical
<1>5. CASE q.err # ""
  <2>1. Evident(b, q.err)
    <3>1. CASE q.err = "framing"
      <4>1. Unreadable(b, q.err, 1, a)
        BY <1>1, <1>2, <3>1, ReplyFacts DEF Unreadable, Failures, Clean
      <4> QED
        BY <1>1, <4>1 DEF Evident
    <3>2. CASE q.err # "framing"
      <4>1. Nothing(b, q.err, a)
        BY <1>1, <1>2, <1>5, <3>2, ReplyFacts DEF Nothing, Failures
      <4> QED
        BY <1>1, <4>1 DEF Evident
    <3> QED
      BY <3>1, <3>2
  <2> QED
    BY <1>1, <1>4, <1>5, <2>1 DEF SingleAttempt, Exchange
<1>6. CASE q.err = "" /\ q.body = "valid"
  <2> PICK r : r = Composed(b, q, 1)
    OBVIOUS
  <2>1. /\ IsResult(r) /\ r.attempts = b.attempts /\ r.fallback = b.fallback
        /\ r.owner = 1 /\ r.pending = 0 /\ Says(r, TRUE, FALSE, "parsed", q.tc)
    <3>1. Became(r, b, b.pending) /\ Says(r, TRUE, FALSE, "parsed", q.tc)
      BY <1>1, StepFacts, Zenon
    <3> QED
      BY <1>1, <3>1, Zenon DEF Became
  <2>2. Answered(r, "", 1, a)
    BY <1>2, <1>6, <2>1, ReplyFacts DEF Answered, Failures, NeedsFallback
  <2>3. Evident(r, "")
    BY <1>1, <2>1, <2>2 DEF Evident
  <2> QED
    BY <1>4, <1>6, <2>1, <2>3 DEF SingleAttempt, Exchange
<1>7. CASE q.err = "" /\ q.body # "valid"
  <2> PICK k : k = IF p = "tcp" /\ q.tc /\ q.prefix THEN 1 ELSE 0
    OBVIOUS
  <2> PICK r : r = [b EXCEPT !.outcome = "malformed", !.pending = k]
    OBVIOUS
  <2>1. /\ IsResult(r) /\ r.attempts = b.attempts /\ r.fallback = b.fallback
        /\ r.owner = 1 /\ r.pending = k /\ Says(r, FALSE, FALSE, "malformed", FALSE)
    BY <1>1 DEF IsResult, ResultFields, Says
  <2>2. Unreadable(r, "malformed", 1, a)
    BY <1>2, <1>7, <2>1, ReplyFacts DEF Unreadable, Failures, Clean
  <2>3. Evident(r, "malformed")
    BY <1>1, <2>1, <2>2 DEF Evident
  <2> QED
    BY <1>4, <1>7, <2>1, <2>3 DEF SingleAttempt, Exchange
<1> QED
  BY <1>5, <1>6, <1>7

(* A UDP response that has to be repeated, and the TCP attempt after it.    *)
LEMMA HalfWay ==
    ASSUME RareReplies = {}, NEW p \in Protocols, NEW q \in Replies[p], NeedsFallback(p, q)
    PROVE  p = "udp" /\ Half(TruncatedUDP(q))
<1> PICK b : b = Bare("udp", q)
  OBVIOUS
<1> PICK a : a = AttemptOf("udp", q)
  OBVIOUS
<1>1. /\ IsResult(b) /\ Len(b.attempts) = 1 /\ b.attempts[1] = a
      /\ ~b.fallback /\ b.owner = 1 /\ b.pending = 0
  BY BareFacts
<1>2. p = "udp" /\ a.proto = "udp" /\ a.err = "" /\ a.tc = q.tc /\ q.tc /\ q.tc \in BOOLEAN
      /\ a.size = "full"
  BY ReplyFacts DEF AttemptOf, NeedsFallback, Failures
<1>3. Truncating(a)
  BY <1>2 DEF Truncating
<1>4. /\ Became(Composed(b, q, 1), b, 0) /\ Says(Composed(b, q, 1), TRUE, FALSE, "parsed", q.tc)
      /\ Became(HeaderOnly(b, 1), b, 0)
      /\ Says(HeaderOnly(b, 1), FALSE, TRUE, "truncated_response", TRUE)
  BY <1>1, StepFacts
<1>5. Half(Composed(b, q, 1))
  BY <1>1, <1>2, <1>3, <1>4 DEF Half, Became, Says
<1>6. Half(HeaderOnly(b, 1))
  BY <1>1, <1>3, <1>4 DEF Half, Became
<1> QED
  BY <1>2, <1>5, <1>6 DEF TruncatedUDP

\* The TCP attempt follows the UDP one in the transcript.
LEMMA Appended ==
    ASSUME NEW s, IsSeq(s), Len(s) = 1, NEW a
    PROVE  LET t == Append(s, a)
           IN  IsSeq(t) /\ Len(t) = 2 /\ t[1] = s[1] /\ t[2] = a
<1> PICK S : s \in Seq(S)
  BY DEF IsSeq
<1>1. \A A, B : A \subseteq B => Seq(A) \subseteq Seq(B)
  OBVIOUS
<1> PICK U : U = S \cup {a}
  OBVIOUS
<1>2. s \in Seq(U) /\ a \in U
  BY <1>1
<1>3. Append(s, a) \in Seq(U) /\ Len(Append(s, a)) = 2
  BY <1>2
<1>4. Append(s, a)[Len(s) + 1] = a /\ \A i \in 1 .. Len(s) : Append(s, a)[i] = s[i]
  BY <1>2
<1> QED
  BY <1>3, <1>4 DEF IsSeq

\* The TCP attempt after a truncated UDP response ends the exchange.
LEMMA EndedTwice ==
    ASSUME RareReplies = {}, NEW udp, Half(udp), NEW q \in Replies["tcp"]
    PROVE  LET e == WithFallback(udp, q)
           IN  EndedOnce("udp", e.res, e.err) /\ e.res.fallback
<1> DEFINE Once(e) == EndedOnce("udp", e.res, e.err) /\ e.res.fallback
<1> SUFFICES Once(WithFallback(udp, q))
  OBVIOUS
<1> PICK a : a = AttemptOf("tcp", q)
  OBVIOUS
<1> PICK s : s = Append(udp.attempts, a)
  OBVIOUS
<1> PICK r : r = [udp EXCEPT !.attempts = s, !.fallback = TRUE]
  OBVIOUS
<1> PICK tcp : tcp = [r EXCEPT !.owner = 2]
  OBVIOUS
<1>1. /\ IsResult(udp) /\ Len(udp.attempts) = 1 /\ IsSeq(udp.attempts)
      /\ Truncating(udp.attempts[1]) /\ udp.owner = 1 /\ udp.pending = 0
      /\ \/ Says(udp, TRUE, FALSE, "parsed", TRUE)
         \/ Says(udp, FALSE, TRUE, "truncated_response", TRUE)
  BY DEF Half, IsResult
<1>2. IsSeq(s) /\ Len(s) = 2 /\ s[1] = udp.attempts[1] /\ s[2] = a
  BY <1>1, Appended
<1>3. /\ r = [f \in ResultFields |-> r[f]] /\ r.attempts = s /\ r.fallback = TRUE
      /\ r.owner = 1 /\ r.pending = 0
      /\ \/ Says(r, TRUE, FALSE, "parsed", TRUE)
         \/ Says(r, FALSE, TRUE, "truncated_response", TRUE)
  BY <1>1 DEF IsResult, ResultFields, Says
<1>4. /\ IsResult(r) /\ IsResult(tcp) /\ tcp.attempts = s /\ tcp.fallback = TRUE
      /\ tcp.owner = 2 /\ tcp.pending = 0
  BY <1>2, <1>3 DEF IsResult, ResultFields
<1>5. a.proto = "tcp" /\ a.err = q.err /\ a.size = q.size /\ a.tc = q.tc
  BY DEF AttemptOf
<1>6. "tcp" \in Protocols
  BY ProtocolsAssumption
<1>7. /\ q.tc \in BOOLEAN /\ q.prefix \in BOOLEAN
      /\ \/ q.err \in Failures \ {"too_large"} /\ ~q.tc
         \/ q.err = "framing" /\ q.size \in {"short", "full"}
         \/ q.err = "" /\ q.size = "short" /\ ~q.prefix /\ q.body = "invalid"
         \/ q.err = "" /\ q.size = "full"
  <2> PICK p \in Protocols : p = "tcp"
    BY <1>6
  <2>1. q \in Replies[p]
    OBVIOUS
  <2> QED
    BY <2>1, ReplyFacts
<1>8. \A x, y : Exchange(x, y).res = x /\ Exchange(x, y).err = y
  BY DEF Exchange
<1>9. Ending(a) /\ a.err # "too_large"
  BY <1>5, <1>7 DEF Ending, Failures
<1>10. ASSUME NEW c, IsResult(c), c.attempts = s, c.fallback = TRUE, NEW err, Evident(c, err)
      PROVE  Once(Exchange(c, err))
  <2>1. EndedOnce("udp", c, err) /\ c.fallback
    BY <1>1, <1>2, <1>5, <1>9, <1>10 DEF EndedOnce, Ended, Physical
  <2> QED
    BY <1>8, <2>1
<1> HIDE DEF Once
<1>11. WithFallback(udp, q) =
         IF q.err = "framing" THEN Exchange(Cleared(tcp), "framing")
         ELSE IF q.err # "" THEN Exchange(r, q.err)
         ELSE IF q.body = "valid" THEN Exchange(Composed(tcp, q, 2), "")
         ELSE Exchange(IF q.tc /\ q.prefix THEN HeaderOnly(tcp, 2) ELSE Cleared(tcp), "malformed")
  BY DEF WithFallback
<1>12. /\ Became(Composed(tcp, q, 2), tcp, 0)
       /\ Says(Composed(tcp, q, 2), TRUE, FALSE, "parsed", q.tc)
       /\ Became(HeaderOnly(tcp, 2), tcp, 0)
       /\ Says(HeaderOnly(tcp, 2), FALSE, TRUE, "truncated_response", TRUE)
       /\ Became(Cleared(tcp), tcp, 0) /\ Says(Cleared(tcp), FALSE, FALSE, "malformed", FALSE)
  <2>1. /\ Became(Composed(tcp, q, 2), tcp, tcp.pending)
        /\ Says(Composed(tcp, q, 2), TRUE, FALSE, "parsed", q.tc)
        /\ Became(HeaderOnly(tcp, 2), tcp, 0)
        /\ Says(HeaderOnly(tcp, 2), FALSE, TRUE, "truncated_response", TRUE)
        /\ Became(Cleared(tcp), tcp, 0) /\ Says(Cleared(tcp), FALSE, FALSE, "malformed", FALSE)
    BY <1>4, StepFacts
  <2> QED
    BY <1>4, <2>1, Zenon
<1>13. /\ IsResult(Composed(tcp, q, 2)) /\ IsResult(HeaderOnly(tcp, 2)) /\ IsResult(Cleared(tcp))
       /\ Composed(tcp, q, 2).attempts = s /\ HeaderOnly(tcp, 2).attempts = s
       /\ Cleared(tcp).attempts = s /\ Composed(tcp, q, 2).fallback = TRUE
       /\ HeaderOnly(tcp, 2).fallback = TRUE /\ Cleared(tcp).fallback = TRUE
  BY <1>4, <1>12 DEF Became
<1>14. ASSUME q.err \in {"", "framing"}, q.size \in {"short", "full"},
              NEW err, err = IF q.err = "" THEN "malformed" ELSE "framing"
       PROVE  Evident(Cleared(tcp), err)
  <2>1. Unreadable(Cleared(tcp), err, 2, a)
    BY <1>4, <1>5, <1>12, <1>14 DEF Unreadable, Became
  <2> QED
    BY <1>2, <1>13, <2>1 DEF Evident
<1>15. CASE q.err = "framing"
  <2>1. q.size \in {"short", "full"}
    BY <1>15, <1>7 DEF Failures
  <2>2. Evident(Cleared(tcp), "framing")
    BY <1>14, <1>15, <2>1
  <2>3. Once(Exchange(Cleared(tcp), "framing"))
    BY <1>10, <1>13, <2>2
  <2> QED
    BY <1>11, <1>15, <2>3
<1>16. CASE q.err \notin {"", "framing"}
  <2>1. Retains(r, q.err, 2, a)
    <3>1. q.err \in Failures \ {"too_large"}
      BY <1>16, <1>7
    <3>2. r.owner \in 1 .. 2 - 1 /\ Truncating(r.attempts[r.owner])
      BY <1>1, <1>2, <1>3
    <3> QED
      BY <1>3, <1>5, <3>1, <3>2 DEF Retains
  <2>2. Evident(r, q.err)
    BY <1>2, <1>3, <2>1 DEF Evident
  <2>3. Once(Exchange(r, q.err))
    BY <1>3, <1>4, <1>10, <2>2
  <2> QED
    BY <1>11, <1>16, <2>3
<1>17. CASE q.err = "" /\ q.body = "valid"
  <2>1. Answered(Composed(tcp, q, 2), "", 2, a)
    BY <1>4, <1>5, <1>12, <1>17, <1>7 DEF Answered, Became, Failures
  <2>2. Evident(Composed(tcp, q, 2), "")
    BY <1>2, <1>13, <2>1 DEF Evident
  <2>3. Once(Exchange(Composed(tcp, q, 2), ""))
    BY <1>10, <1>13, <2>2
  <2> QED
    BY <1>11, <1>17, <2>3
<1>18. CASE q.err = "" /\ q.body # "valid"
  <2>1. q.size \in {"short", "full"} /\ (q.prefix => q.size = "full")
    BY <1>18, <1>7 DEF Failures
  <2>2. CASE q.tc /\ q.prefix
    <3>1. HeaderRead(HeaderOnly(tcp, 2), "malformed", 2, a)
      BY <1>4, <1>5, <1>12, <1>18, <2>1, <2>2 DEF HeaderRead, Became, Clean
    <3>2. Evident(HeaderOnly(tcp, 2), "malformed")
      BY <1>2, <1>13, <3>1 DEF Evident
    <3>3. Once(Exchange(HeaderOnly(tcp, 2), "malformed"))
      BY <1>10, <1>13, <3>2
    <3> QED
      BY <1>11, <1>18, <2>2, <3>3
  <2>3. CASE ~(q.tc /\ q.prefix)
    <3>1. Evident(Cleared(tcp), "malformed")
      BY <1>14, <1>18, <2>1
    <3>2. Once(Exchange(Cleared(tcp), "malformed"))
      BY <1>10, <1>13, <3>1
    <3> QED
      BY <1>11, <1>18, <2>3, <3>2
  <2> QED
    BY <2>2, <2>3
<1> QED
  BY <1>15, <1>16, <1>17, <1>18

(* What an exchange that ended once is.                                     *)
LEMMA EndedOnceFacts ==
    ASSUME NEW p, NEW r, NEW err, EndedOnce(p, r, err),
           NEW t, t = r.attempts
    PROVE  /\ IsResult(r) /\ IsSeq(t) /\ r.fallback \in BOOLEAN
           /\ ~r.fallback =>
                 /\ Len(t) = 1 /\ t[1].proto = p /\ Ending(t[1])
                 /\ t[1].proto = "tcp" => t[1].err # "too_large"
                 /\ \/ Answered(r, err, 1, t[1]) \/ Unreadable(r, err, 1, t[1])
                    \/ Nothing(r, err, t[1])
           /\ r.fallback =>
                 /\ Len(t) = 2 /\ p = "udp" /\ t[2].proto = "tcp" /\ Ending(t[2])
                 /\ t[2].err # "too_large" /\ Truncating(t[1])
                 /\ \/ Answered(r, err, 2, t[2]) \/ Unreadable(r, err, 2, t[2])
                    \/ HeaderRead(r, err, 2, t[2]) \/ Retains(r, err, 2, t[2])
<1>1. /\ IsResult(r) /\ IsSeq(t) /\ Physical(p, r) /\ Evident(r, err)
      /\ Len(t) = (IF r.fallback THEN 2 ELSE 1)
  BY DEF EndedOnce, Ended, IsResult
<1>2. r.fallback \in BOOLEAN
  BY <1>1 DEF Physical
<1>3. CASE ~r.fallback
  <2>1. Len(t) = 1
    BY <1>1, <1>3
  <2>2. t[1].proto = p /\ Ending(t[1]) /\ (t[1].proto = "tcp" => t[1].err # "too_large")
    BY <1>1, <1>3, <2>1 DEF Physical
  <2>3. Answered(r, err, 1, t[1]) \/ Unreadable(r, err, 1, t[1]) \/ Nothing(r, err, t[1])
    BY <1>1, <1>3, <2>1 DEF Evident, HeaderRead, Retains
  <2> QED
    BY <1>1, <1>2, <1>3, <2>1, <2>2, <2>3
<1>4. CASE r.fallback
  <2>1. Len(t) = 2
    BY <1>1, <1>4
  <2>2. /\ p = "udp" /\ t[2].proto = "tcp" /\ Ending(t[2])
        /\ t[2].err # "too_large" /\ Truncating(t[1])
    BY <1>1, <1>4, <2>1 DEF Physical
  <2>3. \/ Answered(r, err, 2, t[2]) \/ Unreadable(r, err, 2, t[2])
        \/ HeaderRead(r, err, 2, t[2]) \/ Retains(r, err, 2, t[2])
    BY <1>1, <1>4, <2>1 DEF Evident, Nothing
  <2> QED
    BY <1>1, <1>2, <1>4, <2>1, <2>2, <2>3
<1> QED
  BY <1>2, <1>3, <1>4

\* A first exchange that may be retried failed, its last attempt retryably.
LEMMA EndedOnceRetryable ==
    ASSUME NEW p, NEW f, NEW why, EndedOnce(p, f, why), Retryable(why),
           NEW s, s = f.attempts
    PROVE  /\ ~f.fallback => Nothing(f, why, s[1]) /\ s[1].err = why /\ Repeatable(s[1])
           /\ f.fallback => Retains(f, why, 2, s[2]) /\ s[2].err = why /\ Repeatable(s[2])
<1>1. why # "" /\ ~Malformed(why) /\ why # "too_large" /\ why \in Failures
  BY DEF Retryable, Malformed, Failures
<1>2. \A n, a : /\ ~Answered(f, why, n, a) /\ ~Unreadable(f, why, n, a)
                /\ ~HeaderRead(f, why, n, a)
  BY <1>1 DEF Answered, Unreadable, HeaderRead, Malformed
<1>3. \A a : Ending(a) /\ a.err = why => Repeatable(a)
  BY <1>1 DEF Ending, Repeatable, Malformed
<1>4. CASE ~f.fallback
  <2>1. Nothing(f, why, s[1]) /\ Ending(s[1])
    BY <1>2, <1>4, EndedOnceFacts
  <2> QED
    BY <1>3, <1>4, <2>1 DEF Nothing
<1>5. CASE f.fallback
  <2>1. Retains(f, why, 2, s[2]) /\ Ending(s[2])
    BY <1>2, <1>5, EndedOnceFacts
  <2> QED
    BY <1>3, <1>5, <2>1 DEF Retains
<1> QED
  BY <1>4, <1>5, EndedOnceFacts

(* Two transcripts in a row, and the evidence of the second read in both.   *)
Joins(u, s, t) == u = s \o t

\* Each attempt keeps its place, or its place after those before it.
LEMMA Concatenated ==
    ASSUME NEW s, IsSeq(s), NEW t, IsSeq(t), NEW u, Joins(u, s, t),
           NEW m, m = Len(s), NEW n, n = Len(t)
    PROVE  /\ IsSeq(u) /\ Len(u) = m + n /\ m \in Nat /\ n \in Nat
           /\ \A i \in 1 .. m : u[i] = s[i]
           /\ \A i \in 1 .. n : u[m + i] = t[i]
<1> PICK S : s \in Seq(S)
  BY DEF IsSeq
<1> PICK T : t \in Seq(T)
  BY DEF IsSeq
<1>1. \A A, B : A \subseteq B => Seq(A) \subseteq Seq(B)
  OBVIOUS
<1> PICK U : U = S \cup T
  OBVIOUS
<1>2. s \in Seq(U) /\ t \in Seq(U)
  BY <1>1
<1>3. s \o t \in Seq(U) /\ Len(s \o t) = Len(s) + Len(t) /\ Len(s) \in Nat /\ Len(t) \in Nat
  BY <1>2
<1>4. \A i \in 1 .. Len(s) : (s \o t)[i] = s[i]
  BY <1>2
<1>5. \A i \in 1 .. Len(t) : (s \o t)[Len(s) + i] = t[i]
  BY <1>2
<1> QED
  BY <1>3, <1>4, <1>5 DEF IsSeq, Joins

\* The attempts of a first exchange and its retry, one by one.
LEMMA ConcatenatedFew ==
    ASSUME NEW s, IsSeq(s), NEW t, IsSeq(t), NEW u, Joins(u, s, t)
    PROVE  /\ IsSeq(u)
           /\ Len(s) = 1 /\ Len(t) = 1 => Len(u) = 2 /\ u[1] = s[1] /\ u[2] = t[1]
           /\ Len(s) = 1 /\ Len(t) = 2 =>
                 Len(u) = 3 /\ u[1] = s[1] /\ u[2] = t[1] /\ u[3] = t[2]
           /\ Len(s) = 2 /\ Len(t) = 1 =>
                 Len(u) = 3 /\ u[1] = s[1] /\ u[2] = s[2] /\ u[3] = t[1]
<1> PICK m, n : m = Len(s) /\ n = Len(t)
  OBVIOUS
<1>1. /\ IsSeq(u) /\ Len(u) = m + n /\ m \in Nat /\ n \in Nat
      /\ \A i \in 1 .. m : u[i] = s[i]
      /\ \A i \in 1 .. n : u[m + i] = t[i]
  BY Concatenated
<1>2. \A i \in 1 .. n : \A k : k = m + i => u[k] = t[i]
  BY <1>1
<1>3. CASE m = 1 /\ n = 1
  <2>1. 1 \in 1 .. m /\ 1 \in 1 .. n /\ 2 = m + 1
    BY <1>3
  <2> QED
    BY <1>1, <1>2, <1>3, <2>1
<1>4. CASE m = 1 /\ n = 2
  <2>1. 1 \in 1 .. m /\ 1 \in 1 .. n /\ 2 \in 1 .. n /\ 2 = m + 1 /\ 3 = m + 2
    BY <1>4
  <2> QED
    BY <1>1, <1>2, <1>4, <2>1
<1>5. CASE m = 2 /\ n = 1
  <2>1. 1 \in 1 .. m /\ 2 \in 1 .. m /\ 1 \in 1 .. n /\ 3 = m + 1
    BY <1>5
  <2> QED
    BY <1>1, <1>2, <1>5, <2>1
<1> QED
  BY <1>1, <1>3, <1>4, <1>5

Later(i, n) == IF i = 0 THEN 0 ELSE i + n
SameEvidence(w, r) ==
    /\ w.parsed = r.parsed /\ w.header = r.header /\ w.outcome = r.outcome
    /\ w.truncated = r.truncated /\ w.tcFlag = r.tcFlag
Moved(w, r, n) ==
    /\ w.owner = Later(r.owner, n) /\ w.pending = Later(r.pending, n) /\ SameEvidence(w, r)

(* Evidence stays evidence of the same attempt where it is in u.            *)
LEMMA EvidenceMoves ==
    ASSUME NEW w, NEW r, NEW m \in Nat, NEW n \in Nat \ {0}, NEW k, k = n + m,
           Moved(w, r, m), NEW err, NEW a
    PROVE  /\ Answered(r, err, n, a) => Answered(w, err, k, a)
           /\ Unreadable(r, err, n, a) => Unreadable(w, err, k, a)
           /\ w.fallback /\ HeaderRead(r, err, n, a) => HeaderRead(w, err, k, a)
           /\ ~w.fallback /\ Nothing(r, err, a) => Nothing(w, err, a)
<1>1. r.pending = 0 => w.pending = 0
  BY DEF Moved, Later
<1>2. r.owner = n => w.owner = k
  BY DEF Moved, Later
<1>3. r.pending = n => w.pending = k
  BY DEF Moved, Later
<1>4. Answered(r, err, n, a) => Answered(w, err, k, a)
  BY <1>1, <1>2 DEF Answered, Moved, SameEvidence, Says
<1>5. Unreadable(r, err, n, a) => Unreadable(w, err, k, a)
  <2>1. \A verdict : Says(r, FALSE, FALSE, verdict, FALSE) => Says(w, FALSE, FALSE, verdict, FALSE)
    BY DEF Moved, SameEvidence, Says
  <2> QED
    BY <1>1, <1>2, <1>3, <2>1 DEF Unreadable
<1>6. w.fallback /\ HeaderRead(r, err, n, a) => HeaderRead(w, err, k, a)
  BY <1>1, <1>2 DEF HeaderRead, Moved, SameEvidence, Says
<1>7. ~w.fallback /\ Nothing(r, err, a) => Nothing(w, err, a)
  BY <1>1 DEF Nothing, Moved, SameEvidence, Says
<1> QED
  BY <1>4, <1>5, <1>6, <1>7

\* A retry of the whole exchange keeps both transcripts, and the later evidence.
LEMMA WholeRetryFacts ==
    ASSUME NEW f, IsResult(f), NEW r, IsResult(r), NEW w, w = WholeRetry(f, r),
           NEW n, n = Len(f.attempts)
    PROVE  /\ IsResult(w) /\ Joins(w.attempts, f.attempts, r.attempts)
           /\ w.fallback = r.fallback /\ Moved(w, r, n)
<1> PICK s : s = f.attempts \o r.attempts
  OBVIOUS
<1>1. IsSeq(s)
  BY SequencesGrow DEF IsResult
<1> PICK x, y, z : x = Later(r.owner, n) /\ y = Later(r.from, n) /\ z = Later(r.pending, n)
  OBVIOUS
<1> PICK v : v = Shifted(r, n)
  OBVIOUS
<1>2. v = [r EXCEPT !.owner = x, !.from = y, !.pending = z]
  BY DEF Shifted, Later
<1>3. w = [v EXCEPT !.attempts = s]
  BY DEF WholeRetry
<1>4. /\ IsResult(w) /\ w.attempts = s /\ w.fallback = r.fallback
      /\ w.owner = x /\ w.pending = z /\ SameEvidence(w, r)
  BY <1>1, <1>2, <1>3 DEF IsResult, ResultFields, SameEvidence
<1> QED
  BY <1>4 DEF Moved, Joins

(* A retry of the whole exchange ...                                        *)
LEMMA EndedAfterRetry ==
    ASSUME NEW p, NEW f, NEW why, EndedOnce(p, f, why), ~f.fallback, Retryable(why),
           NEW r, NEW err, EndedOnce(p, r, err)
    PROVE  Ended(p, WholeRetry(f, r), err)
<1> PICK s, t, u, w : /\ s = f.attempts /\ t = r.attempts /\ Joins(u, s, t)
                      /\ w = WholeRetry(f, r)
  BY DEF Joins
<1>1. IsResult(f) /\ IsSeq(s) /\ Len(s) = 1 /\ s[1].proto = p /\ Repeatable(s[1])
  BY EndedOnceFacts, EndedOnceRetryable
<1>2. IsResult(r) /\ IsSeq(t) /\ r.fallback \in BOOLEAN
  BY EndedOnceFacts
<1>3. IsResult(w) /\ w.attempts = u /\ w.fallback = r.fallback /\ Moved(w, r, 1)
  BY <1>1, <1>2, WholeRetryFacts DEF Joins
<1>4. CASE ~r.fallback
  <2>1. /\ Len(t) = 1 /\ t[1].proto = p /\ Ending(t[1])
        /\ t[1].proto = "tcp" => t[1].err # "too_large"
        /\ Answered(r, err, 1, t[1]) \/ Unreadable(r, err, 1, t[1]) \/ Nothing(r, err, t[1])
    BY <1>4, EndedOnceFacts
  <2>2. Len(u) = 2 /\ u[1] = s[1] /\ u[2] = t[1]
    BY <1>1, <1>2, <2>1, ConcatenatedFew
  <2>3. Physical(p, w)
    BY <1>1, <1>2, <1>3, <1>4, <2>1, <2>2 DEF Physical
  <2>4. Answered(w, err, 2, t[1]) \/ Unreadable(w, err, 2, t[1]) \/ Nothing(w, err, t[1])
    <3>1. 2 = 1 + 1
      OBVIOUS
    <3> QED
      BY <1>3, <1>4, <2>1, <3>1, EvidenceMoves
  <2>5. Evident(w, err)
    BY <1>3, <2>2, <2>4 DEF Evident
  <2> QED
    BY <1>3, <2>3, <2>5 DEF Ended
<1>5. CASE r.fallback
  <2>1. /\ Len(t) = 2 /\ p = "udp" /\ t[2].proto = "tcp" /\ Ending(t[2])
        /\ t[2].err # "too_large" /\ Truncating(t[1])
        /\ \/ Answered(r, err, 2, t[2]) \/ Unreadable(r, err, 2, t[2])
           \/ HeaderRead(r, err, 2, t[2]) \/ Retains(r, err, 2, t[2])
    BY <1>5, EndedOnceFacts
  <2>2. Len(u) = 3 /\ u[1] = s[1] /\ u[2] = t[1] /\ u[3] = t[2]
    BY <1>1, <1>2, <2>1, ConcatenatedFew
  <2>3. Physical(p, w)
    BY <1>1, <1>2, <1>3, <1>5, <2>1, <2>2 DEF Physical
  <2>4. Retains(r, err, 2, t[2]) => Retains(w, err, 3, t[2])
    <3> SUFFICES ASSUME Retains(r, err, 2, t[2])
                 PROVE  Retains(w, err, 3, t[2])
      OBVIOUS
    <3>1. r.owner = 1 /\ w.owner = 2 /\ w.pending = 0
      BY <1>3 DEF Retains, Moved, Later
    <3>2. 2 \in 1 .. 3 - 1 /\ Truncating(u[2])
      BY <2>1, <2>2
    <3>3. w.owner \in 1 .. 3 - 1 /\ Truncating(w.attempts[w.owner])
      BY <1>3, <3>1, <3>2
    <3> QED
      BY <1>3, <3>1, <3>3 DEF Retains, Moved, SameEvidence, Says
  <2>5. \/ Answered(w, err, 3, t[2]) \/ Unreadable(w, err, 3, t[2])
        \/ HeaderRead(w, err, 3, t[2]) \/ Retains(w, err, 3, t[2])
    <3>1. 3 = 2 + 1
      OBVIOUS
    <3> QED
      <4>1. w.fallback
        BY <1>3, <1>5
      <4> QED
        BY <1>3, <2>1, <2>4, <3>1, <4>1, EvidenceMoves
  <2>6. Evident(w, err)
    BY <1>3, <2>2, <2>5 DEF Evident
  <2> QED
    BY <1>3, <2>3, <2>6 DEF Ended
<1> QED
  BY <1>4, <1>5

(* ... and of its TCP attempt alone.                                        *)
LEMMA EndedAfterTCPRetry ==
    ASSUME NEW f, NEW why, EndedOnce("udp", f, why), f.fallback, Retryable(why),
           NEW r, NEW err, EndedOnce("tcp", r, err), ~r.fallback
    PROVE  Ended("udp", FallbackRetry(f, r, err), err)
<1> PICK s, t, u, w : /\ s = f.attempts /\ t = r.attempts /\ Joins(u, s, t)
                      /\ w = FallbackRetry(f, r, err)
  BY DEF Joins
<1>1. /\ IsResult(f) /\ IsSeq(s) /\ Len(s) = 2 /\ s[2].proto = "tcp" /\ Repeatable(s[2])
      /\ Truncating(s[1]) /\ Retains(f, why, 2, s[2])
  BY EndedOnceFacts, EndedOnceRetryable
<1>2. /\ IsResult(r) /\ IsSeq(t) /\ Len(t) = 1 /\ t[1].proto = "tcp" /\ Ending(t[1])
      /\ t[1].err # "too_large"
      /\ Answered(r, err, 1, t[1]) \/ Unreadable(r, err, 1, t[1]) \/ Nothing(r, err, t[1])
  BY EndedOnceFacts
<1>3. IsSeq(u) /\ Len(u) = 3 /\ u[1] = s[1] /\ u[2] = s[2] /\ u[3] = t[1]
  BY <1>1, <1>2, ConcatenatedFew
<1>4. ASSUME IsResult(w), w.attempts = u, w.fallback = TRUE
      PROVE  Physical("udp", w)
  BY <1>1, <1>2, <1>3, <1>4 DEF Physical
<1>5. CASE err = "" \/ Malformed(err)
  <2> PICK v : v = WholeRetry(f, r)
    OBVIOUS
  <2>1. IsResult(v) /\ v.attempts = u /\ Moved(v, r, 2)
    <3>1. IsResult(f) /\ IsResult(r) /\ 2 = Len(f.attempts)
      BY <1>1, <1>2
    <3>2. IsResult(v) /\ Joins(v.attempts, f.attempts, r.attempts) /\ Moved(v, r, 2)
      BY <3>1, WholeRetryFacts
    <3> QED
      BY <3>2 DEF Joins
  <2>2. w = [v EXCEPT !.fallback = TRUE]
    BY <1>5 DEF FallbackRetry
  <2>3. IsResult(w) /\ w.attempts = u /\ w.fallback = TRUE /\ Moved(w, r, 2)
    BY <2>1, <2>2 DEF IsResult, ResultFields, Moved, SameEvidence
  <2>4. Answered(r, err, 1, t[1]) \/ Unreadable(r, err, 1, t[1])
    BY <1>2, <1>5 DEF Nothing, Failures, Malformed
  <2>5. Answered(w, err, 3, t[1]) \/ Unreadable(w, err, 3, t[1])
    <3>1. 3 = 1 + 2
      OBVIOUS
    <3> QED
      BY <2>3, <2>4, <3>1, EvidenceMoves
  <2>6. Evident(w, err)
    BY <1>3, <2>3, <2>5 DEF Evident
  <2> QED
    BY <1>4, <2>3, <2>6 DEF Ended
<1>6. CASE ~(err = "" \/ Malformed(err))
  <2>1. w = [f EXCEPT !.attempts = u]
    BY <1>6 DEF FallbackRetry, Joins
  <2>2. /\ IsResult(w) /\ w.attempts = u /\ w.fallback = f.fallback
        /\ w.owner = f.owner /\ w.pending = f.pending /\ SameEvidence(w, f)
    BY <1>1, <1>3, <2>1 DEF IsResult, ResultFields, SameEvidence
  <2>3. w.fallback = TRUE
    BY <2>2, EndedOnceFacts
  <2>4. t[1].err = err /\ err \in Failures \ {"too_large"}
    <3>1. Nothing(r, err, t[1])
      BY <1>2, <1>6 DEF Answered, Unreadable, Malformed
    <3> QED
      BY <1>2, <3>1 DEF Nothing
  <2>5. w.owner \in 1 .. 3 - 1 /\ Truncating(w.attempts[w.owner])
    <3>1. f.owner = 1
      BY <1>1 DEF Retains
    <3>2. 1 \in 1 .. 3 - 1 /\ Truncating(u[1])
      BY <1>1, <1>3
    <3> QED
      BY <2>2, <3>1, <3>2
  <2>6. Retains(w, err, 3, u[3])
    BY <1>1, <1>3, <2>2, <2>3, <2>4, <2>5 DEF Retains, SameEvidence, Says
  <2>7. Evident(w, err)
    BY <1>3, <2>2, <2>6 DEF Evident
  <2> QED
    BY <1>4, <2>2, <2>3, <2>7 DEF Ended
<1> QED
  BY <1>5, <1>6

(* A header promoted to be the evidence ends the exchange no less.          *)
LEMMA PromotedEnded ==
    ASSUME NEW p, NEW r, NEW err, Ended(p, r, err), NEW c, c = Promoted(r, err)
    PROVE  Ended(p, c, err) /\ c.attempts = r.attempts /\ c.fallback = r.fallback
<1> PICK s, n, a : s = r.attempts /\ n = Len(s) /\ a = s[n]
  OBVIOUS
<1>1. IsResult(r) /\ Physical(p, r) /\ Evident(r, err)
  BY DEF Ended
<1>2. CASE /\ r.pending = n /\ r.fallback /\ Malformed(err)
           /\ a.proto = "tcp" /\ Clean(a) /\ r.owner = n
  <2>1. c = HeaderOnly(r, n)
    BY <1>2 DEF Promoted, LastAttempt
  <2>2. Became(c, r, 0) /\ Says(c, FALSE, TRUE, "truncated_response", TRUE)
    BY <1>1, <2>1, StepFacts
  <2>3. n # 0
    BY <1>1, <1>2 DEF Physical
  <2>4. Unreadable(r, err, n, a)
    BY <1>1, <1>2, <2>3 DEF Evident, Answered, HeaderRead, Nothing, Retains
  <2>5. HeaderRead(c, err, n, a)
    BY <1>2, <2>2, <2>3, <2>4 DEF HeaderRead, Unreadable, Became, Clean
  <2>6. c.attempts = s /\ c.fallback = r.fallback /\ IsResult(c)
    BY <2>2 DEF Became
  <2>7. Physical(p, c) /\ Evident(c, err)
    BY <1>1, <2>5, <2>6 DEF Physical, Evident
  <2> QED
    BY <2>6, <2>7 DEF Ended
<1>3. CASE ~(/\ r.pending = n /\ r.fallback /\ Malformed(err)
             /\ a.proto = "tcp" /\ Clean(a) /\ r.owner = n)
  <2>1. c = r
    BY <1>3 DEF Promoted, LastAttempt
  <2> QED
    BY <2>1
<1> QED
  BY <1>2, <1>3

(* The transcript s of n attempts of an exchange, the k-th of which was the *)
(* truncated UDP response that TCP replaces, if any.                        *)
Shape(p, s, n, k) ==
    /\ n \in 1 .. 3 /\ k \in 0 .. n - 1
    /\ k = 0 => n # 3
    /\ k # 0 => p = "udp" /\ Truncating(s[k])
    /\ \A j \in 1 .. n : s[j].proto = IF k = 0 THEN p ELSE IF j <= k THEN "udp" ELSE "tcp"
    /\ \A j \in 1 .. n - 1 : j # k => Repeatable(s[j])
    /\ Ending(s[n]) /\ (s[n].proto = "tcp" => s[n].err # "too_large")

\* The transcript of an exchange that ended has that shape.
LEMMA Shaped ==
    ASSUME NEW p, NEW r, NEW err, Ended(p, r, err), NEW s, s = r.attempts, NEW n, n = Len(s)
    PROVE  /\ IsSeq(s) /\ r.fallback \in BOOLEAN
           /\ \E k \in 0 .. n - 1 : Shape(p, s, n, k) /\ (r.fallback <=> k # 0)
<1>1. /\ IsSeq(s) /\ r.fallback \in BOOLEAN /\ Ending(s[n])
      /\ s[n].proto = "tcp" => s[n].err # "too_large"
      /\ ~r.fallback => /\ s[n].proto = p
                        /\ n = 1 \/ (n = 2 /\ s[1].proto = p /\ Repeatable(s[1]))
      /\ r.fallback =>
            /\ p = "udp" /\ s[n].proto = "tcp"
            /\ \/ n = 2 /\ Truncating(s[1])
               \/ n = 3 /\ s[1].proto = "udp" /\ Repeatable(s[1]) /\ Truncating(s[2])
               \/ n = 3 /\ Truncating(s[1]) /\ s[2].proto = "tcp" /\ Repeatable(s[2])
  BY DEF Ended, IsResult, Physical
<1>2. \A a : Truncating(a) => a.proto = "udp"
  BY DEF Truncating
<1>3. ASSUME NEW k \in {0, 1, 2}, k = 0 \/ k = 1 \/ k = 2, n = 1 \/ n = 2 \/ n = 3, k < n,
             k = 0 => n # 3 /\ \A j \in {1, 2} : j <= n => s[j].proto = p,
             k # 0 => /\ p = "udp" /\ Truncating(s[k])
                      /\ k = 2 => s[1].proto = "udp"
                      /\ k = 1 /\ n = 3 => s[2].proto = "tcp"
                      /\ s[n].proto = "tcp",
             \A j \in {1, 2} : j < n /\ j # k => Repeatable(s[j])
      PROVE  k \in 0 .. n - 1 /\ Shape(p, s, n, k)
  <2>1. k \in 0 .. n - 1 /\ n \in 1 .. 3
    BY <1>3
  <2>2. ASSUME NEW j \in 1 .. n - 1, j # k
        PROVE  Repeatable(s[j])
    <3>1. j = 1 \/ j = 2
      BY <1>3
    <3> QED
      BY <1>3, <2>2, <3>1
  <2>3. ASSUME NEW j \in 1 .. n
        PROVE  s[j].proto = IF k = 0 THEN p ELSE IF j <= k THEN "udp" ELSE "tcp"
    <3>1. j = 1 \/ j = 2 \/ j = 3
      BY <1>3
    <3>2. CASE k = 0
      BY <1>3, <3>1, <3>2
    <3>3. CASE k = 1
      BY <1>2, <1>3, <3>1, <3>3
    <3>4. CASE k = 2
      BY <1>2, <1>3, <3>1, <3>4
    <3> QED
      BY <1>3, <3>2, <3>3, <3>4
  <2> QED
    BY <1>1, <1>3, <2>1, <2>2, <2>3 DEF Shape
<1>4. CASE ~r.fallback
  <2> PICK k \in {0, 1, 2} : k = 0
    OBVIOUS
  <2>1. k \in 0 .. n - 1 /\ Shape(p, s, n, k)
    BY <1>1, <1>3, <1>4
  <2> QED
    BY <1>1, <1>4, <2>1
<1>5. CASE r.fallback /\ ((n = 2 /\ Truncating(s[1]))
                          \/ (n = 3 /\ Truncating(s[1]) /\ s[2].proto = "tcp" /\ Repeatable(s[2])))
  <2> PICK k \in {0, 1, 2} : k = 1
    OBVIOUS
  <2>1. k \in 0 .. n - 1 /\ Shape(p, s, n, k)
    BY <1>1, <1>3, <1>5
  <2> QED
    BY <1>1, <1>5, <2>1
<1>6. CASE r.fallback /\ n = 3 /\ s[1].proto = "udp" /\ Repeatable(s[1]) /\ Truncating(s[2])
  <2> PICK k \in {0, 1, 2} : k = 2
    OBVIOUS
  <2>1. k \in 0 .. n - 1 /\ Shape(p, s, n, k)
    BY <1>1, <1>3, <1>6
  <2> QED
    BY <1>1, <1>6, <2>1
<1> QED
  BY <1>1, <1>4, <1>5, <1>6

(* The attempt that the evidence is attributed to.                          *)
LEMMA Attributed ==
    ASSUME NEW p, NEW r, NEW err, Ended(p, r, err), NEW s, s = r.attempts, NEW n, n = Len(s),
           NEW k, Shape(p, s, n, k), r.fallback <=> k # 0,
           NEW a, a = s[n], NEW e, e = EvidenceAttempt(r, err)
    PROVE  \/ /\ e = n
              /\ Answered(r, err, n, a) \/ Unreadable(r, err, n, a) \/ HeaderRead(r, err, n, a)
           \/ e = 0 /\ k = 0 /\ Nothing(r, err, a)
           \/ e = k /\ k # 0 /\ r.owner = k /\ Retains(r, err, n, a)
<1> DEFINE udp == {i \in 1 .. (Len(r.attempts) - 1) :
                     r.attempts[i].proto = "udp" /\ Clean(r.attempts[i])}
           chosen == CHOOSE i \in udp \cup {0} : udp # {} => i \in udp
<1>1. /\ err = "" \/ RetainedTCP(r, err) => e = n
      /\ ~(err = "" \/ RetainedTCP(r, err)) =>
            /\ RetainedUDP(r, err) => e = chosen
            /\ ~RetainedUDP(r, err) =>
                  e = IF Malformed(err) /\ s[r.owner].size # "none" THEN n ELSE 0
  BY DEF EvidenceAttempt
<1>2. \/ Answered(r, err, n, a) \/ Unreadable(r, err, n, a) \/ HeaderRead(r, err, n, a)
      \/ Nothing(r, err, a) \/ Retains(r, err, n, a)
  BY DEF Ended, Evident
<1>3. Ending(a)
  BY DEF Shape
<1>4. k # 0 => udp = {k}
  <2> SUFFICES ASSUME k # 0
               PROVE  udp = {k}
    OBVIOUS
  <2>1. k \in 1 .. n - 1 /\ s[k].proto = "udp" /\ Clean(s[k])
    <3>1. k \in 1 .. n - 1 /\ Truncating(s[k])
      BY DEF Shape
    <3> QED
      BY <3>1 DEF Truncating, Clean
  <2>2. \A i \in 1 .. n - 1 : i # k => ~Clean(s[i])
    BY DEF Shape, Repeatable, Retryable, Clean
  <2> QED
    BY <2>1, <2>2
<1> HIDE DEF udp
<1>5. udp = {k} => chosen = k
  OBVIOUS
<1> HIDE DEF chosen
<1>6. CASE Answered(r, err, n, a)
  BY <1>1, <1>6 DEF Answered
<1>7. CASE Unreadable(r, err, n, a)
  <2>1. Malformed(err) /\ err # "" /\ ~RetainedUDP(r, err) /\ ~RetainedTCP(r, err)
    BY <1>7 DEF Unreadable, Malformed, RetainedUDP, RetainedTCP, RetainedParsed, RetainedHeader, Says
  <2>2. s[r.owner].size # "none"
    BY <1>3, <1>7 DEF Unreadable, Ending, Failures
  <2> QED
    BY <1>1, <1>7, <2>1, <2>2
<1>8. CASE HeaderRead(r, err, n, a)
  <2>1. RetainedTCP(r, err)
    BY <1>8 DEF HeaderRead, RetainedTCP, RetainedHeader, Malformed, Says
  <2> QED
    BY <1>1, <1>8, <2>1
<1>9. CASE Nothing(r, err, a)
  <2>1. ~Malformed(err) /\ err # "" /\ ~RetainedUDP(r, err) /\ ~RetainedTCP(r, err) /\ k = 0
    BY <1>9 DEF Nothing, Failures, Malformed, RetainedUDP, RetainedTCP, RetainedParsed,
                RetainedHeader, Says
  <2> QED
    BY <1>1, <1>9, <2>1
<1>10. CASE Retains(r, err, n, a)
  <2>1. k # 0 /\ ~Malformed(err) /\ err # "" /\ RetainedUDP(r, err) /\ ~RetainedTCP(r, err)
    BY <1>10 DEF Retains, Failures, Malformed, RetainedUDP, RetainedTCP, RetainedParsed,
                RetainedHeader, Says
  <2>3. e = k
    BY <1>1, <1>4, <1>5, <2>1
  <2>4. r.owner = k
    <3>1. r.owner \in 1 .. n - 1 /\ Truncating(s[r.owner])
      BY <1>10 DEF Retains
    <3>2. \A i \in 1 .. n - 1 : i # k => ~Truncating(s[i])
      BY DEF Shape, Repeatable, Truncating
    <3> QED
      BY <3>1, <3>2
  <2> QED
    BY <1>10, <2>1, <2>3, <2>4
<1> QED
  BY <1>2, <1>6, <1>7, <1>8, <1>9, <1>10

(* An observation with that transcript, as the contract reads it ...        *)
Wired(o, p, n, k) ==
    LET u == o.attempts
    IN  /\ n \in 1 .. 3 /\ k \in 0 .. n - 1 /\ Len(u) = n
        /\ k = 0 => n # 3
        /\ k # 0 => p = "udp"
        /\ o.endpoint = p /\ o.fallback \in BOOLEAN /\ (o.fallback <=> k # 0)
        /\ o.proto = u[n].proto
        /\ \A j \in 1 .. n : u[j].proto = IF k = 0 THEN p ELSE IF j <= k THEN "udp" ELSE "tcp"
        /\ k # 0 => /\ u[k].status = "success" /\ u[k].code = "" /\ u[k].size = "full"
                    /\ u[k].tc = TRUE
        /\ \A j \in 1 .. n - 1 : j # k =>
              /\ u[j].status # "success" /\ u[j].retryable = TRUE /\ u[j].tc = FALSE
              /\ StatusMatchesCode(u[j].status, u[j].code, u[j].retryable)

(* ... that shows the answer of its last attempt a ...                      *)
Read(o, n, k, a) ==
    /\ o.owner = n /\ o.meta = n /\ o.observedAt = n /\ o.status = "success"
    /\ a.status = "success" /\ a.code = "" /\ a.size \in {"short", "full"}
    /\ a.tc \in BOOLEAN /\ o.truncated = a.tc /\ o.tcFlag = a.tc
    /\ a.tc => a.size = "full"
    /\ \/ /\ o.outcome = "parsed" /\ o.qr = TRUE /\ o.code = ""
          /\ a.tc => a.proto # "udp"
       \/ /\ o.outcome = "malformed" /\ o.qr = FALSE /\ ~a.tc
          /\ o.code = "MALFORMED_DNS" /\ ~o.retryable
       \/ /\ o.outcome = "truncated_response" /\ o.qr = TRUE /\ k # 0 /\ a.tc
          /\ o.code = "MALFORMED_DNS" /\ ~o.retryable

(* ... or, since that failed, nothing or the truncated UDP response.        *)
Unread(o, n, k, a) ==
    /\ o.owner = k /\ o.observedAt = k /\ o.meta = (IF k = 0 THEN n ELSE k)
    /\ o.truncated = (k # 0) /\ o.tcFlag = (k # 0) /\ o.qr = (k # 0)
    /\ IF k = 0 THEN o.outcome = "not_observed" ELSE o.outcome \in {"parsed", "truncated_response"}
    /\ o.status \in TransportFailures /\ StatusMatchesCode(o.status, o.code, o.retryable)
    /\ a.status \in TransportFailures /\ StatusMatchesCode(a.status, a.code, a.retryable)
    /\ a.tc = FALSE
    /\ \/ o.status = a.status /\ o.code = a.code /\ o.retryable = a.retryable
       \/ /\ o.status # a.status /\ o.status \in {"cancelled", "timeout"} /\ a.retryable
          /\ n = (IF k = 0 THEN 1 ELSE 2)

\* The attempts of such an observation are ones the contract accepts.
LEMMA WiredAttempts ==
    ASSUME NEW p, NEW n, NEW k, NEW o, Wired(o, p, n, k), NEW a, a = o.attempts[n],
           Read(o, n, k, a) \/ Unread(o, n, k, a)
    PROVE  TranscriptAccepted(o)
<1> DEFINE u == o.attempts
           steps == 1 .. (n - 1)
           fallbacks == {i \in steps : UDPToTCP(o, i)}
<1>1. /\ n \in 1 .. 3 /\ k \in 0 .. n - 1 /\ Len(u) = n /\ n <= AttemptBound
      /\ k = 0 => n <= 2
      /\ k # 0 => n >= 2
  <2>1. n \in 1 .. 3 /\ k \in 0 .. n - 1 /\ Len(u) = n /\ (k = 0 => n # 3)
    BY DEF Wired
  <2>2. n <= 3 /\ (n # 3 => n <= 2) /\ (k # 0 => n >= 2)
    BY <2>1
  <2> QED
    BY <2>1, <2>2 DEF AttemptBound
<1>2. o.owner \in 0 .. n
  <2>1. n \in 0 .. n /\ k \in 0 .. n
    BY <1>1
  <2>2. o.owner \in {n, k}
    BY DEF Read, Unread
  <2> QED
    BY <2>1, <2>2
<1>3. AttemptAccepted(a)
  BY DEF Read, Unread, AttemptAccepted, TransportFailures
<1>4. ASSUME NEW j \in 1 .. n
      PROVE  AttemptAccepted(u[j])
  <2>1. CASE j = n
    BY <1>3, <2>1
  <2>2. CASE j = k /\ j # n
    <3>1. k # 0
      BY <1>4, <2>2
    <3> QED
      BY <2>2, <3>1 DEF Wired, AttemptAccepted
  <2>3. CASE j # k /\ j # n
    <3>1. j \in 1 .. n - 1
      BY <1>1, <2>3
    <3> QED
      BY <2>3, <3>1 DEF Wired, AttemptAccepted
  <2> QED
    BY <2>1, <2>2, <2>3
<1>5. ASSUME NEW i \in steps
      PROVE  /\ UDPToTCP(o, i) <=> i = k
             /\ i # k => u[i].proto = u[i + 1].proto
  <2>1. i \in 1 .. n /\ i + 1 \in 1 .. n /\ (i + 1 <= k => i <= k) /\ (i <= k /\ i # k => i + 1 <= k)
        /\ (i = k => ~(i + 1 <= k))
    BY <1>1
  <2>2. \A j \in 1 .. n : u[j].proto = IF k = 0 THEN p ELSE IF j <= k THEN "udp" ELSE "tcp"
    BY DEF Wired
  <2>3. i # 0 /\ i <= i
    BY <1>1
  <2> QED
    BY <2>1, <2>2, <2>3 DEF UDPToTCP
<1>6. fallbacks = IF k = 0 THEN {} ELSE {k}
  <2>1. k # 0 => k \in steps
    BY <1>1
  <2>2. k = 0 => k \notin steps
    BY <1>1
  <2> HIDE DEF steps
  <2> QED
    BY <1>5, <2>1, <2>2
<1>7. Cardinality(fallbacks) <= 1
  <2>1. Cardinality({}) = 0 /\ Cardinality({k}) = 1
    BY FS_EmptySet, FS_Singleton
  <2> HIDE DEF fallbacks
  <2> QED
    BY <1>6, <2>1
<1>8. IF o.fallback THEN o.endpoint = "udp" /\ o.proto = "tcp" /\ n >= 2
                    ELSE o.proto = o.endpoint /\ n <= 2
  <2>1. n \in 1 .. n /\ ~(n <= k)
    BY <1>1
  <2>2. o.proto = IF k = 0 THEN p ELSE "tcp"
    BY <2>1 DEF Wired
  <2> QED
    BY <1>1, <2>2 DEF Wired
<1>9. Final(o) = a
  BY <1>1 DEF Final
<1>10. ~(/\ ~o.fallback /\ Final(o).proto = "udp"
         /\ Final(o).status = "success" /\ Final(o).tc)
  <2>1. o.fallback <=> k # 0
    BY DEF Wired
  <2> QED
    BY <1>9, <2>1 DEF Read, Unread
<1>11. \A i \in steps \ fallbacks :
          /\ u[i].proto = u[i + 1].proto
          /\ u[i].status # "success" /\ u[i].retryable
  <2> SUFFICES ASSUME NEW i \in steps, i \notin fallbacks
               PROVE  /\ u[i].proto = u[i + 1].proto
                      /\ u[i].status # "success" /\ u[i].retryable
    OBVIOUS
  <2>1. i # k
    BY <1>5
  <2>2. u[i].proto = u[i + 1].proto
    BY <1>5, <2>1
  <2>3. u[i].status # "success" /\ u[i].retryable
    BY <2>1 DEF Wired
  <2> QED
    BY <2>2, <2>3
<1>12. \A i \in fallbacks : u[i].status = "success" /\ u[i].tc
  <2>1. k # 0 => u[k].status = "success" /\ u[k].tc
    BY DEF Wired
  <2> HIDE DEF fallbacks
  <2> QED
    BY <1>6, <2>1
<1>13. (fallbacks # {}) = o.fallback
  <2>1. o.fallback \in BOOLEAN /\ (o.fallback <=> k # 0)
    BY DEF Wired
  <2> HIDE DEF fallbacks
  <2> QED
    BY <1>6, <2>1
<1>14. o.proto = Final(o).proto
  BY <1>9 DEF Wired
<1> HIDE DEF fallbacks
<1> QED
  BY <1>1, <1>2, <1>4, <1>7, <1>8, <1>10, <1>11, <1>12, <1>13, <1>14
  DEF TranscriptAccepted, fallbacks

\* Such an observation is one the contract accepts.
LEMMA WiredIsAccepted ==
    ASSUME NEW p, NEW n, NEW k, NEW o, Wired(o, p, n, k), NEW a, a = o.attempts[n],
           Read(o, n, k, a) \/ Unread(o, n, k, a)
    PROVE  ObservationAccepted(o)
<1> DEFINE u == o.attempts
           steps == 1 .. (n - 1)
<1>1. /\ n \in 1 .. 3 /\ k \in 0 .. n - 1 /\ Len(u) = n
      /\ o.endpoint = p /\ (o.fallback <=> k # 0) /\ (k # 0 => p = "udp")
  BY DEF Wired
<1>2. n # 0 /\ n > 0 /\ n \in Nat /\ k # n /\ (k # 0 => k \in steps) /\ ~(n = 0)
      /\ (k # 0 => n \in 2 .. AttemptBound)
  BY <1>1 DEF AttemptBound
<1>3. Final(o) = a
  BY <1>1 DEF Final
<1>4. /\ k # 0 => /\ u[k].status = "success" /\ u[k].code = "" /\ u[k].size = "full"
                   /\ u[k].tc = TRUE
      /\ \A j \in steps : j # k => u[j].status # "success" /\ u[j].tc = FALSE
  BY DEF Wired
<1>5. k # 0 => u[k].proto = "udp" /\ a.proto = "tcp" /\ o.proto = "tcp"
  <2> SUFFICES ASSUME k # 0
               PROVE  u[k].proto = "udp" /\ a.proto = "tcp" /\ o.proto = "tcp"
    OBVIOUS
  <2>1. k \in 1 .. n /\ n \in 1 .. n /\ k <= k /\ ~(n <= k)
    BY <1>1
  <2> QED
    BY <2>1 DEF Wired
<1>6. n = 1 => a.proto = p
  <2>1. n = 1 => n \in 1 .. n /\ k = 0
    BY <1>1
  <2> QED
    BY <2>1 DEF Wired
<1>7. k # 0 /\ o.outcome \in {"parsed", "truncated_response"} /\ o.truncated /\ o.tcFlag /\ o.qr
      => RetainedTruncatedUDP(o)
  BY <1>1, <1>2, <1>5 DEF RetainedTruncatedUDP
<1>8. ASSUME Read(o, n, k, a)
      PROVE  ObservationAccepted(o)
  <2>1. ResponseAccepted(o)
    <3>1. o.outcome = "truncated_response" => RetainedTruncatedUDP(o) /\ u[o.meta].size = "full"
      BY <1>7, <1>8 DEF Read
    <3> QED
      BY <1>2, <1>8, <3>1 DEF Read, ResponseAccepted
  <2>2. ErrorAccepted(o) /\ o.truncated = o.tcFlag
    BY <1>8 DEF Read, ErrorAccepted
  <2>3. RightfulOwners(o) = {o.owner}
    BY <1>1, <1>3, <1>8 DEF Read, RightfulOwners
  <2>4. AttemptContractAccepted(o)
    BY <1>2, <1>3, <1>8, <2>3 DEF Read, AttemptContractAccepted
  <2> QED
    BY <1>1, <1>2, <1>8, <2>1, <2>2, <2>4, WiredAttempts DEF ObservationAccepted
<1>9. ASSUME Unread(o, n, k, a)
      PROVE  ObservationAccepted(o)
  <2>1. /\ o.status # "success" /\ a.status # "success" /\ o.code # ""
        /\ StatusMatchesCode(o.status, o.code, o.retryable)
    BY <1>9 DEF Unread, TransportFailures, StatusMatchesCode
  <2>2. ResponseAccepted(o)
    <3>1. CASE k = 0
      BY <1>9, <2>1, <3>1 DEF Unread, ResponseAccepted
    <3>2. CASE k # 0
      <4>1. RetainedTruncatedUDP(o) /\ u[o.meta].size = "full"
        BY <1>4, <1>7, <1>9, <3>2 DEF Unread
      <4> QED
        BY <2>1, <4>1 DEF ResponseAccepted
    <3> QED
      BY <3>1, <3>2
  <2>3. ErrorAccepted(o) /\ o.truncated = o.tcFlag
    BY <1>9, <2>1 DEF Unread, ErrorAccepted
  <2>4. k # 0 => RightfulOwners(o) = {k}
    <3>1. RightfulOwners(o) = {i \in steps : u[i].proto = "udp" /\ u[i].status = "success" /\ u[i].tc}
      BY <1>1, <1>3, <2>1 DEF RightfulOwners
    <3> HIDE DEF steps
    <3> QED
      BY <1>2, <1>4, <1>5, <3>1
  <2>5. o.status # a.status => RetryGapShape(o)
    <3> SUFFICES ASSUME o.status # a.status
                 PROVE  RetryGapShape(o)
      OBVIOUS
    <3>1. n = (IF k = 0 THEN 1 ELSE 2)
      BY <1>9 DEF Unread
    <3>2. CASE k = 0
      BY <1>1, <1>6, <2>1, <3>1, <3>2 DEF RetryGapShape
    <3>3. CASE k # 0
      <4>1. n = 2 /\ k = 1
        BY <1>1, <3>1, <3>3
      <4> QED
        BY <1>1, <1>4, <1>5, <2>1, <3>3, <4>1 DEF RetryGapShape
    <3> QED
      BY <3>2, <3>3
  <2>6. AttemptContractAccepted(o)
    <3>1. a.status \notin {"success", o.status} =>
             a.retryable /\ o.status \in {"cancelled", "timeout"} /\ RetryGapShape(o)
      BY <1>9, <2>5 DEF Unread
    <3>2. a.status = o.status => o.code = a.code /\ o.retryable = a.retryable
      BY <1>9 DEF Unread
    <3>3. o.owner = k /\ o.observedAt = k /\ o.meta = (IF k = 0 THEN n ELSE k)
          /\ IF k = 0 THEN o.outcome = "not_observed" /\ ~o.truncated
             ELSE o.outcome # "not_observed" /\ o.truncated = TRUE
      BY <1>9 DEF Unread
    <3> QED
      BY <1>1, <1>3, <1>4, <2>1, <2>4, <3>1, <3>2, <3>3 DEF AttemptContractAccepted
  <2> QED
    BY <1>1, <1>2, <1>9, <2>2, <2>3, <2>6, WiredAttempts DEF ObservationAccepted
<1> QED
  BY <1>8, <1>9

(* What becomes of the j-th attempt in the observation: u.                  *)
Published(u, r, s, n, k, e, j) ==
    /\ u.proto = s[j].proto
    /\ j = k => u.status = "success" /\ u.code = "" /\ u.size = "full" /\ u.tc = TRUE
    /\ j # n /\ j # k =>
          /\ u.status # "success" /\ u.retryable = TRUE /\ u.tc = FALSE
          /\ StatusMatchesCode(u.status, u.code, u.retryable)
    /\ j = n =>
          /\ u.status = PublicStatus(s[n]) /\ u.size = s[n].size
          /\ u.status = "success" => u.code = ""
          /\ u.status # "success" => u.code = CodeOf(u.status, s[n].err)
          /\ u.retryable = RetryableCode(u.code)
          /\ u.tc = (s[n].tc /\ u.status = "success" /\ e = n /\ r.truncated /\ r.tcFlag)

\* The observation holds every attempt of the result, so converted.
LEMMA PublicFacts ==
    ASSUME NEW p, NEW r, NEW s, s = r.attempts, NEW n, n = Len(s), NEW k, Shape(p, s, n, k),
           NEW e, NEW j \in 1 .. n, NEW u, u = PublicAttempt(r, j, e)
    PROVE  Published(u, r, s, n, k, e, j)
<1> PICK a : a = s[j]
  OBVIOUS
<1>1. /\ u.proto = a.proto /\ u.status = PublicStatus(a) /\ u.size = a.size
      /\ u.code = IF u.status = "success" THEN "" ELSE CodeOf(u.status, a.err)
      /\ u.retryable = RetryableCode(u.code)
      /\ u.tc = (/\ a.tc /\ u.status = "success"
                 /\ \/ j < n /\ a.proto = "udp" /\ s[j + 1].proto = "tcp"
                    \/ e = j /\ r.truncated /\ r.tcFlag)
  BY DEF PublicAttempt
<1>2. n \in 1 .. 3 /\ k \in 0 .. n - 1
  BY DEF Shape
<1>3. j = k => /\ u.status = "success" /\ u.code = "" /\ u.size = "full" /\ u.tc = TRUE
  <2> SUFFICES ASSUME j = k
               PROVE  /\ u.status = "success" /\ u.code = "" /\ u.size = "full" /\ u.tc = TRUE
    OBVIOUS
  <2>1. Truncating(a) /\ k # 0
    BY <1>2 DEF Shape
  <2>2. u.status = "success" /\ u.code = "" /\ u.size = "full"
    BY <1>1, <2>1 DEF Truncating, PublicStatus
  <2>3. j < n /\ j + 1 \in 1 .. n /\ ~(j + 1 <= k)
    BY <1>2
  <2>4. s[j + 1].proto = "tcp"
    BY <2>1, <2>3 DEF Shape
  <2> QED
    BY <1>1, <2>1, <2>2, <2>3, <2>4 DEF Truncating
<1>4. j # n /\ j # k =>
         /\ u.status # "success" /\ u.retryable = TRUE /\ u.tc = FALSE
         /\ StatusMatchesCode(u.status, u.code, u.retryable)
  <2> SUFFICES ASSUME j # n, j # k
               PROVE  /\ u.status # "success" /\ u.retryable = TRUE /\ u.tc = FALSE
                      /\ StatusMatchesCode(u.status, u.code, u.retryable)
    OBVIOUS
  <2>1. j \in 1 .. n - 1
    BY <1>2
  <2>2. Repeatable(a)
    BY <2>1 DEF Shape
  <2>3. a.err \in {"timeout", "refused", "network"}
    BY <2>2 DEF Repeatable, Retryable
  <2>4. /\ u.status # "success"
        /\ \/ u.status = "timeout" /\ u.code = "TIMEOUT"
           \/ u.status = "refused" /\ u.code = "CONNECTION_REFUSED"
           \/ u.status = "network_error" /\ u.code = "NETWORK_ERROR"
    BY <1>1, <2>3 DEF PublicStatus, CodeOf, Malformed
  <2>5. u.retryable = TRUE
    BY <1>1, <2>4 DEF RetryableCode
  <2>6. u.tc = FALSE
    BY <1>1, <2>4
  <2> QED
    BY <2>4, <2>5, <2>6 DEF StatusMatchesCode
<1>5. j = n => u.tc = (s[n].tc /\ u.status = "success" /\ e = n /\ r.truncated /\ r.tcFlag)
  <2>1. j = n => ~(j < n)
    BY <1>2
  <2> QED
    BY <1>1, <2>1
<1> QED
  BY <1>1, <1>3, <1>4, <1>5 DEF Published

(* A task may end while an exchange waits for its retry.                    *)
Interrupts(terminal, p, r, err) ==
    terminal = "" \/ /\ terminal \in {"cancelled", "timeout"}
                     /\ EndedOnce(p, r, err) /\ Retryable(err)

(* The observation of an exchange that ended, or that the end of the task   *)
(* kept from its retry, is one the contract accepts.                        *)
LEMMA ObservationWired ==
    ASSUME NEW p, NEW r, NEW err, Ended(p, r, err),
           NEW terminal, Interrupts(terminal, p, r, err),
           NEW o, Observes(o, p, r, err, terminal)
    PROVE  ObservationAccepted(o)
<1>0. PICK s, n, a, e : s = r.attempts /\ n = Len(s) /\ a = s[n] /\ e = EvidenceAttempt(r, err)
  OBVIOUS
<1>1. PICK k \in 0 .. n - 1 : Shape(p, s, n, k) /\ (r.fallback <=> k # 0)
  BY <1>0, Shaped
<1>2. n \in 1 .. 3 /\ r.fallback \in BOOLEAN /\ Ending(a) /\ k \in 0 .. n - 1
  BY <1>0, <1>1, Shaped DEF Shape
<1>3. PICK decided, evident : /\ decided = (IF terminal # "" THEN terminal ELSE err)
                            /\ evident = (r.parsed \/ r.header)
  OBVIOUS
<1>4. /\ o.endpoint = p /\ o.proto = a.proto /\ o.fallback = r.fallback
      /\ o.attempts = [j \in 1 .. n |-> PublicAttempt(r, j, e)]
      /\ o.owner = e /\ o.meta = (IF e = 0 THEN n ELSE r.owner) /\ o.observedAt = e
      /\ o.status = ClassOf(decided) /\ o.truncated = r.truncated
  BY <1>0, <1>3 DEF Observes, ObservationOf, LastAttempt
<1>5. /\ o.outcome = (IF evident THEN r.outcome
                      ELSE IF Malformed(err) THEN "malformed" ELSE "not_observed")
      /\ o.qr = evident /\ o.tcFlag = (evident /\ r.tcFlag)
      /\ o.code = (IF decided = "" THEN "" ELSE IF Malformed(decided) THEN "MALFORMED_DNS"
                   ELSE CodeOf(ClassOf(decided), decided))
      /\ o.retryable = RetryableCode(o.code)
  BY <1>3 DEF Observes, ObservationOf
<1>6. PICK u : u = o.attempts
  OBVIOUS
<1>7. Len(u) = n /\ \A j \in 1 .. n : u[j] = PublicAttempt(r, j, e)
  <2> HIDE DEF PublicAttempt
  <2>1. u = [j \in 1 .. n |-> u[j]] /\ \A j \in 1 .. n : u[j] = PublicAttempt(r, j, e)
    BY <1>4, <1>6
  <2>2. n \in Nat
    BY <1>2
  <2> QED
    BY <2>1, <2>2, TabulatedLength
<1>8. \A j \in 1 .. n :
         /\ u[j].proto = s[j].proto
         /\ j = k => u[j].status = "success" /\ u[j].code = "" /\ u[j].size = "full" /\ u[j].tc = TRUE
         /\ j # n /\ j # k =>
               /\ u[j].status # "success" /\ u[j].retryable = TRUE /\ u[j].tc = FALSE
               /\ StatusMatchesCode(u[j].status, u[j].code, u[j].retryable)
  <2> TAKE j \in 1 .. n
  <2>1. s = r.attempts /\ n = Len(s) /\ Shape(p, s, n, k)
    BY <1>0, <1>1
  <2>2. PICK v : v = u[j]
    OBVIOUS
  <2>3. v = PublicAttempt(r, j, e)
    BY <1>7, <2>2
  <2>4. Published(v, r, s, n, k, e, j)
    BY <2>1, <2>3, PublicFacts
  <2> QED
    BY <2>2, <2>4 DEF Published
<1>9. PICK z : z = u[n]
  OBVIOUS
<1>10. /\ z.proto = a.proto /\ z.status = PublicStatus(a) /\ z.size = a.size
       /\ z.status = "success" => z.code = ""
       /\ z.status # "success" => z.code = CodeOf(z.status, a.err)
       /\ z.retryable = RetryableCode(z.code)
       /\ z.tc = (a.tc /\ z.status = "success" /\ e = n /\ r.truncated /\ r.tcFlag)
  <2>1. n \in 1 .. n
    BY <1>2
  <2> PICK j \in 1 .. n : j = n
    BY <2>1
  <2>2. s = r.attempts /\ n = Len(s) /\ Shape(p, s, n, k) /\ a = s[n]
    BY <1>0, <1>1
  <2>3. z = PublicAttempt(r, j, e)
    BY <1>7, <1>9
  <2> QED
    <3>1. Published(z, r, s, n, k, e, j)
      BY <2>2, <2>3, PublicFacts
    <3> QED
      BY <2>2, <3>1 DEF Published
<1>11. Wired(o, p, n, k)
  <2>1. k = 0 => n # 3
    BY <1>1 DEF Shape
  <2>2. k # 0 => p = "udp" /\ k \in 1 .. n
    BY <1>1 DEF Shape
  <2>3. \A j \in 1 .. n : u[j].proto = IF k = 0 THEN p ELSE IF j <= k THEN "udp" ELSE "tcp"
    BY <1>1, <1>8 DEF Shape
  <2>4. \A j \in 1 .. n - 1 : j \in 1 .. n /\ j # n
    BY <1>2
  <2> QED
    BY <1>1, <1>2, <1>4, <1>7, <1>8, <1>10, <1>9, <1>6, <2>1, <2>2, <2>3, <2>4 DEF Wired
<1>12. \/ /\ e = n
          /\ Answered(r, err, n, a) \/ Unreadable(r, err, n, a) \/ HeaderRead(r, err, n, a)
       \/ e = 0 /\ k = 0 /\ Nothing(r, err, a)
       \/ e = k /\ k # 0 /\ r.owner = k /\ Retains(r, err, n, a)
  <2>1. s = r.attempts /\ n = Len(s) /\ Shape(p, s, n, k)
    BY <1>0, <1>1
  <2>2. a = s[n] /\ e = EvidenceAttempt(r, err) /\ (r.fallback <=> k # 0)
    BY <1>0, <1>1
  <2> QED
    BY <2>1, <2>2, Attributed, SMTT(40)
<1>13. n # 0
  BY <1>2
<1>14. Retryable(err) => ~Answered(r, err, n, a) /\ ~Unreadable(r, err, n, a) /\ ~HeaderRead(r, err, n, a)
  BY DEF Retryable, Answered, Unreadable, HeaderRead
<1>15. CASE e = n /\ (Answered(r, err, n, a) \/ Unreadable(r, err, n, a) \/ HeaderRead(r, err, n, a))
  <2> SUFFICES Read(o, n, k, z)
    BY <1>11, <1>9, <1>6, WiredIsAccepted
  <2>1. terminal = "" /\ decided = err
    BY <1>14, <1>15, <1>3 DEF Interrupts
  <2>2. z.status = "success" /\ z.code = "" /\ z.size \in {"short", "full"} /\ r.owner = n
        /\ o.status = "success" /\ a.tc \in BOOLEAN
    BY <1>2, <1>4, <1>10, <1>15, <2>1
    DEF Answered, Unreadable, HeaderRead, Ending, PublicStatus, ClassOf, Malformed, Clean, Failures
  <2>3. o.owner = n /\ o.meta = n /\ o.observedAt = n
    BY <1>4, <1>13, <1>15, <2>2
  <2>4. CASE Answered(r, err, n, a)
    <3>1. z.tc = a.tc /\ z.size = "full" /\ (z.tc => z.proto # "udp")
      BY <1>10, <1>15, <2>2, <2>4 DEF Answered, Says
    <3>2. o.truncated = a.tc /\ o.tcFlag = a.tc /\ o.outcome = "parsed" /\ o.qr = TRUE /\ o.code = ""
      BY <1>4, <1>5, <1>3, <2>1, <2>2, <2>4 DEF Answered, Says
    <3> QED
      BY <2>2, <2>3, <3>1, <3>2 DEF Read
  <2>5. CASE Unreadable(r, err, n, a)
    <3>1. r.parsed = FALSE /\ r.header = FALSE /\ r.truncated = FALSE /\ r.tcFlag = FALSE
      BY <2>5 DEF Unreadable, Says
    <3>2. z.tc = FALSE
      BY <1>10, <3>1
    <3>3. o.truncated = FALSE /\ o.tcFlag = FALSE /\ o.qr = FALSE
      BY <1>4, <1>5, <1>3, <3>1
    <3>4. Malformed(err) /\ err # ""
      BY <2>5 DEF Unreadable, Malformed
    <3>5. o.outcome = "malformed" /\ o.code = "MALFORMED_DNS" /\ ~o.retryable
      BY <1>5, <1>3, <2>1, <3>1, <3>4 DEF RetryableCode
    <3> QED
      BY <2>2, <2>3, <3>2, <3>3, <3>5 DEF Read
  <2>6. CASE HeaderRead(r, err, n, a)
    <3>1. r.header = TRUE /\ r.truncated = TRUE /\ r.tcFlag = TRUE /\ r.outcome = "truncated_response"
      BY <2>6 DEF HeaderRead, Says
    <3>2. a.tc /\ a.size = "full" /\ err = "malformed" /\ k # 0
      BY <1>1, <2>6 DEF HeaderRead, Clean
    <3>3. z.tc = TRUE /\ z.size = "full"
      BY <1>10, <1>15, <2>2, <3>1, <3>2
    <3>4. o.truncated = TRUE /\ o.tcFlag = TRUE /\ o.qr = TRUE /\ o.outcome = "truncated_response"
      BY <1>4, <1>5, <1>3, <3>1
    <3>5. o.code = "MALFORMED_DNS" /\ ~o.retryable
      BY <1>5, <2>1, <3>2 DEF RetryableCode, Malformed
    <3> QED
      BY <2>2, <2>3, <3>2, <3>3, <3>4, <3>5 DEF Read
  <2> QED
    BY <1>15, <2>4, <2>5, <2>6
<1>16. CASE e = k /\ (   (k = 0 /\ Nothing(r, err, a))
                     \/ (k # 0 /\ r.owner = k /\ Retains(r, err, n, a)))
  <2>1. a.err = err /\ err \in Failures /\ ~Malformed(err)
    BY <1>16 DEF Nothing, Retains, Failures, Malformed
  <2>2. /\ z.status = ClassOf(err) /\ z.status \in TransportFailures
        /\ z.code = CodeOf(z.status, err)
        /\ z.code \in {"TIMEOUT", "CONNECTION_REFUSED", "CANCELLED", "NETWORK_ERROR",
                       "RESPONSE_TOO_LARGE"}
        /\ StatusMatchesCode(z.status, z.code, z.retryable)
    <3>1. z.status = ClassOf(err) /\ z.status \in TransportFailures /\ z.status # "success"
      BY <1>10, <2>1 DEF PublicStatus, ClassOf, Failures, TransportFailures
    <3>2. z.code = CodeOf(z.status, err)
      BY <1>10, <2>1, <3>1
    <3> QED
      BY <1>10, <2>1, <3>1, <3>2
      DEF StatusMatchesCode, RetryableCode, CodeOf, ClassOf, Failures, Malformed
  <2>3. z.tc = FALSE
    BY <1>10, <2>2 DEF TransportFailures
  <2>4. /\ o.status \in TransportFailures /\ StatusMatchesCode(o.status, o.code, o.retryable)
        /\ \/ o.status = z.status /\ o.code = z.code /\ o.retryable = z.retryable
           \/ /\ o.status # z.status /\ o.status \in {"cancelled", "timeout"} /\ z.retryable
              /\ n = (IF k = 0 THEN 1 ELSE 2)
    <3>1. CASE terminal = ""
      <4>1. decided = err /\ err # ""
        BY <1>3, <2>1, <3>1 DEF Failures
      <4>2. o.status = z.status /\ o.code = z.code /\ o.retryable = z.retryable
        BY <1>4, <1>5, <1>10, <2>1, <2>2, <4>1
      <4> QED
        BY <2>2, <4>2
    <3>2. CASE terminal # ""
      <4>1. /\ decided = terminal /\ terminal \in {"cancelled", "timeout"}
            /\ ~Malformed(terminal) /\ terminal # ""
        BY <1>3, <3>2 DEF Malformed, Interrupts
      <4>2. o.status = terminal /\ o.code = CodeOf(terminal, terminal)
        BY <1>4, <1>5, <4>1 DEF ClassOf
      <4>3. StatusMatchesCode(o.status, o.code, o.retryable) /\ o.status \in TransportFailures
        BY <1>5, <4>1, <4>2 DEF StatusMatchesCode, RetryableCode, CodeOf, TransportFailures
      <4>4. z.retryable /\ z.status \in {"timeout", "refused", "network_error"}
        BY <1>10, <2>1, <2>2, <3>2 DEF Interrupts, Retryable, RetryableCode, CodeOf, ClassOf, Malformed
      <4>5. n = (IF k = 0 THEN 1 ELSE 2)
        BY <1>0, <1>1, <3>2 DEF EndedOnce, Interrupts
      <4>6. o.status = z.status => o.code = z.code
        BY <2>2, <4>2, <4>1 DEF CodeOf
      <4>7. o.status = z.status => o.retryable = z.retryable
        BY <1>5, <1>10, <4>6
      <4> QED
        BY <4>1, <4>2, <4>3, <4>4, <4>5, <4>6, <4>7
    <3> QED
      BY <3>1, <3>2
  <2>5. o.owner = k /\ o.observedAt = k /\ o.meta = (IF k = 0 THEN n ELSE k)
    BY <1>4, <1>16
  <2>6. /\ o.truncated = (k # 0) /\ o.tcFlag = (k # 0) /\ o.qr = (k # 0)
        /\ IF k = 0 THEN o.outcome = "not_observed"
           ELSE o.outcome \in {"parsed", "truncated_response"}
    <3>1. CASE k = 0
      BY <1>4, <1>5, <1>3, <1>16, <2>1, <3>1 DEF Nothing, Says
    <3>2. CASE k # 0
      BY <1>4, <1>5, <1>3, <1>16, <2>1, <3>2 DEF Retains, Says
    <3> QED
      BY <3>1, <3>2
  <2>7. Unread(o, n, k, z)
    BY <2>2, <2>3, <2>4, <2>5, <2>6 DEF Unread
  <2> QED
    BY <1>11, <1>9, <1>6, <2>7, WiredIsAccepted
<1> QED
  BY <1>12, <1>15, <1>16

(* ToObservation finds nothing to object to in such an exchange.            *)
LEMMA EndedConverts ==
    ASSUME NEW p, NEW r, NEW err, Ended(p, r, err),
           NEW terminal, Interrupts(terminal, p, r, err)
    PROVE  Convertible(r, err, terminal)
<1>1. PICK s, n, a, e : s = r.attempts /\ n = Len(s) /\ a = s[n] /\ e = EvidenceAttempt(r, err)
  OBVIOUS
<1>2. PICK k \in 0 .. n - 1 : Shape(p, s, n, k) /\ (r.fallback <=> k # 0)
  BY <1>1, Shaped
<1>3. n \in 1 .. 3 /\ r.fallback \in BOOLEAN /\ Ending(a) /\ k \in 0 .. n - 1
  BY <1>1, <1>2, Shaped DEF Shape
<1>4. \/ /\ e = n
         /\ Answered(r, err, n, a) \/ Unreadable(r, err, n, a) \/ HeaderRead(r, err, n, a)
      \/ e = 0 /\ k = 0 /\ Nothing(r, err, a)
      \/ e = k /\ k # 0 /\ r.owner = k /\ Retains(r, err, n, a)
  <2>1. s = r.attempts /\ n = Len(s) /\ Shape(p, s, n, k)
    BY <1>1, <1>2
  <2>2. a = s[n] /\ e = EvidenceAttempt(r, err) /\ (r.fallback <=> k # 0)
    BY <1>1, <1>2
  <2> QED
    BY <2>1, <2>2, Attributed, SMTT(40)
<1>5. n <= AttemptBound /\ n # 0
  BY <1>3 DEF AttemptBound
<1>6. IF r.fallback THEN FallbackSequence(s)
      ELSE /\ n <= 2 /\ (n = 2 => s[1].err # "")
           /\ \A j \in 1 .. n : s[j].proto = s[1].proto
  <2>1. \A j \in 1 .. n : s[j].proto = IF k = 0 THEN p ELSE IF j <= k THEN "udp" ELSE "tcp"
    BY <1>2 DEF Shape
  <2>2. \A j \in 1 .. n - 1 : j # k => s[j].err # "" /\ (s[j].tc => s[j].proto = "doq")
    BY <1>2 DEF Shape, Repeatable, Retryable
  <2>3. CASE ~r.fallback
    <3>1. k = 0 /\ n # 3
      BY <1>2, <2>3 DEF Shape
    <3>2. n <= 2 /\ 1 \in 1 .. n /\ (n = 2 => 1 \in 1 .. n - 1)
      BY <1>3, <3>1
    <3> QED
      BY <2>1, <2>2, <2>3, <3>1, <3>2
  <2>4. CASE r.fallback
    <3>1. k # 0 /\ s[k].err = "" /\ s[k].tc
      BY <1>2, <2>4 DEF Shape, Truncating
    <3>2. /\ k \in 1 .. n /\ n \in 1 .. n /\ 1 \in 1 .. n /\ k <= k /\ ~(n <= k)
          /\ n = 2 \/ n = 3
          /\ n = 2 => k = 1
          /\ n = 3 => k = 1 \/ k = 2
      <4>1. n \in 1 .. 3 /\ k \in 0 .. n - 1 /\ k # 0
        BY <1>3, <3>1
      <4> QED
        BY <4>1
    <3>3. s[k].proto = "udp" /\ s[n].proto = "tcp"
      BY <2>1, <3>1, <3>2
    <3>4. CASE n = 2
      BY <1>1, <2>4, <3>1, <3>2, <3>3, <3>4 DEF FallbackSequence, Clean
    <3>5. CASE n = 3 /\ k = 1
      <4>1. 2 \in 1 .. n - 1 /\ 2 \in 1 .. n /\ ~(2 <= k)
        BY <3>5
      <4>2. s[2].proto = "tcp" /\ Failed(s[2])
        <5>1. 2 # k /\ k # 0
          BY <3>5
        <5>2. s[2].proto = "tcp" /\ s[2].err # "" /\ (s[2].tc => s[2].proto = "doq")
          BY <2>1, <2>2, <4>1, <5>1
        <5> QED
          BY <5>2 DEF Failed
      <4> QED
        BY <1>1, <2>4, <3>1, <3>3, <3>5, <4>2 DEF FallbackSequence, Clean
    <3>6. CASE n = 3 /\ k = 2
      <4>1. 1 \in 1 .. n - 1 /\ 1 <= k
        BY <3>6
      <4>2. s[1].proto = "udp" /\ Failed(s[1])
        BY <2>1, <2>2, <3>1, <3>2, <3>6, <4>1 DEF Failed
      <4> QED
        BY <1>1, <2>4, <3>1, <3>3, <3>6, <4>2 DEF FallbackSequence, Clean
    <3> QED
      BY <3>2, <3>4, <3>5, <3>6
  <2> QED
    BY <1>3, <2>3, <2>4
\* What the checks say of the evidence and the last attempt.
<1> DEFINE Terminal == err # "" => IF Malformed(err) THEN a.err \in {"", err}
                                   ELSE a.err = err /\ ~(r.fallback /\ a.tc)
           Override == terminal # "" => /\ err # "" /\ ~Malformed(err)
                                        /\ PublicStatus(a) # "success"
                                        /\ RetryableCode(CodeOf(PublicStatus(a), a.err))
           Content == /\ err # "" /\ (r.parsed \/ r.header) =>
                            RetainedUDP(r, err) \/ RetainedTCP(r, err)
                      /\ ~(r.parsed /\ r.header)
                      /\ err = "" => r.parsed
           Whole == err = "" => /\ a.err = "" /\ (r.fallback => a.proto = "tcp")
                                /\ Provenance(r, e, TRUE)
           Kept == RetainedUDP(r, err) => a.proto = "tcp" /\ Failed(a) /\ e # 0 /\ Provenance(r, e, TRUE)
           Broken == Malformed(err) /\ e # 0 =>
                        /\ r.fallback => a.proto = "tcp"
                        /\ RetainedTCP(r, err) => (a.proto = "tcp" /\ Clean(a))
                        /\ Provenance(r, e, RetainedTCP(r, err))
<1>7. r.fallback => a.proto = "tcp"
  <2>1. n \in 1 .. n /\ (k # 0 => ~(n <= k))
    BY <1>3
  <2> QED
    BY <1>1, <1>2, <2>1 DEF Shape
<1>8. Retryable(err) => ~Answered(r, err, n, a) /\ ~Unreadable(r, err, n, a) /\ ~HeaderRead(r, err, n, a)
  BY DEF Retryable, Answered, Unreadable, HeaderRead
<1>9. CASE Answered(r, err, n, a)
  <2>1. Terminal /\ Content
    BY <1>9 DEF Answered, Says
  <2>2. Override
    BY <1>8, <1>9 DEF Interrupts
  <2>3. e = n
    BY <1>4, <1>9 DEF Answered, Nothing, Retains, Failures
  <2>4. Whole
    BY <1>1, <1>7, <1>9, <2>3 DEF Answered, Says, Provenance
  <2>5. Kept /\ Broken
    BY <1>9 DEF Answered, RetainedUDP, RetainedParsed, RetainedHeader, Malformed
  <2> QED
    BY <1>1, <1>5, <1>6, <2>1, <2>2, <2>4, <2>5 DEF Convertible, LastAttempt
<1>10. CASE Unreadable(r, err, n, a)
  <2>1. Terminal /\ Content /\ ~RetainedUDP(r, err) /\ ~RetainedTCP(r, err)
    BY <1>10 DEF Unreadable, Says, Malformed, RetainedUDP, RetainedTCP, RetainedParsed, RetainedHeader
  <2>2. Override
    BY <1>8, <1>10 DEF Interrupts
  <2>3. e = n
    BY <1>4, <1>10 DEF Unreadable, Nothing, Retains, Failures
  <2>4. Whole /\ Kept
    BY <1>10, <2>1 DEF Unreadable
  <2>5. Broken
    BY <1>7, <1>10, <2>1, <2>3 DEF Unreadable, Provenance
  <2> QED
    BY <1>1, <1>5, <1>6, <2>1, <2>2, <2>4, <2>5 DEF Convertible, LastAttempt
<1>11. CASE HeaderRead(r, err, n, a)
  <2>1. RetainedTCP(r, err) /\ ~RetainedUDP(r, err)
    BY <1>11 DEF HeaderRead, Says, Malformed, RetainedUDP, RetainedTCP, RetainedParsed, RetainedHeader
  <2>2. Terminal /\ Content
    BY <1>11, <2>1 DEF HeaderRead, Says, Malformed, Clean
  <2>3. Override
    BY <1>8, <1>11 DEF Interrupts
  <2>4. e = n
    BY <1>4, <1>11 DEF HeaderRead, Nothing, Retains, Failures
  <2>5. Whole /\ Kept
    BY <1>11, <2>1 DEF HeaderRead
  <2>6. Broken
    BY <1>1, <1>7, <1>11, <2>1, <2>4 DEF HeaderRead, Provenance, Clean, Says
  <2> QED
    BY <1>1, <1>5, <1>6, <2>2, <2>3, <2>5, <2>6 DEF Convertible, LastAttempt
<1>12. CASE (k = 0 /\ Nothing(r, err, a)) \/ (e = k /\ k # 0 /\ r.owner = k /\ Retains(r, err, n, a))
  <2>1. a.err = err /\ err \in Failures /\ ~Malformed(err) /\ err # ""
    BY <1>12 DEF Nothing, Retains, Failures, Malformed
  <2>2. r.fallback => ~a.tc
    BY <1>1, <1>2, <1>3, <1>7, <1>12, <2>1 DEF Ending, Retains, Failures
  <2>3. Terminal
    BY <2>1, <2>2
  <2>4. Override
    <3>1. Retryable(err) => PublicStatus(a) # "success" /\ RetryableCode(CodeOf(PublicStatus(a), a.err))
      BY <2>1 DEF Retryable, PublicStatus, RetryableCode, CodeOf, Malformed
    <3> QED
      BY <2>1, <3>1 DEF Interrupts
  <2>5. Whole /\ Broken
    BY <2>1
  <2>6. CASE k = 0
    <3>1. Content /\ ~RetainedUDP(r, err)
      BY <1>12, <2>1, <2>6 DEF Nothing, Says, RetainedUDP, RetainedParsed, RetainedHeader
    <3> QED
      BY <1>1, <1>5, <1>6, <2>3, <2>4, <2>5, <3>1 DEF Convertible, LastAttempt
  <2>7. CASE k # 0
    <3>1. Content
      BY <1>12, <2>1, <2>7
      DEF Retains, Says, RetainedUDP, RetainedParsed, RetainedHeader
    <3>2. s[k].tc = TRUE /\ r.truncated = TRUE /\ r.tcFlag = TRUE
      BY <1>2, <1>12, <2>7 DEF Shape, Truncating, Retains, Says
    <3>3. Provenance(r, e, TRUE)
      BY <1>1, <1>12, <2>7, <3>2 DEF Provenance
    <3>4. Kept
      BY <1>2, <1>7, <1>12, <2>1, <2>2, <2>7, <3>3 DEF Failed
    <3> QED
      BY <1>1, <1>5, <1>6, <2>3, <2>4, <2>5, <3>1, <3>4 DEF Convertible, LastAttempt
  <2> QED
    BY <2>6, <2>7
<1> QED
  BY <1>4, <1>9, <1>10, <1>11, <1>12

-----------------------------------------------------------------------------
(* How an execution stands with an endpoint of protocol p: what it holds    *)
(* while it retries is a first exchange whose retry is in the budget.       *)
Retrying(p, max, x) ==
    x.kind # "first" => /\ EndedOnce(p, x.held.res, x.held.err) /\ Retryable(x.held.err)
                        /\ Slot(p, x.held.res, max)
                        /\ x.kind = (IF x.held.res.fallback THEN "tcp" ELSE "whole")
Roomy(p, max) == max \in 1 .. AttemptBound /\ (p = "udp" => max > 1)

(* The exchange e that it runs ended: over TCP alone when that is retried.  *)
EndedNow(p, x, e) ==
    IF x.kind = "tcp" THEN EndedOnce("tcp", e.res, e.err) /\ ~e.res.fallback
    ELSE EndedOnce(p, e.res, e.err)

\* The first exchange of an operation is in the budget.
LEMMA EndedOnceFits ==
    ASSUME NEW p, NEW max, Roomy(p, max), NEW r, NEW err, EndedOnce(p, r, err)
    PROVE  ~(Len(r.attempts) > max)
<1>1. PICK n : n = Len(r.attempts)
  OBVIOUS
<1>2. max \in 1 .. 3 /\ (p = "udp" => max > 1)
  BY DEF Roomy, AttemptBound
<1>3. CASE ~r.fallback
  <2>1. n = 1
    BY <1>1, <1>3, EndedOnceFacts
  <2>2. ~(n > max)
    BY <1>2, <2>1
  <2> QED
    BY <1>1, <2>2
<1>4. CASE r.fallback
  <2>1. n = 2 /\ p = "udp"
    BY <1>1, <1>4, EndedOnceFacts
  <2>2. ~(n > max)
    BY <1>2, <2>1
  <2> QED
    BY <1>1, <2>2
<1> QED
  BY <1>3, <1>4

(* And so is that of the exchange and its retry together.                   *)
LEMMA JoinedEnds ==
    ASSUME NEW p, NEW max, Roomy(p, max), NEW x, Retrying(p, max, x),
           NEW e, EndedNow(p, x, e), NEW j, j = Joined(x, e)
    PROVE  Ended(p, j.res, j.err) /\ ~(Len(j.res.attempts) > max) /\ j.err = e.err
<1> DEFINE Good == Ended(p, j.res, j.err) /\ ~(Len(j.res.attempts) > max) /\ j.err = e.err
<1>1. max \in 1 .. 3
  BY DEF Roomy, AttemptBound
<1>2. CASE x.kind = "first"
  <2>1. j = e /\ EndedOnce(p, e.res, e.err)
    BY <1>2 DEF Joined, EndedNow
  <2>2. Ended(p, j.res, j.err)
    BY <2>1 DEF EndedOnce
  <2> QED
    BY <2>1, <2>2, EndedOnceFits
<1>3. CASE x.kind # "first"
  <2>1. PICK f, r, why, err : f = x.held.res /\ r = e.res /\ why = x.held.err /\ err = e.err
    OBVIOUS
  <2>2. /\ EndedOnce(p, f, why) /\ Retryable(why) /\ Slot(p, f, max)
        /\ x.kind = (IF f.fallback THEN "tcp" ELSE "whole")
    BY <1>3, <2>1 DEF Retrying
  <2>3. PICK s, t : s = f.attempts /\ t = r.attempts
    OBVIOUS
  <2>4. IsResult(f) /\ IsSeq(s)
    BY <2>2, <2>3, EndedOnceFacts
  <2>5. CASE f.fallback
    <3>1. EndedOnce("tcp", r, err) /\ ~r.fallback /\ x.kind = "tcp"
      BY <2>1, <2>2, <2>5 DEF EndedNow
    <3>2. Len(s) = 2 /\ p = "udp"
      BY <2>2, <2>3, <2>5, EndedOnceFacts
    <3>3. Len(t) = 1 /\ IsSeq(t)
      BY <2>3, <3>1, EndedOnceFacts
    <3>4. PICK w : w = FallbackRetry(f, r, err)
      OBVIOUS
    <3>5. j.res = w /\ j.err = err
      BY <2>1, <3>1, <3>4 DEF Joined, Exchange
    <3>6. Ended("udp", w, err)
      BY <2>2, <2>5, <3>1, <3>2, <3>4, EndedAfterTCPRetry
    <3>7. Len(w.attempts) = 3
      <4>1. Len(s \o t) = 3
        <5>1. Len(s \o t) = Len(s) + Len(t)
          BY <2>4, <3>3, SequencesGrow
        <5> QED
          BY <3>2, <3>3, <5>1
      <4>2. w.attempts = s \o t
        <5>1. PICK u : u = s \o t
          OBVIOUS
        <5>2. CASE err = "" \/ Malformed(err)
          <6>1. PICK v : v = WholeRetry(f, r)
            OBVIOUS
          <6>2. IsResult(v) /\ Joins(v.attempts, s, t)
            BY <2>3, <2>4, <3>1, <6>1, WholeRetryFacts, EndedOnceFacts
          <6>3. w = [v EXCEPT !.fallback = TRUE]
            BY <3>4, <5>2, <6>1 DEF FallbackRetry
          <6> QED
            BY <6>2, <6>3 DEF IsResult, ResultFields, Joins
        <5>3. CASE ~(err = "" \/ Malformed(err))
          <6>1. w = [f EXCEPT !.attempts = u]
            BY <2>3, <3>4, <5>1, <5>3 DEF FallbackRetry
          <6> QED
            BY <2>4, <5>1, <6>1 DEF IsResult, ResultFields
        <5> QED
          BY <5>2, <5>3
      <4> QED
        BY <4>1, <4>2
    <3>8. max = 3
      <4>1. Len(s) < max
        BY <2>2, <2>3, <2>5 DEF Slot
      <4> QED
        BY <1>1, <3>2, <4>1
    <3>9. ~(Len(w.attempts) > max)
      BY <3>7, <3>8
    <3> QED
      BY <2>1, <3>2, <3>5, <3>6, <3>9
  <2>6. CASE ~f.fallback
    <3>1. EndedOnce(p, r, err) /\ x.kind = "whole"
      BY <2>1, <2>2, <2>6 DEF EndedNow
    <3>2. PICK w : w = WholeRetry(f, r)
      OBVIOUS
    <3>3. j.res = w /\ j.err = err
      BY <2>1, <3>1, <3>2 DEF Joined, Exchange
    <3>4. Ended(p, w, err)
      BY <2>2, <2>6, <3>1, <3>2, EndedAfterRetry
    <3>5. Len(s) = 1
      BY <2>2, <2>3, <2>6, EndedOnceFacts
    <3>6. /\ IsResult(r) /\ IsSeq(t)
          /\ ~r.fallback => Len(t) = 1
          /\ r.fallback => Len(t) = 2 /\ p = "udp"
      BY <2>3, <3>1, EndedOnceFacts
    <3>7. PICK n : n = Len(w.attempts)
      OBVIOUS
    <3>8. n = Len(s) + Len(t)
      <4>1. w.attempts = s \o t
        BY <2>3, <2>4, <3>2, <3>6, WholeRetryFacts DEF Joins
      <4> QED
        BY <2>4, <3>6, <3>7, <4>1, SequencesGrow
    <3>9. (~r.fallback => n = 2) /\ (r.fallback => n = 3)
      <4>1. CASE ~r.fallback
        <5>1. Len(t) = 1
          BY <3>6, <4>1
        <5> QED
          BY <3>5, <3>8, <4>1, <5>1
      <4>2. CASE r.fallback
        <5>1. Len(t) = 2
          BY <3>6, <4>2
        <5> QED
          BY <3>5, <3>8, <4>2, <5>1
      <4> QED
        BY <4>1, <4>2
    <3>10. IF p = "udp" THEN 1 + 2 <= max ELSE 1 + 1 <= max
      <4>1. CanRetry(p, Len(s), max)
        BY <2>2, <2>3, <2>6 DEF Slot
      <4> QED
        BY <3>5, <4>1 DEF CanRetry
    <3>11. ~(n > max)
      BY <1>1, <3>6, <3>9, <3>10, EndedOnceFacts
    <3> QED
      BY <2>1, <3>3, <3>4, <3>7, <3>11
  <2> QED
    BY <2>5, <2>6
<1> QED
  BY <1>2, <1>3

(* No operation failed inside the agent for its exchange, and each holds    *)
(* what the next step of its exchange builds on.                            *)
Sound(t, i, x) ==
    /\ x.cause \notin {"attempts", "conversion"}
    /\ Retrying(Endpoint(t, i), req[t].maxAttempts, x)
    /\ x.stage = "fallback" => x.kind # "tcp" /\ Endpoint(t, i) = "udp" /\ Half(x.now.res)
ExchangesOK ==
    \A t \in Tasks : \A i \in Ops(t) :
        /\ phase[t] = "running" => Roomy(Endpoint(t, i), req[t].maxAttempts)
        /\ Sound(t, i, op[t][i])

\* An execution is sound when each of its parts is.
LEMMA SoundStep ==
    ASSUME TaskInv, ExchangesOK, NEW t \in Tasks, NEW i \in Ops(t), NEW y, Sound(t, i, y),
           op' = [op EXCEPT ![t][i] = y], UNCHANGED <<req, phase>>
    PROVE  ExchangesOK'
<1>1. \A s \in Tasks : \A j \in Ops(s) : op'[s][j] = IF s = t /\ j = i THEN y ELSE op[s][j]
  BY OpUpdated DEF TaskInv, OpBecomes
<1>2. Tasks' = Tasks /\ \A s \in Tasks : /\ Ops(s)' = Ops(s)
                                         /\ \A j : Endpoint(s, j)' = Endpoint(s, j)
                                         /\ \A j, x : Sound(s, j, x)' <=> Sound(s, j, x)
  BY DEF Tasks, Ops, Endpoint, Sound, Retrying
<1>3. \A s \in Tasks : \A j \in Ops(s) : Sound(s, j, op'[s][j])
  BY <1>1 DEF ExchangesOK
<1> QED
  BY <1>2, <1>3 DEF ExchangesOK

\* What the steps of an execution leave alone.
LEMMA FinishSound ==
    ASSUME TaskInv, ExchangesOK, NEW t \in Tasks, NEW w \in Workers(t), worker[t][w] # 0,
           NEW x, Running(x), x.cause \notin {"attempts", "conversion"},
           Retrying(Endpoint(t, worker[t][w]), req[t].maxAttempts, x), Finish(t, w, x)
    PROVE  ExchangesOK'
<1> DEFINE i == worker[t][w]
           y == [x EXCEPT !.stage = "done", !.gated = FALSE]
<1>1. i \in Ops(t)
  BY DEF TaskInv, TaskTypeOK
<1>2. op' = [op EXCEPT ![t][i] = y] /\ UNCHANGED <<req, phase>>
  BY DEF Finish
<1>3. y.stage = "done" /\ y.cause = x.cause /\ y.kind = x.kind /\ y.held = x.held
  BY DEF Running, ExecFields
<1> HIDE DEF i, y
<1>4. Sound(t, i, y)
  BY <1>3 DEF Sound, Retrying, i
<1> QED
  BY <1>1, <1>2, <1>4, SoundStep

\* An execution whose observation was converted is sound.
LEMMA ConvertedIsSound ==
    ASSUME NEW t, NEW i, NEW p, p = Endpoint(t, i), NEW x, Running(x), NEW e,
           Ended(p, e.res, e.err), ~(Len(e.res.attempts) > req[t].maxAttempts),
           NEW terminal, Interrupts(terminal, p, e.res, e.err)
    PROVE  LET y == Converted(t, i, x, e, terminal)
           IN  Running(y) /\ y.cause = x.cause /\ y.kind = x.kind /\ y.held = x.held
<1> PICK r : r = Promoted(e.res, e.err)
  OBVIOUS
<1> PICK o : o = ObservationOf(p, r, e.err, terminal)
  OBVIOUS
<1> PICK y : y = [x EXCEPT !.obs = o]
  OBVIOUS
<1>1. Ended(p, r, e.err) /\ r.attempts = e.res.attempts /\ r.fallback = e.res.fallback
  BY PromotedEnded
<1>2. Interrupts(terminal, p, r, e.err)
  BY <1>1 DEF Interrupts, EndedOnce
<1>3. Convertible(r, e.err, terminal)
  BY <1>1, <1>2, EndedConverts
<1>4. ObservationAccepted(o)
  BY <1>1, <1>2, ObservationWired DEF Observes
<1>5. Converted(t, i, x, e, terminal) = y
  BY <1>3, <1>4 DEF Converted
<1>6. Running(y) /\ y.cause = x.cause /\ y.kind = x.kind /\ y.held = x.held
  BY DEF Running, ExecFields
<1> QED
  BY <1>5, <1>6

\* An exchange that ended is converted or waits for its retry.
LEMMA ExchangeEndSound ==
    ASSUME TaskInv, ExchangesOK, NEW t \in Tasks, NEW w \in Workers(t), worker[t][w] # 0,
           NEW x, Running(x), x.cause \notin {"attempts", "conversion"},
           NEW p, p = Endpoint(t, worker[t][w]), Roomy(p, req[t].maxAttempts),
           Retrying(p, req[t].maxAttempts, x),
           NEW e, EndedNow(p, x, e), ExchangeEnds(t, w, x, e)
    PROVE  ExchangesOK'
<1> DEFINE i == worker[t][w]
           retry == IF x.kind = "first" THEN RetryKind(t, i, e) ELSE ""
           y == [x EXCEPT !.stage = "wait", !.kind = retry, !.held = e]
<1>1. i \in Ops(t)
  BY DEF TaskInv, TaskTypeOK
<1>2. CASE retry # ""
  <2>1. /\ EndedOnce(p, e.res, e.err) /\ Retryable(e.err) /\ Slot(p, e.res, req[t].maxAttempts)
        /\ retry = (IF e.res.fallback THEN "tcp" ELSE "whole")
    BY <1>2 DEF RetryKind, Slot, EndedNow
  <2>2. op' = [op EXCEPT ![t][i] = y] /\ UNCHANGED <<req, phase>>
    BY <1>2 DEF ExchangeEnds
  <2> HIDE DEF retry
  <2>3. y.stage = "wait" /\ y.kind = retry /\ y.held = e /\ y.cause = x.cause
    BY DEF Running, ExecFields
  <2> HIDE DEF y
  <2>4. Sound(t, i, y)
    BY <2>1, <2>3 DEF Sound, Retrying
  <2> HIDE DEF i
  <2> QED
    BY <1>1, <2>2, <2>4, SoundStep
<1>3. CASE retry = ""
  <2>1. PICK j : j = Joined(x, e)
    OBVIOUS
  <2>2. PICK none : none = ""
    OBVIOUS
  <2>3. PICK c : c = Converted(t, i, x, j, none)
    OBVIOUS
  <2>4. Finish(t, w, c)
    BY <1>3, <2>1, <2>3, <2>2 DEF ExchangeEnds
  <2>5. Ended(p, j.res, j.err) /\ ~(Len(j.res.attempts) > req[t].maxAttempts)
    BY <2>1, JoinedEnds
  <2>6. Interrupts(none, p, j.res, j.err)
    BY <2>2 DEF Interrupts
  <2>7. Running(c) /\ c.cause = x.cause /\ c.kind = x.kind /\ c.held = x.held
    <3>1. p = Endpoint(t, i)
      OBVIOUS
    <3> HIDE DEF i
    <3> QED
      BY <2>3, <2>5, <2>6, <3>1, ConvertedIsSound
  <2>8. Retrying(p, req[t].maxAttempts, c)
    BY <2>7 DEF Retrying
  <2> QED
    BY <2>4, <2>7, <2>8, FinishSound
<1> QED
  BY <1>2, <1>3

\* The steps of the worker of an execution keep it sound.
LEMMA WorkerSound ==
    ASSUME RareReplies = {}, TaskInv, ExchangesOK, NEW t \in Tasks, NEW w \in Workers(t),
           \/ Acquire(t, w) \/ CancelQueued(t, w)
           \/ \E q \in AllReplies : AttemptEnds(t, w, q) \/ FallbackEnds(t, w, q)
           \/ NoResult(t, w) \/ RetryStarts(t, w) \/ RetryAbandoned(t, w)
    PROVE  ExchangesOK'
<1> DEFINE i == worker[t][w]
           x == op[t][i]
<1>0. i # 0
  BY DEF Acquire, CancelQueued, AttemptEnds, FallbackEnds, NoResult, RetryStarts, RetryAbandoned
<1>1. i \in Ops(t) /\ ExecOK(t, i, x) /\ Sound(t, i, x)
  BY <1>0 DEF TaskInv, TaskTypeOK, ExecsOK, ExchangesOK
<1>2. Running(x) /\ x.cause \notin {"attempts", "conversion"}
  BY <1>1 DEF ExecOK, Running, Sound
<1> PICK p, max : p = Endpoint(t, i) /\ max = req[t].maxAttempts
  OBVIOUS
<1>3. Retrying(p, max, x) /\ Roomy(p, max) /\ p \in Protocols
  <2>1. phase[t] = "running"
    BY <1>1 DEF TaskInv, PlacesOK, Held
  <2>2. req[t].endpoints \in Seq(Protocols)
    <3> DEFINE T == [mode : {"recursive", "iterative"}, kind : {"system", "catalog"},
                     endpoints : Seq(Protocols), parallel : Nat,
                     maxAttempts : 1 .. AttemptBound, few : BOOLEAN]
    <3>1. req \in Seq(T)
      BY RequestsAssumption DEF TaskInv, TaskTypeOK
    <3>2. req[t] \in T
      <4> HIDE DEF T
      <4> QED
        BY <3>1 DEF Tasks
    <3> QED
      BY <3>2
  <2>3. p \in Protocols
    BY <1>1, <2>2 DEF Endpoint, Ops
  <2> QED
    BY <1>1, <2>1, <2>3 DEF ExchangesOK, Sound
<1>4. ASSUME NEW y, op' = [op EXCEPT ![t][i] = y], UNCHANGED <<req, phase>>,
             y.cause = x.cause, y.kind = x.kind, y.held = x.held, y.stage # "fallback"
      PROVE  ExchangesOK'
  <2>1. Sound(t, i, y)
    BY <1>1, <1>4 DEF Sound, Retrying
  <2> QED
    BY <1>1, <1>4, <2>1, SoundStep
<1>5. CASE Acquire(t, w)
  <2> DEFINE y == [x EXCEPT !.stage = "attempt", !.gated = TRUE]
  <2>1. op' = [op EXCEPT ![t][i] = y] /\ UNCHANGED <<req, phase>>
    BY <1>5 DEF Acquire
  <2>2. y.stage = "attempt" /\ y.kind = x.kind /\ y.held = x.held /\ y.cause = x.cause
    <3> HIDE DEF x
    <3> QED
      BY <1>2 DEF Running, ExecFields
  <2> HIDE DEF y
  <2> QED
    BY <1>4, <2>1, <2>2
<1>6. CASE RetryStarts(t, w)
  <2> DEFINE y == [x EXCEPT !.stage = "attempt"]
  <2>1. op' = [op EXCEPT ![t][i] = y] /\ UNCHANGED <<req, phase>>
    BY <1>6 DEF RetryStarts
  <2>2. y.stage = "attempt" /\ y.kind = x.kind /\ y.held = x.held /\ y.cause = x.cause
    <3> HIDE DEF x
    <3> QED
      BY <1>2 DEF Running, ExecFields
  <2> HIDE DEF y
  <2> QED
    BY <1>4, <2>1, <2>2
<1>7. ASSUME NEW y, Running(y), y.cause \notin {"attempts", "conversion"},
             y.kind = x.kind, y.held = x.held, Finish(t, w, y)
      PROVE  ExchangesOK'
  <2>1. Retrying(p, max, y)
    BY <1>3, <1>7 DEF Retrying
  <2> QED
    BY <1>0, <1>7, <2>1, FinishSound
<1>8. CASE CancelQueued(t, w)
  <2> DEFINE y == [x EXCEPT !.obs = CancelledObservation(Endpoint(t, i))]
  <2>1. Finish(t, w, y)
    BY <1>8 DEF CancelQueued
  <2>2. y = [f \in ExecFields |-> y[f]] /\ y.kind = x.kind /\ y.held = x.held /\ y.cause = x.cause
    <3> PICK o : o = CancelledObservation(Endpoint(t, i))
      OBVIOUS
    <3>1. y = [x EXCEPT !.obs = o]
      OBVIOUS
    <3> HIDE DEF x, y
    <3> QED
      BY <1>2, <3>1 DEF Running, ExecFields
  <2> HIDE DEF y
  <2>3. Running(y)
    BY <1>2, <2>2 DEF Running
  <2> HIDE DEF x
  <2> QED
    BY <1>2, <1>7, <2>1, <2>2, <2>3
<1>9. CASE NoResult(t, w)
  <2> DEFINE y == Failure(t, i, x, "no_result")
  <2>1. Finish(t, w, y)
    BY <1>9 DEF NoResult
  <2>2. /\ y = [f \in ExecFields |-> y[f]] /\ y.kind = x.kind /\ y.held = x.held
        /\ y.cause = "no_result"
    <3> PICK o : o = ExecutionFailure(Endpoint(t, i))
      OBVIOUS
    <3>1. y = [x EXCEPT !.obs = o, !.cause = "no_result"]
      BY DEF Failure
    <3> HIDE DEF x, y
    <3> QED
      BY <1>2, <3>1 DEF Running, ExecFields
  <2> HIDE DEF y
  <2>3. Running(y) /\ y.cause \notin {"attempts", "conversion"}
    BY <1>2, <2>2 DEF Running
  <2> HIDE DEF x
  <2> QED
    BY <1>7, <2>1, <2>2, <2>3
<1>10. CASE RetryAbandoned(t, w)
  <2>1. PICK e, why : e = x.held /\ why = ctx[t]
    OBVIOUS
  <2>2. Finish(t, w, Converted(t, i, x, e, why)) /\ why # "live" /\ x.stage = "wait"
    BY <1>10, <2>1 DEF RetryAbandoned
  <2>3. EndedOnce(p, e.res, e.err) /\ Retryable(e.err)
    BY <1>1, <1>3, <2>1, <2>2 DEF ExecOK, Retrying
  <2>4. why \in {"cancelled", "timeout"}
    BY <2>1, <2>2 DEF TaskInv, TaskTypeOK
  <2>5. Interrupts(why, p, e.res, e.err) /\ Ended(p, e.res, e.err)
    BY <2>3, <2>4 DEF Interrupts, EndedOnce
  <2>6. ~(Len(e.res.attempts) > req[t].maxAttempts)
    BY <1>3, <2>3, EndedOnceFits
  <2>7. PICK y : y = Converted(t, i, x, e, why)
    OBVIOUS
  <2> HIDE DEF x, i
  <2>8. Running(y) /\ y.cause = x.cause /\ y.kind = x.kind /\ y.held = x.held
    BY <1>2, <2>5, <2>6, <2>7, ConvertedIsSound
  <2> QED
    BY <1>2, <1>7, <2>2, <2>7, <2>8
<1>11. ASSUME NEW q \in AllReplies, AttemptEnds(t, w, q)
       PROVE  ExchangesOK'
  <2> PICK proto : proto = ProtoOf(t, i)
    OBVIOUS
  <2>1. q \in Replies[proto] /\ x.stage = "attempt"
    BY <1>11 DEF AttemptEnds
  <2>2. /\ proto = IF x.kind = "tcp" THEN "tcp" ELSE p
        /\ proto \in Protocols
    BY <1>3, ProtocolsAssumption DEF ProtoOf
  <2>3. CASE NeedsFallback(proto, q)
    <3> DEFINE z == Exchange(TruncatedUDP(q), "")
               y == [x EXCEPT !.stage = "fallback", !.now = z]
    <3>1. op' = [op EXCEPT ![t][i] = y] /\ UNCHANGED <<req, phase>>
      BY <1>11, <2>3, ZenonT(60) DEF AttemptEnds
    <3>2. proto = "udp" /\ Half(z.res)
      BY <2>1, <2>2, <2>3, HalfWay DEF Exchange
    <3> HIDE DEF z
    <3>3. y.stage = "fallback" /\ y.now = z /\ y.kind = x.kind /\ y.held = x.held /\ y.cause = x.cause
      <4> HIDE DEF x
      <4> QED
        BY <1>2 DEF Running, ExecFields
    <3> HIDE DEF y
    <3>4. Sound(t, i, y)
      BY <1>1, <2>2, <3>2, <3>3 DEF Sound, Retrying
    <3> QED
      BY <1>1, <3>1, <3>4, SoundStep
  <2>4. CASE ~NeedsFallback(proto, q)
    <3>1. PICK e : e = SingleAttempt(proto, q)
      OBVIOUS
    <3>2. ExchangeEnds(t, w, x, e)
      BY <1>11, <2>4, <3>1 DEF AttemptEnds
    <3>3. EndedOnce(proto, e.res, e.err) /\ ~e.res.fallback
      BY <2>1, <2>2, <2>4, <3>1, EndedAlone
    <3>4. EndedNow(p, x, e)
      BY <2>2, <3>3 DEF EndedNow
    <3> HIDE DEF x
    <3> QED
      BY <1>0, <1>2, <1>3, <3>2, <3>4, ExchangeEndSound
  <2> QED
    BY <2>3, <2>4
<1>12. ASSUME NEW q \in AllReplies, FallbackEnds(t, w, q)
       PROVE  ExchangesOK'
  <2> DEFINE y == [x EXCEPT !.now = NoExchange]
  <2>1. PICK e : e = WithFallback(x.now.res, q)
    OBVIOUS
  <2>2. ExchangeEnds(t, w, y, e) /\ x.stage = "fallback" /\ q \in Replies["tcp"]
    BY <1>12, <2>1 DEF FallbackEnds
  <2>3. p = "udp" /\ Half(x.now.res) /\ x.kind # "tcp"
    BY <1>1, <2>2 DEF Sound
  <2>4. EndedOnce("udp", e.res, e.err)
    BY <2>1, <2>2, <2>3, EndedTwice
  <2>5. y = [f \in ExecFields |-> y[f]] /\ y.kind = x.kind /\ y.held = x.held /\ y.cause = x.cause
    <3> HIDE DEF x
    <3> QED
      BY <1>2 DEF Running, ExecFields
  <2> HIDE DEF y
  <2>6. EndedNow(p, y, e)
    BY <2>3, <2>4, <2>5 DEF EndedNow
  <2>7. Running(y) /\ y.cause \notin {"attempts", "conversion"} /\ Retrying(p, max, y)
    BY <1>2, <1>3, <2>5 DEF Running, Retrying
  <2> QED
    BY <1>0, <1>3, <2>2, <2>6, <2>7, ExchangeEndSound
<1> QED
  BY <1>5, <1>6, <1>8, <1>9, <1>10, <1>11, <1>12

(* The other steps of a task change neither an execution nor, but for the   *)
(* request it accepts, what bounds one.                                     *)
LEMMA ExchangesStart == Init => ExchangesOK
<1> SUFFICES ASSUME Init, NEW t \in Tasks, NEW i \in Ops(t)
             PROVE  /\ phase[t] = "running" => Roomy(Endpoint(t, i), req[t].maxAttempts)
                    /\ Sound(t, i, op[t][i])
  BY DEF ExchangesOK
<1>1. op[t][i] = Idle /\ phase[t] = "decoded"
  BY DEF Init
<1>2. Sound(t, i, Idle)
  BY DEF Idle, Sound, Retrying
<1> QED
  BY <1>1, <1>2

\* A request that is accepted starts its executions with nothing.
LEMMA PrepareSound ==
    ASSUME TaskInv, ExchangesOK, NEW t \in Tasks, NEW systemDNS, Prepare(t, systemDNS)
    PROVE  ExchangesOK'
<1>1. /\ UNCHANGED <<req, op>>
      /\ \A s \in Tasks : s # t => phase'[s] = phase[s]
      /\ phase'[t] = "running" => RefusalOf(req[t], systemDNS) = ""
  BY DEF Prepare, TaskInv, TaskTypeOK
<1>2. Tasks' = Tasks /\ \A s \in Tasks : /\ Ops(s)' = Ops(s)
                                         /\ \A j : Endpoint(s, j)' = Endpoint(s, j)
                                         /\ \A j, x : Sound(s, j, x)' <=> Sound(s, j, x)
  BY <1>1, ZenonT(60) DEF Tasks, Ops, Endpoint, Sound, Retrying
<1>3. ASSUME NEW i \in Ops(t), phase'[t] = "running"
      PROVE  Roomy(Endpoint(t, i), req[t].maxAttempts)
  <2>1. PICK max : max = req[t].maxAttempts
    OBVIOUS
  <2>2. max \in 1 .. AttemptBound
    BY <2>1, RequestFacts DEF TaskInv, TaskTypeOK
  <2>3. Endpoint(t, i) = "udp" => ~(max < 2)
    BY <1>1, <1>3, <2>1 DEF RefusalOf, Endpoint, Ops
  <2>4. ~(max < 2) => max > 1
    BY <2>2 DEF AttemptBound
  <2> QED
    BY <2>1, <2>2, <2>3, <2>4 DEF Roomy
<1>4. ASSUME NEW s \in Tasks, NEW j \in Ops(s)
      PROVE  /\ phase'[s] = "running" => Roomy(Endpoint(s, j), req[s].maxAttempts)
             /\ Sound(s, j, op[s][j])
  <2>1. CASE s = t
    BY <1>3, <1>4, <2>1 DEF ExchangesOK
  <2>2. CASE s # t
    BY <1>1, <1>4, <2>2 DEF ExchangesOK
  <2> QED
    BY <2>1, <2>2
<1> QED
  BY <1>1, <1>2, <1>4 DEF ExchangesOK

\* Steps that leave the executions and the requests alone.
LEMMA QuietSound ==
    ASSUME TaskInv, ExchangesOK, UNCHANGED <<req, op>>,
           \A s \in Tasks : phase'[s] = "running" => phase[s] = "running"
    PROVE  ExchangesOK'
<1>1. Tasks' = Tasks /\ \A s \in Tasks : /\ Ops(s)' = Ops(s)
                                         /\ \A j : Endpoint(s, j)' = Endpoint(s, j)
                                         /\ \A j, x : Sound(s, j, x)' <=> Sound(s, j, x)
  BY DEF Tasks, Ops, Endpoint, Sound, Retrying
<1> QED
  BY <1>1 DEF ExchangesOK

\* Every step keeps the executions sound.
LEMMA ExchangesStep ==
    ASSUME RareReplies = {}, TaskInv, ExchangesOK, [Next]_vars
    PROVE  ExchangesOK'
<1>1. ASSUME NEW t \in Tasks, NEW systemDNS \in BOOLEAN, Prepare(t, systemDNS)
      PROVE  ExchangesOK'
  BY <1>1, PrepareSound
<1>2. ASSUME NEW t \in Tasks, NEW w \in Workers(t), WorkerStep(t, w)
      PROVE  ExchangesOK'
  <2>1. CASE Take(t, w)
    BY <2>1, QuietSound DEF Take
  <2>2. CASE ~Take(t, w)
    BY <1>2, <2>2, WorkerSound DEF WorkerStep
  <2> QED
    BY <2>1, <2>2
<1>3. ASSUME NEW t \in Tasks, NEW i \in Ops(t), Collect(t, i)
      PROVE  ExchangesOK'
  BY <1>3, QuietSound DEF Collect
<1>4. ASSUME NEW t \in Tasks, Report(t)
      PROVE  ExchangesOK'
  <2>1. UNCHANGED <<req, op>> /\ phase' = [phase EXCEPT ![t] = "reported"]
    BY <1>4 DEF Report
  <2>2. \A s \in Tasks : phase'[s] = "running" => phase[s] = "running"
    BY <2>1 DEF TaskInv, TaskTypeOK
  <2> QED
    BY <2>1, <2>2, QuietSound
<1>5. ASSUME NEW t \in Tasks, Interrupt(t)
      PROVE  ExchangesOK'
  BY <1>5, QuietSound DEF Interrupt
<1>6. CASE UNCHANGED vars
  BY <1>6, QuietSound DEF vars
<1> QED
  BY <1>1, <1>2, <1>3, <1>4, <1>5, <1>6 DEF Next, SystemStep

(* Whatever the servers answer and whenever the tasks are interrupted,      *)
(* every exchange and its retry become an observation the contract accepts, *)
(* within the limit of attempts.  Both rare replies are left out: either    *)
(* ends an exchange in one that ToObservation cannot convert.               *)
THEOREM ExchangesAreAlwaysObservable == RareReplies = {} => (Spec => []ExchangesAreObservable)
<1> SUFFICES ASSUME RareReplies = {}
             PROVE  Spec => []ExchangesAreObservable
  OBVIOUS
<1>1. Init => TaskInv /\ ExchangesOK
  BY TasksStart, ExchangesStart
<1>2. TaskInv /\ ExchangesOK /\ [Next]_vars => (TaskInv /\ ExchangesOK)'
  BY TasksStep, ExchangesStep
<1>3. ExchangesOK => ExchangesAreObservable
  BY DEF ExchangesOK, Sound, ExchangesAreObservable
<1> QED
  BY <1>1, <1>2, <1>3, PTL DEF Spec

-----------------------------------------------------------------------------
(* Responses: names, and the aliases that hold for one.                     *)
Names == Seq(STRING)

\* Owners and targets are names, of one of the three types.
LEMMA RecordsAreNamed ==
    ASSUME NEW R \in SUBSET Records, NEW r \in R
    PROVE  r.owner \in Names /\ r.to \in Names /\ r.type \in {"CNAME", "DNAME", "A"}
BY ResponseAssumption DEF Names

(* Of the DNAMEs above a name there is a closest one.                       *)
LEMMA ClosestIs ==
    ASSUME NEW R \in SUBSET Records, NEW name \in Names, DNAMEsAbove(name, R) # {}
    PROVE  /\ Closest(DNAMEsAbove(name, R)) \in DNAMEsAbove(name, R)
           /\ \A d \in DNAMEsAbove(name, R) :
                 Len(d.owner) <= Len(Closest(DNAMEsAbove(name, R)).owner)
<1> DEFINE D == DNAMEsAbove(name, R)
           Above == {Len(name) - Len(d.owner) : d \in D}
<1>1. \A d \in D : Len(d.owner) \in Nat /\ Len(d.owner) < Len(name)
  <2> TAKE d \in D
  <2>1. d \in R /\ Below(name, d.owner)
    BY DEF DNAMEsAbove
  <2>2. d.owner \in Names
    BY <2>1, RecordsAreNamed
  <2> QED
    BY <2>1, <2>2 DEF Below, Names
<1>2. Len(name) \in Nat
  BY DEF Names
<1>3. Above \in SUBSET Nat /\ Above # {}
  <2>1. \A d \in D : Len(name) - Len(d.owner) \in Nat
    BY <1>1, <1>2
  <2>2. \E d : d \in D
    OBVIOUS
  <2> HIDE DEF D
  <2> QED
    BY <2>1, <2>2
<1>4. PICK k \in Above : \A j \in Above : k <= j
  <2> HIDE DEF Above
  <2> QED
    BY <1>3, LeastExists
<1>5. PICK r \in D : k = Len(name) - Len(r.owner)
  BY <1>4
<1>6. \A d \in D : Len(d.owner) <= Len(r.owner)
  <2> TAKE d \in D
  <2>1. Len(name) - Len(r.owner) <= Len(name) - Len(d.owner)
    BY <1>4, <1>5
  <2>2. Len(d.owner) \in Nat /\ Len(r.owner) \in Nat
    BY <1>1
  <2> QED
    BY <1>2, <2>1, <2>2
<1> HIDE DEF D
<1>7. \E c \in D : \A d \in D : Len(d.owner) <= Len(c.owner)
  BY <1>6
<1>8. Closest(D) \in D /\ \A d \in D : Len(d.owner) <= Len(Closest(D).owner)
  BY <1>7 DEF Closest
<1> QED
  BY <1>8 DEF D

\* What a DNAME makes of a name below it is a name.
LEMMA SynthesizedIsName ==
    ASSUME NEW R \in SUBSET Records, NEW name \in Names, NEW d \in DNAMEsAbove(name, R)
    PROVE  Synthesized(name, d) \in Names
<1>1. d \in R /\ Below(name, d.owner)
  BY DEF DNAMEsAbove
<1>2. d.owner \in Names /\ d.to \in Names
  BY <1>1, RecordsAreNamed
<1>3. PICK k \in Nat : k = Len(name) - Len(d.owner)
  <2>1. Len(name) \in Nat /\ Len(d.owner) \in Nat /\ Len(d.owner) < Len(name)
    BY <1>1, <1>2 DEF Below, Names
  <2>2. Len(name) - Len(d.owner) \in Nat
    BY <2>1
  <2> QED
    BY <2>2
<1>4. Len(name) \in Nat /\ k <= Len(name)
  BY <1>2, <1>3 DEF Names
<1>5. SubSeq(name, 1, k) \in Seq(STRING)
  <2>1. \A i \in 1 .. k : i \in 1 .. Len(name) /\ name[i] \in STRING
    BY <1>4 DEF Names
  <2> QED
    BY <2>1, <1>4, SubSeqProperties DEF Names
<1> QED
  BY <1>2, <1>3, <1>5, ConcatProperties DEF Synthesized, Names

\* Every alias leads to a name, on both sides.
LEMMA HopIsNamed ==
    ASSUME NEW R \in SUBSET Records, NEW name \in Names, NEW side
    PROVE  HopBy(side, name, R).to \in Names
<1>1. NoHop.to \in Names
  BY EmptySeq DEF NoHop, Names
<1>2. CNAMEHop(name, R).to \in Names
  <2>1. CASE CNAMEsAt(name, R) = {}
    BY <1>1, <2>1 DEF CNAMEHop
  <2>2. CASE CNAMEsAt(name, R) # {}
    <3>1. PICK r : r = CHOOSE x \in CNAMEsAt(name, R) : TRUE
      OBVIOUS
    <3>2. r \in R
      BY <2>2, <3>1 DEF CNAMEsAt
    <3> QED
      BY <2>2, <3>1, <3>2, RecordsAreNamed DEF CNAMEHop, Hop
  <2> QED
    BY <2>1, <2>2
<1>3. ASSUME DNAMEsAbove(name, R) # {}
      PROVE  Hop("DNAME", Synthesized(name, Closest(DNAMEsAbove(name, R)))).to \in Names
  BY <1>3, ClosestIs, SynthesizedIsName DEF Hop
<1> QED
  BY <1>2, <1>3 DEF HopBy, NextAliasHop, NextAnswerAliasHop

(* The two sides see the same alias unless it makes the name too long.      *)
LEMMA HopsAgree ==
    ASSUME NEW R, NEW name
    PROVE  /\ Len(HopBy("engine", name, R).to) <= MaxLabels
                 => HopBy("contract", name, R) = HopBy("engine", name, R)
           /\ HopBy("engine", name, R) = NoHop => HopBy("contract", name, R) = NoHop
BY DEF HopBy, NextAliasHop, NextAnswerAliasHop, Hop, NoHop

-----------------------------------------------------------------------------
(* The walk along the aliases, one hop after the other.                     *)
Loops(path) == \E i \in 1 .. Len(path) - 1 : path[i] = LastOf(path)

Stops(side, path, R) == Loops(path) \/ HopBy(side, LastOf(path), R) = NoHop

Longer(side, path, R) ==
    IF Stops(side, path, R) THEN path ELSE Append(path, HopBy(side, LastOf(path), R).to)

Walk(side, R) ==
    CHOOSE f : f = [n \in 0 .. MaxDepth |->
                       IF n = 0 THEN <<Asked>> ELSE Longer(side, f[n - 1], R)]

ChainOf(side, path, R) ==
    IF Len(path) = 1 THEN NoChain
    ELSE [names |-> path,
          types |-> [i \in 1 .. Len(path) - 1 |-> HopBy(side, path[i], R).type],
          loop |-> Loops(path),
          cut |-> ~Loops(path) /\ HopBy(side, LastOf(path), R) # NoHop]

\* Both chains are read off the path that was walked.
LEMMA ChainIsOfWalk ==
    ASSUME NEW side, NEW R
    PROVE  ChainBy(side, R) = ChainOf(side, Walk(side, R)[MaxDepth], R)
BY DEF ChainBy, ChainOf, Walk, Longer, Stops, Loops

Paths == Seq(Names) \ {<<>>}

\* A path has a last name.
LEMMA PathIsList ==
    ASSUME NEW path \in Paths
    PROVE  /\ Len(path) \in Nat \ {0} /\ LastOf(path) \in Names
           /\ \A i \in 1 .. Len(path) : path[i] \in Names
BY DEF Paths, LastOf

\* One more hop keeps the path, and adds the name the alias leads to.
LEMMA LongerIsPath ==
    ASSUME NEW R \in SUBSET Records, NEW path \in Paths, NEW side
    PROVE  /\ Longer(side, path, R) \in Paths
           /\ Len(Longer(side, path, R)) >= Len(path)
           /\ \A i \in 1 .. Len(path) : Longer(side, path, R)[i] = path[i]
           /\ ~Stops(side, path, R) =>
                 /\ Len(Longer(side, path, R)) = Len(path) + 1
                 /\ Longer(side, path, R)[Len(path) + 1] = HopBy(side, LastOf(path), R).to
<1>1. path \in Seq(Names) /\ Len(path) \in Nat /\ LastOf(path) \in Names
  BY PathIsList DEF Paths
<1>2. PICK to \in Names : to = HopBy(side, LastOf(path), R).to
  BY <1>1, HopIsNamed
<1>3. /\ Append(path, to) \in Paths /\ Len(Append(path, to)) = Len(path) + 1
      /\ \A i \in 1 .. Len(path) : Append(path, to)[i] = path[i]
      /\ Append(path, to)[Len(path) + 1] = to
  BY <1>1, AppendProperties DEF Paths
<1> QED
  BY <1>1, <1>2, <1>3 DEF Longer

\* The walk exists, and takes one hop after the other.
LEMMA Walks ==
    ASSUME NEW R \in SUBSET Records, NEW side
    PROVE  /\ MaxDepth \in Nat \ {0} /\ Walk(side, R) \in [0 .. MaxDepth -> Paths]
           /\ Walk(side, R)[0] = <<Asked>>
           /\ \A n \in 1 .. MaxDepth : Walk(side, R)[n] = Longer(side, Walk(side, R)[n - 1], R)
<1> DEFINE G == [n \in 1 .. MaxDepth |-> [path \in Paths |-> Longer(side, path, R)]]
           Walking(f) == f = [n \in 0 .. MaxDepth |->
                                 IF n = 0 THEN <<Asked>> ELSE Longer(side, f[n - 1], R)]
<1>1. MaxDepth \in Nat \ {0} /\ Asked \in Seq(STRING)
  BY ResponseAssumption
<1>2. <<Asked>> \in Paths
  <2>1. PICK a \in Names : a = Asked
    BY <1>1 DEF Names
  <2>2. <<a>> \in Seq(Names) /\ <<a>> # <<>>
    OBVIOUS
  <2> QED
    BY <2>1, <2>2 DEF Paths
<1>3. G \in [1 .. MaxDepth -> [Paths -> Paths]]
  <2>1. \A path \in Paths : Longer(side, path, R) \in Paths
    BY LongerIsPath
  <2> QED
    BY <2>1
<1>4. PICK f : Unfolds(f, MaxDepth, Paths, <<Asked>>, G)
  <2> HIDE DEF G
  <2> QED
    BY <1>1, <1>2, <1>3, RecursionExists
<1>5. /\ f \in [0 .. MaxDepth -> Paths] /\ f[0] = <<Asked>>
      /\ \A n \in 1 .. MaxDepth : f[n] = G[n][f[n - 1]]
  BY <1>4 DEF Unfolds
<1>6. \A n \in 1 .. MaxDepth : f[n] = Longer(side, f[n - 1], R)
  <2> TAKE n \in 1 .. MaxDepth
  <2>1. n - 1 \in 0 .. MaxDepth
    BY <1>1
  <2>2. PICK path \in Paths : path = f[n - 1]
    BY <1>5, <2>1
  <2>3. f[n] = G[n][path]
    BY <1>5, <2>2
  <2> QED
    BY <2>2, <2>3
<1> HIDE DEF G
<1>7. Walking(f)
  <2>1. \A n \in 0 .. MaxDepth : f[n] = IF n = 0 THEN <<Asked>> ELSE Longer(side, f[n - 1], R)
    <3>1. \A n \in 0 .. MaxDepth : n = 0 \/ n \in 1 .. MaxDepth
      BY <1>1
    <3> QED
      BY <1>5, <1>6, <3>1
  <2>2. f = [n \in 0 .. MaxDepth |-> f[n]]
    BY <1>5
  <2> QED
    BY <2>1, <2>2
<1>8. Walking(Walk(side, R))
  <2> HIDE DEF Walking
  <2>1. \E h : Walking(h)
    BY <1>7
  <2>2. Walk(side, R) = CHOOSE h : Walking(h)
    BY DEF Walk, Walking
  <2> QED
    BY <2>1, <2>2
<1> DEFINE w == Walk(side, R)
<1>9. /\ DOMAIN w = 0 .. MaxDepth /\ w[0] = <<Asked>>
      /\ \A n \in 1 .. MaxDepth : w[n] = Longer(side, w[n - 1], R)
  <2>1. /\ \A n \in 0 .. MaxDepth : w[n] = IF n = 0 THEN <<Asked>> ELSE Longer(side, w[n - 1], R)
        /\ DOMAIN w = 0 .. MaxDepth
    BY <1>8
  <2>2. 0 \in 0 .. MaxDepth /\ \A n \in 1 .. MaxDepth : n \in 0 .. MaxDepth /\ n # 0
    BY <1>1
  <2> HIDE DEF w
  <2> QED
    BY <2>1, <2>2
<1>10. \A n \in 0 .. MaxDepth : w[n] \in Paths
  <2> DEFINE P == {n \in 0 .. MaxDepth : w[n] \in Paths}
  <2> HIDE DEF w
  <2>1. 0 \in P
    BY <1>1, <1>2, <1>9
  <2>2. ASSUME NEW n \in 1 .. MaxDepth, n - 1 \in P
        PROVE  n \in P
    BY <1>1, <1>9, <2>2, LongerIsPath
  <2>3. \A n \in 0 .. MaxDepth : n \in P
    <3> HIDE DEF P
    <3> QED
      BY <1>1, <2>1, <2>2, UpTo
  <2> QED
    BY <2>3
<1>11. w \in [0 .. MaxDepth -> Paths]
  <2>1. w = [n \in 0 .. MaxDepth |-> w[n]]
    BY <1>8
  <2> HIDE DEF w
  <2> QED
    BY <1>10, <2>1
<1> QED
  BY <1>1, <1>9, <1>11

(* A path begins with the name asked for, and goes from alias to alias.      *)
LEMMA WalkHops ==
    ASSUME NEW R \in SUBSET Records, NEW side, NEW n \in 0 .. MaxDepth
    PROVE  /\ Walk(side, R)[n] \in Paths /\ Walk(side, R)[n][1] = Asked
           /\ \A i \in 1 .. Len(Walk(side, R)[n]) - 1 :
                 HopBy(side, Walk(side, R)[n][i], R).to = Walk(side, R)[n][i + 1]
<1> DEFINE w == Walk(side, R)
           Good(path) == /\ path \in Paths /\ path[1] = Asked
                         /\ \A i \in 1 .. Len(path) - 1 : HopBy(side, path[i], R).to = path[i + 1]
           P == {m \in 0 .. MaxDepth : Good(w[m])}
<1>1. /\ MaxDepth \in Nat \ {0} /\ w \in [0 .. MaxDepth -> Paths] /\ w[0] = <<Asked>>
      /\ \A m \in 1 .. MaxDepth : w[m] = Longer(side, w[m - 1], R)
  BY Walks
<1> HIDE DEF w
<1>2. 0 \in P
  <2>1. 0 \in 0 .. MaxDepth /\ Len(<<Asked>>) = 1 /\ <<Asked>>[1] = Asked
    BY <1>1
  <2>2. 1 .. Len(<<Asked>>) - 1 = {}
    OBVIOUS
  <2> QED
    BY <1>1, <2>1, <2>2
<1>3. ASSUME NEW m \in 1 .. MaxDepth, m - 1 \in P
      PROVE  m \in P
  <2>1. PICK path \in Paths : path = w[m - 1] /\ Good(path)
    BY <1>3
  <2>2. PICK c \in Nat \ {0} : c = Len(path)
    BY PathIsList
  <2>3. PICK next \in Paths : next = Longer(side, path, R)
    BY LongerIsPath
  <2>4. w[m] = next
    BY <1>1, <2>1, <2>3
  <2>5. ASSUME Stops(side, path, R)
        PROVE  next = path
    BY <2>3, <2>5 DEF Longer
  <2>6. ASSUME ~Stops(side, path, R)
        PROVE  Good(next)
    <3>1. /\ Len(next) = c + 1 /\ \A i \in 1 .. c : next[i] = path[i]
          /\ next[c + 1] = HopBy(side, LastOf(path), R).to /\ LastOf(path) = path[c]
      BY <2>2, <2>3, <2>6, LongerIsPath DEF LastOf
    <3>2. next[1] = Asked
      BY <2>1, <3>1
    <3>3. ASSUME NEW i \in 1 .. Len(next) - 1
          PROVE  HopBy(side, next[i], R).to = next[i + 1]
      <4>1. i \in 1 .. c /\ next[i] = path[i]
        BY <3>1, <3>3
      <4>2. CASE i = c
        BY <3>1, <4>1, <4>2
      <4>3. CASE i # c
        <5>1. i \in 1 .. Len(path) - 1 /\ i + 1 \in 1 .. c
          BY <2>2, <4>1, <4>3
        <5>2. HopBy(side, path[i], R).to = path[i + 1] /\ next[i + 1] = path[i + 1]
          BY <2>1, <3>1, <5>1
        <5> QED
          BY <4>1, <5>2
      <4> QED
        BY <4>2, <4>3
    <3> QED
      BY <3>2, <3>3
  <2>7. Good(w[m])
    <3>1. Good(next)
      BY <2>1, <2>5, <2>6
    <3> QED
      BY <2>4, <3>1
  <2> HIDE DEF Good
  <2> QED
    BY <2>7
<1>4. \A m \in 0 .. MaxDepth : m \in P
  <2> HIDE DEF P
  <2> QED
    BY <1>1, <1>2, <1>3, UpTo
<1> QED
  BY <1>4 DEF w

(* What was walked stays.                                                    *)
LEMMA WalkGrows ==
    ASSUME NEW R \in SUBSET Records, NEW side, NEW n \in 0 .. MaxDepth
    PROVE  /\ Len(Walk(side, R)[n]) <= Len(Walk(side, R)[MaxDepth])
           /\ \A i \in 1 .. Len(Walk(side, R)[n]) :
                 Walk(side, R)[MaxDepth][i] = Walk(side, R)[n][i]
<1> DEFINE w == Walk(side, R)
           Prefix(p, q) == Len(p) <= Len(q) /\ \A i \in 1 .. Len(p) : q[i] = p[i]
           P == {k \in 0 .. MaxDepth : Prefix(w[MaxDepth - k], w[MaxDepth])}
<1>1. /\ MaxDepth \in Nat \ {0} /\ w \in [0 .. MaxDepth -> Paths]
      /\ \A m \in 1 .. MaxDepth : w[m] = Longer(side, w[m - 1], R)
  BY Walks
<1> HIDE DEF w
<1>2. 0 \in P
  <2>1. MaxDepth - 0 = MaxDepth /\ 0 \in 0 .. MaxDepth
    BY <1>1
  <2>2. Len(w[MaxDepth]) \in Nat
    BY <1>1, PathIsList
  <2> QED
    BY <2>1, <2>2
<1>3. ASSUME NEW k \in 1 .. MaxDepth, k - 1 \in P
      PROVE  k \in P
  <2>1. PICK m \in 1 .. MaxDepth : m = MaxDepth - (k - 1)
    <3>1. MaxDepth - (k - 1) \in 1 .. MaxDepth
      BY <1>1
    <3> QED
      BY <3>1
  <2>2. m - 1 = MaxDepth - k /\ m - 1 \in 0 .. MaxDepth
    BY <1>1, <2>1
  <2>3. PICK p \in Paths : p = w[m - 1]
    BY <1>1, <2>2
  <2>4. PICK q \in Paths : q = w[m] /\ q = Longer(side, p, R)
    BY <1>1, <2>3, LongerIsPath
  <2>5. Prefix(p, q)
    BY <2>4, LongerIsPath
  <2>6. Prefix(q, w[MaxDepth])
    BY <1>3, <2>1, <2>4
  <2>7. Len(p) \in Nat /\ Len(q) \in Nat /\ Len(w[MaxDepth]) \in Nat
    BY <1>1, PathIsList
  <2>8. Prefix(p, w[MaxDepth])
    BY <2>5, <2>6, <2>7
  <2> QED
    BY <2>2, <2>3, <2>8
<1>4. \A k \in 0 .. MaxDepth : k \in P
  <2> HIDE DEF P
  <2> QED
    BY <1>1, <1>2, <1>3, UpTo
<1>5. PICK k \in 0 .. MaxDepth : MaxDepth - k = n
  <2>1. MaxDepth - n \in 0 .. MaxDepth /\ MaxDepth - (MaxDepth - n) = n
    BY <1>1
  <2> QED
    BY <2>1
<1>6. Prefix(w[n], w[MaxDepth])
  BY <1>4, <1>5
<1> QED
  BY <1>6 DEF w

(* A chain is walked if there is a first alias, and only then.               *)
LEMMA FirstHop ==
    ASSUME NEW R \in SUBSET Records, NEW side
    PROVE  Len(Walk(side, R)[MaxDepth]) = 1 <=> HopBy(side, Asked, R) = NoHop
<1> DEFINE w == Walk(side, R)
<1>1. /\ MaxDepth \in Nat \ {0} /\ w \in [0 .. MaxDepth -> Paths] /\ w[0] = <<Asked>>
      /\ \A m \in 1 .. MaxDepth : w[m] = Longer(side, w[m - 1], R)
  BY Walks
<1> HIDE DEF w
<1>2. PICK first \in Paths : first = <<Asked>>
  <2>1. 0 \in 0 .. MaxDepth
    BY <1>1
  <2> QED
    BY <1>1, <2>1
<1>3. Len(first) = 1 /\ LastOf(first) = Asked /\ ~Loops(first)
  BY <1>2 DEF LastOf, Loops
<1>4. CASE HopBy(side, Asked, R) = NoHop
  <2>1. Longer(side, first, R) = first
    BY <1>3, <1>4 DEF Longer, Stops
  <2> DEFINE P == {m \in 0 .. MaxDepth : w[m] = first}
  <2>2. 0 \in P
    BY <1>1, <1>2
  <2>3. ASSUME NEW m \in 1 .. MaxDepth, m - 1 \in P
        PROVE  m \in P
    BY <1>1, <2>1, <2>3
  <2>4. \A m \in 0 .. MaxDepth : m \in P
    <3> HIDE DEF P
    <3> QED
      BY <1>1, <2>2, <2>3, UpTo
  <2>5. MaxDepth \in 0 .. MaxDepth
    BY <1>1
  <2>6. w[MaxDepth] = first
    BY <2>4, <2>5
  <2> QED
    BY <1>3, <1>4, <2>6 DEF w
<1>5. CASE HopBy(side, Asked, R) # NoHop
  <2>1. ~Stops(side, first, R)
    BY <1>3, <1>5 DEF Stops
  <2>2. Len(Longer(side, first, R)) = 2
    <3>1. Len(Longer(side, first, R)) = Len(first) + 1
      BY <2>1, LongerIsPath
    <3> QED
      BY <1>3, <3>1
  <2>3. 1 \in 0 .. MaxDepth /\ 1 \in 1 .. MaxDepth /\ 1 - 1 = 0
    BY <1>1
  <2>4. w[1] = Longer(side, w[1 - 1], R)
    BY <1>1, <2>3
  <2>5. w[1] = Longer(side, first, R)
    BY <1>1, <1>2, <2>3, <2>4
  <2>6. Len(w[1]) <= Len(w[MaxDepth])
    BY <2>3, WalkGrows DEF w
  <2>7. Len(w[MaxDepth]) \in Nat /\ Len(w[1]) = 2
    BY <1>1, <2>2, <2>5, PathIsList
  <2>8. Len(w[MaxDepth]) # 1
    <3>1. PICK c \in Nat : c = Len(w[MaxDepth])
      BY <2>7
    <3>2. 2 <= c
      BY <2>6, <2>7, <3>1
    <3>3. c # 1
      BY <3>2
    <3> QED
      BY <3>1, <3>3, Zenon
  <2> QED
    BY <1>5, <2>8 DEF w
<1> QED
  BY <1>4, <1>5

(* Where no name of a chain is too long, the contract sees the same aliases. *)
LEMMA SameHops ==
    ASSUME NEW R \in SUBSET Records, NEW path, path = Walk("engine", R)[MaxDepth],
           \A i \in 1 .. Len(path) : Len(path[i]) <= MaxLabels
    PROVE  /\ path \in Paths
           /\ \A i \in 1 .. Len(path) - 1 :
                 HopBy("contract", path[i], R) = HopBy("engine", path[i], R)
<1>1. MaxDepth \in 0 .. MaxDepth
  <2>1. MaxDepth \in Nat \ {0}
    BY Walks
  <2> QED
    BY <2>1
<1>2. path \in Paths /\ \A i \in 1 .. Len(path) - 1 : HopBy("engine", path[i], R).to = path[i + 1]
  BY <1>1, WalkHops
<1>3. Len(path) \in Nat
  BY <1>2, PathIsList
<1>4. ASSUME NEW i \in 1 .. Len(path) - 1
      PROVE  HopBy("contract", path[i], R) = HopBy("engine", path[i], R)
  <2>1. i + 1 \in 1 .. Len(path)
    BY <1>3
  <2>2. Len(HopBy("engine", path[i], R).to) <= MaxLabels
    BY <1>2, <2>1
  <2> QED
    BY <2>2, HopsAgree
<1> QED
  BY <1>2, <1>4

(* One more hop of the contract's walk is one more of the engine's.          *)
LEMMA SameStep ==
    ASSUME NEW R \in SUBSET Records, NEW path \in Paths,
           Longer("engine", path, R) = path
              \/ Len(Longer("engine", path, R)[Len(path) + 1]) <= MaxLabels
    PROVE  Longer("contract", path, R) = Longer("engine", path, R)
<1>1. CASE Loops(path)
  BY <1>1 DEF Longer, Stops
<1>2. CASE ~Loops(path) /\ HopBy("engine", LastOf(path), R) = NoHop
  <2>1. HopBy("contract", LastOf(path), R) = NoHop
    BY <1>2, HopsAgree
  <2> QED
    BY <1>2, <2>1 DEF Longer, Stops
<1>3. CASE ~Loops(path) /\ HopBy("engine", LastOf(path), R) # NoHop
  <2>1. ~Stops("engine", path, R)
    BY <1>3 DEF Stops
  <2>2. /\ Len(Longer("engine", path, R)) = Len(path) + 1 /\ Len(path) \in Nat
        /\ Longer("engine", path, R)[Len(path) + 1] = HopBy("engine", LastOf(path), R).to
    BY <2>1, LongerIsPath, PathIsList
  <2>3. Longer("engine", path, R) # path
    <3>1. PICK c \in Nat : c = Len(path)
      BY <2>2
    <3>2. c + 1 # c
      OBVIOUS
    <3> QED
      BY <2>2, <3>1, <3>2, Zenon
  <2>4. HopBy("contract", LastOf(path), R) = HopBy("engine", LastOf(path), R)
    BY <2>2, <2>3, HopsAgree
  <2> QED
    BY <1>3, <2>4 DEF Longer, Stops
<1> QED
  BY <1>1, <1>2, <1>3

(* And so both walk the same way.                                            *)
LEMMA SameWalks ==
    ASSUME NEW R \in SUBSET Records, NEW path, path = Walk("engine", R)[MaxDepth],
           \A i \in 1 .. Len(path) : Len(path[i]) <= MaxLabels
    PROVE  Walk("contract", R)[MaxDepth] = path
<1> DEFINE e == Walk("engine", R)
           k == Walk("contract", R)
           P == {n \in 0 .. MaxDepth : k[n] = e[n]}
<1>1. /\ MaxDepth \in Nat \ {0} /\ e \in [0 .. MaxDepth -> Paths] /\ k[0] = e[0]
      /\ \A n \in 1 .. MaxDepth : e[n] = Longer("engine", e[n - 1], R)
      /\ \A n \in 1 .. MaxDepth : k[n] = Longer("contract", k[n - 1], R)
  BY Walks
<1>2. \A n \in 0 .. MaxDepth : /\ Len(e[n]) <= Len(path)
                               /\ \A i \in 1 .. Len(e[n]) : path[i] = e[n][i]
  BY WalkGrows
<1>3. path \in Paths
  BY SameHops
<1> HIDE DEF e, k
<1>4. 0 \in P
  BY <1>1
<1>5. ASSUME NEW n \in 1 .. MaxDepth, n - 1 \in P
      PROVE  n \in P
  <2>1. n - 1 \in 0 .. MaxDepth /\ n \in 0 .. MaxDepth
    BY <1>1
  <2>2. PICK p \in Paths : p = e[n - 1] /\ p = k[n - 1]
    BY <1>1, <1>5, <2>1
  <2>3. e[n] = Longer("engine", p, R) /\ k[n] = Longer("contract", p, R)
    BY <1>1, <2>2
  <2>4. ASSUME Longer("engine", p, R) # p
        PROVE  Len(Longer("engine", p, R)[Len(p) + 1]) <= MaxLabels
    <3>1. ~Stops("engine", p, R)
      BY <2>4 DEF Longer
    <3>2. Len(e[n]) = Len(p) + 1
      BY <2>3, <3>1, LongerIsPath
    <3>3. PICK c \in Nat : c = Len(p)
      BY PathIsList
    <3>4. PICK l \in Nat : l = Len(path)
      BY <1>3, PathIsList
    <3>5. c + 1 <= l
      BY <1>2, <2>1, <3>2, <3>3, <3>4
    <3>6. c + 1 \in 1 .. Len(e[n]) /\ c + 1 \in 1 .. Len(path)
      BY <3>2, <3>3, <3>4, <3>5
    <3>7. path[c + 1] = e[n][c + 1] /\ Len(path[c + 1]) <= MaxLabels
      BY <1>2, <2>1, <3>6
    <3> QED
      BY <2>3, <3>3, <3>7
  <2> QED
    BY <2>1, <2>3, <2>4, SameStep
<1>6. \A n \in 0 .. MaxDepth : n \in P
  <2> HIDE DEF P
  <2> QED
    BY <1>1, <1>4, <1>5, UpTo
<1>7. MaxDepth \in 0 .. MaxDepth
  BY <1>1
<1>8. k[MaxDepth] = e[MaxDepth]
  BY <1>6, <1>7
<1> QED
  BY <1>8 DEF e, k

(* The chain the contract derives is the one the engine derives, unless the  *)
(* next hop of the longest chain makes a name too long.                      *)
LEMMA ChainsAgree ==
    ASSUME NEW R \in SUBSET Records,
           \A i \in DOMAIN BuildAliasChain(R).names :
               Len(BuildAliasChain(R).names[i]) <= MaxLabels
    PROVE  AliasChainFromAnswer(R) = BuildAliasChain(R) \/ EndsBeforeLongName(R)
<1>1. PICK path : path = Walk("engine", R)[MaxDepth]
  OBVIOUS
<1>2. MaxDepth \in Nat \ {0} /\ path \in Paths
  BY <1>1, Walks
<1>3. /\ BuildAliasChain(R) = ChainOf("engine", path, R)
      /\ AliasChainFromAnswer(R) = ChainOf("contract", Walk("contract", R)[MaxDepth], R)
  BY <1>1, ChainIsOfWalk DEF BuildAliasChain, AliasChainFromAnswer
<1>4. CASE Len(path) = 1
  <2>1. HopBy("engine", Asked, R) = NoHop
    BY <1>1, <1>4, FirstHop
  <2>2. HopBy("contract", Asked, R) = NoHop
    BY <2>1, HopsAgree
  <2>3. Len(Walk("contract", R)[MaxDepth]) = 1
    BY <2>2, FirstHop
  <2> QED
    BY <1>3, <1>4, <2>3 DEF ChainOf
<1>5. CASE Len(path) # 1
  <2>1. BuildAliasChain(R).names = path /\ DOMAIN path = 1 .. Len(path)
    <3>1. BuildAliasChain(R).names = path
      BY <1>3, <1>5 DEF ChainOf
    <3>2. path \in Seq(Names)
      BY <1>2 DEF Paths
    <3> QED
      BY <3>1, <3>2
  <2>2. \A i \in 1 .. Len(path) : Len(path[i]) <= MaxLabels
    BY <2>1
  <2>3. AliasChainFromAnswer(R) = ChainOf("contract", path, R)
    BY <1>1, <1>3, <2>2, SameWalks
  <2>4. \A i \in 1 .. Len(path) - 1 : HopBy("contract", path[i], R) = HopBy("engine", path[i], R)
    BY <1>1, <2>2, SameHops
  <2>5. [i \in 1 .. Len(path) - 1 |-> HopBy("contract", path[i], R).type]
            = [i \in 1 .. Len(path) - 1 |-> HopBy("engine", path[i], R).type]
    BY <2>4
  <2>6. CASE (HopBy("contract", LastOf(path), R) = NoHop)
                = (HopBy("engine", LastOf(path), R) = NoHop)
    <3>1. (~Loops(path) /\ HopBy("contract", LastOf(path), R) # NoHop)
             = (~Loops(path) /\ HopBy("engine", LastOf(path), R) # NoHop)
      BY <2>6
    <3>2. ChainOf("contract", path, R) = ChainOf("engine", path, R)
      BY <1>5, <2>5, <3>1 DEF ChainOf
    <3> QED
      BY <1>3, <2>3, <3>2
  <2>7. CASE (HopBy("contract", LastOf(path), R) = NoHop)
                # (HopBy("engine", LastOf(path), R) = NoHop)
    <3>1. HopBy("contract", LastOf(path), R) = NoHop /\ HopBy("engine", LastOf(path), R) # NoHop
      BY <2>7, HopsAgree
    <3>2. CASE Loops(path)
      <4>1. ChainOf("contract", path, R) = ChainOf("engine", path, R)
        BY <1>5, <2>5, <3>2 DEF ChainOf
      <4> QED
        BY <1>3, <2>3, <4>1
    <3>3. CASE ~Loops(path)
      <4>1. BuildAliasChain(R).cut
                = (~Loops(path) /\ HopBy("engine", LastOf(path), R) # NoHop)
        BY <1>3, <1>5 DEF ChainOf
      <4>2. NextAnswerAliasHop(LastOf(BuildAliasChain(R).names), R) = NoHop
        BY <2>1, <3>1 DEF HopBy
      <4> QED
        BY <3>1, <3>3, <4>1, <4>2 DEF EndsBeforeLongName
    <3> QED
      BY <3>2, <3>3
  <2> QED
    BY <2>6, <2>7
<1> QED
  BY <1>4, <1>5

-----------------------------------------------------------------------------
(* Responses: what holds for a part of an answer.                           *)

(* Of two names above a third, the longer one is below the shorter one.      *)
LEMMA AboveIsOrdered ==
    ASSUME NEW name \in Names, NEW a \in Names, NEW b \in Names,
           Below(name, a), Below(name, b), Len(a) <= Len(b)
    PROVE  a = b \/ Below(b, a)
<1>1. PICK n \in Nat, k \in Nat, l \in Nat : n = Len(name) /\ k = Len(a) /\ l = Len(b)
  BY DEF Names
<1>2. /\ k <= l /\ l < n /\ a = SubSeq(name, n - k + 1, n) /\ b = SubSeq(name, n - l + 1, n)
  BY <1>1 DEF Below
<1>3. CASE k = l
  BY <1>2, <1>3
<1>4. CASE k # l
  <2>1. \A i \in 1 .. n : name[i] \in STRING
    BY <1>1 DEF Names
  <2>2. \A i \in 1 .. k : a[i] = name[n - k + i]
    <3>1. \A i \in n - k + 1 .. n : name[i] \in STRING
      BY <1>2, <2>1
    <3>2. \A i \in 1 .. n - (n - k + 1) + 1 : a[i] = name[n - k + 1 + i - 1]
      BY <1>2, <3>1, SubSeqProperties
    <3>3. n - (n - k + 1) + 1 = k /\ \A i \in 1 .. k : n - k + 1 + i - 1 = n - k + i
      OBVIOUS
    <3> QED
      BY <3>2, <3>3
  <2>3. \A i \in 1 .. l : b[i] = name[n - l + i]
    <3>1. \A i \in n - l + 1 .. n : name[i] \in STRING
      BY <1>2, <2>1
    <3>2. \A i \in 1 .. n - (n - l + 1) + 1 : b[i] = name[n - l + 1 + i - 1]
      BY <1>2, <3>1, SubSeqProperties
    <3>3. n - (n - l + 1) + 1 = l /\ \A i \in 1 .. l : n - l + 1 + i - 1 = n - l + i
      OBVIOUS
    <3> QED
      BY <3>2, <3>3
  <2>4. PICK s : s = SubSeq(b, l - k + 1, l)
    OBVIOUS
  <2>5. /\ s \in Seq(STRING) /\ Len(s) = k
        /\ \A i \in 1 .. k : s[i] = b[l - k + i]
    <3>1. \A i \in l - k + 1 .. l : b[i] \in STRING
      BY <1>1, <1>2 DEF Names
    <3>2. /\ s \in Seq(STRING)
          /\ Len(s) = IF l - k + 1 <= l THEN l - (l - k + 1) + 1 ELSE 0
          /\ \A i \in 1 .. l - (l - k + 1) + 1 : s[i] = b[l - k + 1 + i - 1]
      BY <2>4, <3>1, SubSeqProperties
    <3>3. /\ l - (l - k + 1) + 1 = k /\ (~(l - k + 1 <= l) => k = 0)
          /\ \A i \in 1 .. k : l - k + 1 + i - 1 = l - k + i
      OBVIOUS
    <3> QED
      BY <3>2, <3>3
  <2>6. ASSUME NEW i \in 1 .. k
        PROVE  s[i] = a[i]
    <3>1. l - k + i \in 1 .. l /\ n - l + (l - k + i) = n - k + i
      BY <1>2
    <3> QED
      BY <2>2, <2>3, <2>5, <3>1
  <2>7. s = a
    BY <1>1, <2>5, <2>6, SeqEqual DEF Names
  <2>8. k < l /\ a = SubSeq(b, l - k + 1, l)
    BY <1>2, <1>4, <2>4, <2>7
  <2> QED
    BY <1>1, <2>8 DEF Below
<1> QED
  BY <1>3, <1>4

(* A part of an answer that does not contradict itself does not either, if  *)
(* no DNAME is below another: the closest one above a name is then the only *)
(* one.                                                                     *)
LEMMA PartsAgree ==
    ASSUME NEW A \in SUBSET Records, NEW R \in SUBSET A,
           ~Contradicts(A), ~NestedDNAMEs(A)
    PROVE  ~Contradicts(R)
<1>1. ~(\E r, s \in R :
           r.type = s.type /\ r.owner = s.owner /\ r.to # s.to /\ r.type \in {"CNAME", "DNAME"})
  BY DEF Contradicts
<1>2. ASSUME NEW r \in R, r.type = "CNAME", DNAMEsAbove(r.owner, R) # {}
      PROVE  Synthesized(r.owner, Closest(DNAMEsAbove(r.owner, R))) = r.to
  <2>1. r.owner \in Names /\ R \in SUBSET Records
    BY RecordsAreNamed
  <2>2. DNAMEsAbove(r.owner, R) \subseteq DNAMEsAbove(r.owner, A)
    BY DEF DNAMEsAbove
  <2>3. PICK c \in DNAMEsAbove(r.owner, R) : c = Closest(DNAMEsAbove(r.owner, R))
    BY <1>2, <2>1, ClosestIs
  <2>4. PICK d \in DNAMEsAbove(r.owner, A) :
           /\ d = Closest(DNAMEsAbove(r.owner, A))
           /\ \A x \in DNAMEsAbove(r.owner, A) : Len(x.owner) <= Len(d.owner)
    BY <1>2, <2>1, <2>2, ClosestIs
  <2>5. /\ c \in A /\ c.type = "DNAME" /\ Below(r.owner, c.owner)
        /\ d \in A /\ d.type = "DNAME" /\ Below(r.owner, d.owner)
    BY <2>3, <2>4 DEF DNAMEsAbove
  <2>6. Len(c.owner) <= Len(d.owner)
    BY <2>2, <2>3, <2>4
  <2>7. c.owner \in Names /\ d.owner \in Names
    BY <2>5, RecordsAreNamed
  <2>8. c.owner = d.owner
    BY <2>1, <2>5, <2>6, <2>7, AboveIsOrdered DEF NestedDNAMEs
  <2>9. c.to = d.to
    BY <2>5, <2>8 DEF Contradicts
  <2>10. Synthesized(r.owner, d) = r.to
    BY <1>2, <2>2, <2>4 DEF Contradicts
  <2> QED
    BY <2>3, <2>8, <2>9, <2>10 DEF Synthesized
<1> QED
  BY <1>1, <1>2 DEF Contradicts

(* A list of whole RRsets holds records of the list it is taken from.       *)
LEMMA PrefixIsPart ==
    ASSUME NEW records \in Seq(Records), NEW count
    PROVE  /\ RRSetPrefix(records, count) \in Seq(Records)
           /\ Members(RRSetPrefix(records, count)) \subseteq Members(records)
<1>1. PICK n \in Nat : n = Len(records)
  OBVIOUS
<1>2. PICK K \in SUBSET (1 .. n) : RRSetPrefix(records, count) = Only(records, K)
  <2>1. DOMAIN records = 1 .. n
    BY <1>1
  <2> DEFINE J == {i \in DOMAIN records : Rank(records, records[i]) <= count}
  <2>2. J \in SUBSET (1 .. n) /\ RRSetPrefix(records, count) = Only(records, J)
    BY <2>1 DEF RRSetPrefix
  <2> HIDE DEF J
  <2> QED
    BY <2>2
<1>3. K \in SUBSET Nat /\ IsFiniteSet(K)
  <2>1. IsFiniteSet(1 .. n)
    BY FS_Interval
  <2>2. IsFiniteSet(K)
    BY <2>1, FS_Subset
  <2>3. \A k \in K : k \in Nat
    OBVIOUS
  <2> QED
    BY <2>2, <2>3
<1>4. PICK d : d = RRSetPrefix(records, count)
  OBVIOUS
<1>5. PICK at : Picks(at, K, records, d)
  BY <1>2, <1>3, <1>4, OnlyPicks
<1>6. \A i \in 1 .. Len(d) : d[i] \in Records /\ d[i] \in Members(records)
  <2> TAKE i \in 1 .. Len(d)
  <2>1. at[i] \in 1 .. n /\ d[i] = records[at[i]]
    BY <1>5 DEF Picks
  <2> QED
    BY <1>1, <2>1 DEF Members
<1>7. Len(d) \in Nat /\ DOMAIN d = 1 .. Len(d) /\ d = [i \in 1 .. Len(d) |-> d[i]]
  <2>1. Len(d) \in Nat /\ DOMAIN d = 1 .. Len(d)
    BY <1>5 DEF Picks
  <2>2. d = [i \in DOMAIN d |-> d[i]]
    BY <1>2, <1>4 DEF Only
  <2> QED
    BY <2>1, <2>2
<1>8. d \in Seq(Records)
  BY <1>6, <1>7
<1> QED
  BY <1>4, <1>6, <1>7, <1>8 DEF Members

-----------------------------------------------------------------------------
(* Responses: the invariant.                                                *)

(* The observation holds the whole answer, and the chain of the engine.     *)
Whole ==
    /\ kept = answer /\ chain = BuildAliasChain(Members(answer)) /\ (chain.cut => cropped)
    /\ \A i \in DOMAIN chain.names : Len(chain.names[i]) <= MaxLabels

\* It holds no chain, and says that something is missing.
Unchained == chain = NoChain /\ cropped

ResponseInv ==
    /\ answer \in Seq(Records)
    /\ stage # "received" => context \in Contexts
    /\ stage \in {"parsed", "fit", "search"} => ~Contradicts(Members(answer))
    /\ stage \in {"fit", "search"} =>
          kept \in Seq(Records) /\ Members(kept) \subseteq Members(answer)
    /\ stage = "fit" => Whole \/ Unchained
    /\ stage = "search" => Unchained
    /\ stage = "accepted" => Whole \/ cropped
    /\ stage \in {"fit", "search", "accepted"} =>
          outcome = ClassifyOutcome(Members(answer)) /\ negative = NegativeTTL(outcome)
    /\ stage = "rejected" =>
          NestedDNAMEs(Members(answer)) \/ EndsBeforeLongName(Members(answer))

\* What an answer holds are records.
LEMMA MembersAreRecords ==
    ASSUME NEW s \in Seq(Records)
    PROVE  Members(s) \in SUBSET Records
BY DEF Members

(* The whole answer is accepted with its chain, unless the chain ends before *)
(* a name that is too long.                                                  *)
LEMMA AcceptsWhole ==
    ASSUME answer \in Seq(Records), ~Contradicts(Members(answer)), Whole
    PROVE  \/ Accepts(kept, chain, cropped)
           \/ EndsBeforeLongName(Members(answer))
<1>1. Members(answer) \in SUBSET Records
  BY MembersAreRecords
<1>2. \/ AliasChainFromAnswer(Members(answer)) = chain
      \/ EndsBeforeLongName(Members(answer))
  BY <1>1, ChainsAgree DEF Whole
<1> QED
  BY <1>2 DEF Whole, Accepts

\* Without the chain, any part of the answer will do.
LEMMA AcceptsBare ==
    ASSUME answer \in Seq(Records), ~Contradicts(Members(answer)), Unchained,
           NEW records, Members(records) \subseteq Members(answer)
    PROVE  \/ Accepts(records, chain, cropped)
           \/ NestedDNAMEs(Members(answer))
<1>1. Members(answer) \in SUBSET Records
  BY MembersAreRecords
<1>2. ~Contradicts(Members(records)) \/ NestedDNAMEs(Members(answer))
  BY <1>1, PartsAgree
<1> QED
  BY <1>2 DEF Unchained, Accepts, NoChain

\* The invariant holds at first.
LEMMA ResponseStarts ==
    ResponseInit => ResponseInv
<1> SUFFICES ASSUME ResponseInit
             PROVE  ResponseInv
  OBVIOUS
<1>1. answer \in Seq(Records)
  <2>1. PICK n \in 0 .. MaxAnswer : answer \in [1 .. n -> Records]
    BY DEF ResponseInit, Answers
  <2>2. n \in Nat
    BY <2>1, ResponseAssumption
  <2> QED
    BY <2>1, <2>2
<1> QED
  BY <1>1 DEF ResponseInit, ResponseInv

\* Parse refuses what contradicts itself.
LEMMA ParseKeepsResponse ==
    ASSUME ResponseInv, NEW c \in Contexts, Parse(c)
    PROVE  ResponseInv'
BY DEF ResponseInv, Parse

\* Convert keeps the whole answer with its chain, or says it was cropped.
LEMMA ConvertKeepsResponse ==
    ASSUME ResponseInv, NEW limit, Convert(limit)
    PROVE  ResponseInv'
<1> DEFINE built == BuildAliasChain(Members(answer))
           long == \E i \in DOMAIN built.names : Len(built.names[i]) > MaxLabels
           dropped == long \/ Within(answer, limit) # answer
<1>1. /\ stage = "parsed" /\ stage' = "fit" /\ kept' = Within(answer, limit)
      /\ chain' = (IF dropped THEN NoChain ELSE built) /\ cropped' = (dropped \/ built.cut)
      /\ outcome' = ClassifyOutcome(Members(answer)) /\ negative' = NegativeTTL(outcome')
      /\ answer' = answer /\ context' = context
  BY DEF Convert
<1>2. answer \in Seq(Records) /\ context \in Contexts /\ ~Contradicts(Members(answer))
  BY <1>1 DEF ResponseInv
<1>3. kept' \in Seq(Records) /\ Members(kept') \subseteq Members(answer)
  BY <1>1, <1>2, PrefixIsPart DEF Within
<1>4. Whole' \/ Unchained'
  <2>1. CASE dropped
    BY <1>1, <2>1 DEF Unchained
  <2>2. CASE ~dropped
    <3>1. kept' = answer' /\ chain' = BuildAliasChain(Members(answer')) /\ (chain'.cut => cropped')
      BY <1>1, <2>2
    <3>2. \A i \in DOMAIN chain'.names : Len(chain'.names[i]) <= MaxLabels
      <4>1. chain' = built /\ ~long
        BY <1>1, <2>2
      <4>2. chain' = NoChain \/ \A i \in DOMAIN chain'.names : Len(chain'.names[i]) \in Nat
        <5>1. PICK path : path = Walk("engine", Members(answer))[MaxDepth]
          OBVIOUS
        <5>2. built = ChainOf("engine", path, Members(answer))
          BY <5>1, ChainIsOfWalk DEF BuildAliasChain
        <5>3. path \in Seq(Names)
          <6>1. Members(answer) \in SUBSET Records
            BY <1>2, MembersAreRecords
          <6>2. MaxDepth \in Nat \ {0} /\ Walk("engine", Members(answer)) \in [0 .. MaxDepth -> Paths]
            BY <6>1, Walks
          <6>3. MaxDepth \in 0 .. MaxDepth
            BY <6>2
          <6> QED
            BY <5>1, <6>2, <6>3 DEF Paths
        <5>4. \A i \in DOMAIN path : Len(path[i]) \in Nat
          BY <5>3 DEF Names
        <5> QED
          BY <4>1, <5>2, <5>4 DEF ChainOf
      <4>3. MaxLabels \in Nat
        BY ResponseAssumption
      <4>4. CASE chain' = NoChain
        <5>1. DOMAIN chain'.names = {}
          BY <4>4 DEF NoChain
        <5> QED
          BY <5>1
      <4>5. CASE \A i \in DOMAIN chain'.names : Len(chain'.names[i]) \in Nat
        BY <4>1, <4>3, <4>5
      <4> QED
        BY <4>2, <4>4, <4>5
    <3> QED
      BY <3>1, <3>2 DEF Whole
  <2> QED
    BY <2>1, <2>2
<1>5. outcome' = ClassifyOutcome(Members(answer))' /\ negative' = NegativeTTL(outcome)'
  <2>1. ClassifyOutcome(Members(answer))' = ClassifyOutcome(Members(answer))
    BY <1>1 DEF ClassifyOutcome, HasTerminalAnswer
  <2>2. NegativeTTL(outcome)' = NegativeTTL(outcome')
    BY <1>1 DEF NegativeTTL
  <2> QED
    BY <1>1, <2>1, <2>2
<1> HIDE DEF built, long, dropped
<1> QED
  BY <1>1, <1>2, <1>3, <1>4, <1>5 DEF ResponseInv

\* The outcome depends on the answer and its context only.
LEMMA ResponsePrimes ==
    ASSUME answer' = answer, context' = context, outcome' = outcome
    PROVE  /\ ClassifyOutcome(Members(answer))' = ClassifyOutcome(Members(answer))
           /\ NegativeTTL(outcome)' = NegativeTTL(outcome)
<1>1. ClassifyOutcome(Members(answer))' = ClassifyOutcome(Members(answer))
  BY DEF ClassifyOutcome, HasTerminalAnswer
<1>2. NegativeTTL(outcome)' = NegativeTTL(outcome)
  BY DEF NegativeTTL
<1> QED
  BY <1>1, <1>2

\* What is offered to the contract is accepted, or is excused.
LEMMA FitsKeepsResponse ==
    ASSUME ResponseInv, NEW room, Fits(room)
    PROVE  ResponseInv'
<1>1. /\ stage = "fit" /\ answer' = answer /\ context' = context /\ outcome' = outcome
      /\ negative' = negative /\ kept' = kept
  BY DEF Fits
<1>2. /\ answer \in Seq(Records) /\ context \in Contexts /\ ~Contradicts(Members(answer))
      /\ kept \in Seq(Records) /\ Members(kept) \subseteq Members(answer)
      /\ Whole \/ Unchained
      /\ outcome = ClassifyOutcome(Members(answer)) /\ negative = NegativeTTL(outcome)
  BY <1>1 DEF ResponseInv
<1>3. /\ outcome' = ClassifyOutcome(Members(answer))' /\ negative' = NegativeTTL(outcome)'
  BY <1>1, <1>2, ResponsePrimes
<1>4. CASE ~Accepts(kept, chain, cropped)
  <2>1. stage' = "rejected"
    BY <1>4 DEF Fits
  <2>2. NestedDNAMEs(Members(answer)) \/ EndsBeforeLongName(Members(answer))
    BY <1>2, <1>4, AcceptsWhole, AcceptsBare
  <2> QED
    BY <1>1, <1>2, <2>1, <2>2 DEF ResponseInv
<1>5. CASE Accepts(kept, chain, cropped) /\ Len(kept) <= room
  <2>1. /\ stage' = "accepted"
        /\ \/ UNCHANGED <<chain, cropped>>
           \/ chain' \in {chain, NoChain} /\ cropped' = TRUE
    BY <1>5 DEF Fits
  <2>2. Whole' \/ cropped'
    <3>1. CASE chain' = chain /\ cropped' = cropped
      BY <1>1, <1>2, <3>1 DEF Whole, Unchained
    <3> QED
      BY <2>1, <3>1
  <2> QED
    BY <1>1, <1>2, <1>3, <2>1, <2>2 DEF ResponseInv
<1>6. CASE Accepts(kept, chain, cropped) /\ ~(Len(kept) <= room)
  <2>1. stage' = "search" /\ cropped' = TRUE /\ chain' = NoChain
    BY <1>6 DEF Fits
  <2>2. Unchained'
    BY <2>1 DEF Unchained
  <2> QED
    BY <1>1, <1>2, <1>3, <2>1, <2>2 DEF ResponseInv
<1> QED
  BY <1>4, <1>5, <1>6

\* So is every shorter answer the search tries.
LEMMA ProbeKeepsResponse ==
    ASSUME ResponseInv, Probe
    PROVE  ResponseInv'
<1>1. /\ stage = "search" /\ answer' = answer /\ context' = context /\ outcome' = outcome
      /\ negative' = negative /\ kept' = kept /\ chain' = chain /\ cropped' = cropped
      /\ IF ~Accepts(RRSetPrefix(kept, Middle), chain, cropped) THEN stage' = "rejected"
         ELSE stage' = stage
  BY DEF Probe
<1>2. /\ answer \in Seq(Records) /\ context \in Contexts /\ ~Contradicts(Members(answer))
      /\ kept \in Seq(Records) /\ Members(kept) \subseteq Members(answer) /\ Unchained
      /\ outcome = ClassifyOutcome(Members(answer)) /\ negative = NegativeTTL(outcome)
  BY <1>1 DEF ResponseInv
<1>3. /\ outcome' = ClassifyOutcome(Members(answer))' /\ negative' = NegativeTTL(outcome)'
  BY <1>1, <1>2, ResponsePrimes
<1>4. CASE Accepts(RRSetPrefix(kept, Middle), chain, cropped)
  <2>1. Unchained'
    BY <1>1, <1>2 DEF Unchained
  <2> QED
    BY <1>1, <1>2, <1>3, <1>4, <2>1 DEF ResponseInv
<1>5. CASE ~Accepts(RRSetPrefix(kept, Middle), chain, cropped)
  <2>1. Members(RRSetPrefix(kept, Middle)) \subseteq Members(answer)
    BY <1>2, PrefixIsPart
  <2>2. NestedDNAMEs(Members(answer))
    BY <1>2, <1>5, <2>1, AcceptsBare
  <2> QED
    BY <1>1, <1>2, <1>5, <2>2 DEF ResponseInv
<1> QED
  BY <1>4, <1>5

\* The search ends with a cropped observation.
LEMMA RetainKeepsResponse ==
    ASSUME ResponseInv, Retain
    PROVE  ResponseInv'
<1>1. /\ stage = "search" /\ stage' = "accepted" /\ answer' = answer /\ context' = context
      /\ outcome' = outcome /\ negative' = negative /\ chain' = chain /\ cropped' = cropped
  BY DEF Retain
<1>2. /\ answer \in Seq(Records) /\ context \in Contexts /\ Unchained
      /\ outcome = ClassifyOutcome(Members(answer)) /\ negative = NegativeTTL(outcome)
  BY <1>1 DEF ResponseInv
<1>3. /\ outcome' = ClassifyOutcome(Members(answer))' /\ negative' = NegativeTTL(outcome)'
  BY <1>1, <1>2, ResponsePrimes
<1>4. cropped'
  BY <1>1, <1>2 DEF Unchained
<1> QED
  BY <1>1, <1>2, <1>3, <1>4 DEF ResponseInv

\* A step of another component changes nothing here.
LEMMA StutteringKeepsResponse ==
    ASSUME ResponseInv, UNCHANGED respVars
    PROVE  ResponseInv'
<1>1. /\ answer' = answer /\ context' = context /\ stage' = stage /\ kept' = kept
      /\ chain' = chain /\ outcome' = outcome /\ negative' = negative /\ cropped' = cropped
  BY DEF respVars
<1>2. /\ ClassifyOutcome(Members(answer))' = ClassifyOutcome(Members(answer))
      /\ NegativeTTL(outcome)' = NegativeTTL(outcome)
  BY <1>1, ResponsePrimes
<1>3. Whole' = Whole /\ Unchained' = Unchained
  BY <1>1 DEF Whole, Unchained
<1> QED
  BY <1>1, <1>2, <1>3 DEF ResponseInv

(* What an accepted observation says about its own records.                 *)
LEMMA WholeSaysSo ==
    ASSUME answer \in Seq(Records), context \in Contexts, Whole,
           outcome = ClassifyOutcome(Members(answer)), negative = NegativeTTL(outcome)
    PROVE  LET names == {Asked} \cup Members(chain.names)
               found == \E r \in Members(kept) : r.type = context.qtype /\ r.owner \in names
           IN  /\ outcome \in {"nodata", "referral"} => ~found
               /\ outcome = "answer" => found \/ chain # NoChain
               /\ negative => outcome \in {"nodata", "nxdomain"}
<1> DEFINE R == Members(answer)
           names == {Asked} \cup Members(chain.names)
<1>1. R \in SUBSET Records
  BY MembersAreRecords
<1>2. PICK path : path = Walk("engine", R)[MaxDepth]
  OBVIOUS
<1>3. path \in Paths /\ path[1] = Asked
  <2>1. MaxDepth \in 0 .. MaxDepth
    <3>1. MaxDepth \in Nat \ {0}
      BY <1>1, Walks
    <3> QED
      BY <3>1
  <2> QED
    BY <1>1, <1>2, <2>1, WalkHops
<1>4. chain = ChainOf("engine", path, R)
  BY <1>2, ChainIsOfWalk DEF Whole, BuildAliasChain
<1>5. Len(path) \in Nat \ {0} /\ DOMAIN path = 1 .. Len(path)
  BY <1>3, PathIsList DEF Paths
<1>6. chain = NoChain <=> Len(path) = 1
  <2>1. ASSUME Len(path) # 1
        PROVE  chain # NoChain
    <3>1. chain.names = path
      BY <1>4, <2>1 DEF ChainOf
    <3>2. NoChain.names = <<>> /\ path # <<>>
      BY <1>3 DEF NoChain, Paths
    <3> QED
      BY <3>1, <3>2
  <2> QED
    BY <1>4, <2>1 DEF ChainOf
<1>7. NamesWalked(R) = names
  <2>1. CASE chain = NoChain
    <3>1. Members(chain.names) = {}
      BY <2>1 DEF NoChain, Members
    <3> QED
      BY <2>1, <3>1 DEF NamesWalked, Whole
  <2>2. CASE chain # NoChain
    <3>1. chain.names = path
      BY <1>4, <1>6, <2>2 DEF ChainOf
    <3>2. Asked \in Members(path)
      <4>1. 1 \in DOMAIN path
        BY <1>5
      <4> QED
        BY <1>3, <4>1 DEF Members
    <3> QED
      BY <2>2, <3>1, <3>2 DEF NamesWalked, Whole
  <2> QED
    BY <2>1, <2>2
<1>8. HasTerminalAnswer(R)
         <=> \E r \in Members(kept) : r.type = context.qtype /\ r.owner \in names
  <2> HIDE DEF names
  <2> QED
    BY <1>7 DEF HasTerminalAnswer, Whole
<1>9. context.rcode \in {"noerror", "nxdomain", "servfail", "refused", "other"}
  BY ResponseAssumption
<1>10. NextAliasHop(Asked, R) # NoHop => chain # NoChain
  <2>1. Len(path) = 1 <=> HopBy("engine", Asked, R) = NoHop
    BY <1>1, <1>2, FirstHop
  <2> QED
    BY <1>6, <2>1 DEF HopBy
<1>11. outcome \in {"nodata", "referral"} => ~HasTerminalAnswer(R)
  BY <1>9 DEF ClassifyOutcome
<1>12. outcome = "answer" => HasTerminalAnswer(R) \/ chain # NoChain
  BY <1>9, <1>10 DEF ClassifyOutcome
<1>13. negative => outcome \in {"nodata", "nxdomain"}
  BY DEF NegativeTTL
<1> HIDE DEF R
<1> QED
  BY <1>8, <1>11, <1>12, <1>13

\* The invariant implies the property.
LEMMA ResponseInvReports ==
    ResponseInv => ResponsesAreReported
<1> SUFFICES ASSUME ResponseInv
             PROVE  ResponsesAreReported
  OBVIOUS
<1>1. ASSUME stage = "accepted", ~cropped
      PROVE  LET names == {Asked} \cup Members(chain.names)
                 found == \E r \in Members(kept) : r.type = context.qtype /\ r.owner \in names
             IN  /\ outcome \in {"nodata", "referral"} => ~found
                 /\ outcome = "answer" => found \/ chain # NoChain
                 /\ negative => outcome \in {"nodata", "nxdomain"}
  <2>1. /\ answer \in Seq(Records) /\ context \in Contexts /\ Whole
        /\ outcome = ClassifyOutcome(Members(answer)) /\ negative = NegativeTTL(outcome)
    BY <1>1 DEF ResponseInv
  <2> QED
    BY <2>1, WholeSaysSo
<1>2. stage = "rejected" =>
          NestedDNAMEs(Members(answer)) \/ EndsBeforeLongName(Members(answer))
  BY DEF ResponseInv
<1> QED
  BY <1>1, <1>2 DEF ResponsesAreReported

(* Whatever a response says and wherever it is cropped, the contract takes   *)
(* what the engine made of it, but for the two disagreements the property    *)
(* names; and a complete observation says what its own records say.          *)
THEOREM ResponsesAreAlwaysReported == ResponseSpec => []ResponsesAreReported
<1>1. ResponseInit => ResponseInv
  BY ResponseStarts
<1>2. ResponseInv /\ [ResponseNext]_respVars => ResponseInv'
  <2> SUFFICES ASSUME ResponseInv, [ResponseNext]_respVars
               PROVE  ResponseInv'
    OBVIOUS
  <2>1. CASE \E c \in Contexts : Parse(c)
    BY <2>1, ParseKeepsResponse
  <2>2. CASE \E limit \in SectionLimits : Convert(limit)
    BY <2>2, ConvertKeepsResponse
  <2>3. CASE \E room \in 0 .. MaxAnswer : Fits(room)
    BY <2>3, FitsKeepsResponse
  <2>4. CASE Probe
    BY <2>4, ProbeKeepsResponse
  <2>5. CASE Retain
    BY <2>5, RetainKeepsResponse
  <2>6. CASE UNCHANGED respVars
    BY <2>6, StutteringKeepsResponse
  <2> QED
    BY <2>1, <2>2, <2>3, <2>4, <2>5, <2>6 DEF ResponseNext
<1>3. ResponseInv => ResponsesAreReported
  BY ResponseInvReports
<1> QED
  BY <1>1, <1>2, <1>3, PTL DEF ResponseSpec
=============================================================================
