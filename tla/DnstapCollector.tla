--------------------------- MODULE DnstapCollector ---------------------------
(***************************************************************************)
(* The dnstap collector (internal/dnstapcollector): it reads one bounded   *)
(* Frame Streams connection of a resolver, decodes every frame strictly,   *)
(* and pairs the queries with the responses.  The reader of the Frame      *)
(* Streams library is modelled by what Collect makes of its returns.  Left *)
(* out: the byte layout of protobuf and DNS messages, the order in which   *)
(* the exchanges are listed, and the clock.                                *)
(***************************************************************************)
EXTENDS Naturals, Sequences, FiniteSets

CONSTANTS
    Frames,               \* the frames a producer may send (see Frame)
    MaxStream,            \* bound: frames on one connection
    MaxFrameBytes, MaxEvents, MaxTotalFrameBytes, MaxOutstandingQuery

ASSUME LimitsAssumption ==
    /\ MaxStream \in Nat
    /\ MaxEvents \in Nat \ {0} /\ MaxFrameBytes \in Nat \ {0}
    /\ MaxTotalFrameBytes \in Nat /\ MaxTotalFrameBytes >= MaxFrameBytes
    /\ MaxOutstandingQuery \in 1 .. MaxEvents

ASSUME FramesAssumption == \A f \in Frames : f.size \in Nat

VARIABLES
    stream,    \* the frames the producer of this behaviour sends before STOP
    taken,     \* how many of them have been read
    tapCtx,    \* "live", "timeout" or "cancelled"
    tapPhase,  \* "handshake", "reading" or "ended"
    finished,  \* FINISH was written on the connection
    events,    \* the decoded events, in order
    tapResult  \* [status, code, exchanges, integrity]

tapVars == <<stream, taken, tapCtx, tapPhase, finished, events, tapResult>>

(* A frame: its dnstap type; whether its addresses, ports and names are     *)
(* well formed for its socket family; the QR bit of its DNS message; what   *)
(* pairs it (ports, upstream, DNS id and question); the times it states;    *)
(* the query bytes it carries, "" for none, and the id and question those   *)
(* were decoded to; and its size.                                           *)
Frame(kind, qr, key, asked, answered, wire, echo, wellFormed, size) ==
    [kind |-> kind, qr |-> qr, key |-> key, asked |-> asked, answered |-> answered,
     wire |-> wire, echo |-> echo, wellFormed |-> wellFormed, size |-> size]

(* decodeFrame accepts a frame. *)
Decodable(f) ==
    /\ f.wellFormed
    /\ f.kind \in {"query", "response"}
    /\ f.qr = (f.kind = "response")
    /\ f.kind = "response" => f.asked <= f.answered
    /\ (f.kind = "response" /\ f.wire # "") => f.echo = f.key

-----------------------------------------------------------------------------
(* pairEvents. *)

OfKind(evs, kind) == {i \in DOMAIN evs : evs[i].kind = kind}

(* exactCandidates: the queries a response may answer. *)
Compatible(q, r) ==
    q.key = r.key /\ q.asked = r.asked /\ (r.wire # "" => r.wire = q.wire)
\* mutant: a matched query stays a candidate
AlwaysCandidates(evs, matched, r) ==
    {i \in OfKind(evs, "query") : Compatible(evs[i], evs[r])}

Candidates(evs, matched, r) ==
    {i \in OfKind(evs, "query") \ matched : Compatible(evs[i], evs[r])}

Paired(status, query, response) == [status |-> status, query |-> query, response |-> response]

Matched(exchanges) == {e \in exchanges : e.status = "matched"}

(* What becomes of response n, given the exchanges of those before it. *)
Answer(evs, before, n) ==
    LET c == Candidates(evs, {e.query : e \in Matched(before)}, n)
    IN  IF c = {} THEN Paired("orphan_response", 0, n)
        ELSE IF Cardinality(c) = 1 THEN Paired("matched", CHOOSE i \in c : TRUE, n)
        ELSE Paired("ambiguous", 0, n)

(* The exchanges of the responses, in the order of the events. *)
Responses(evs) ==
    LET pair[n \in 0 .. Len(evs)] ==
            IF n = 0 THEN {}
            ELSE IF evs[n].kind # "response" THEN pair[n - 1]
            ELSE pair[n - 1] \cup {Answer(evs, pair[n - 1], n)}
    IN  pair[Len(evs)]

PairEvents(evs) ==
    LET answered == Responses(evs)
        open == OfKind(evs, "query") \ {e.query : e \in Matched(answered)}
    IN  answered \cup {Paired("no_response", i, 0) : i \in open}

Integrity(exchanges) ==
    LET statuses == {e.status : e \in exchanges}
    IN  IF "ambiguous" \in statuses THEN "has_ambiguity"
        ELSE IF "orphan_response" \in statuses THEN "has_orphans" ELSE "exact"

-----------------------------------------------------------------------------
TapInit ==
    /\ stream \in UNION {[1 .. n -> Frames] : n \in 0 .. MaxStream}
    /\ taken = 0 /\ tapCtx = "live" /\ tapPhase = "handshake" /\ finished = FALSE
    /\ events = <<>>
    /\ tapResult = [status |-> "", code |-> "", exchanges |-> {}, integrity |-> "exact"]

(* The deadline passes or the caller cancels; a goroutine of Collect closes *)
(* the connection.                                                          *)
Expire ==
    /\ tapPhase # "ended" /\ tapCtx = "live"
    /\ tapCtx' \in {"timeout", "cancelled"}
    /\ UNCHANGED <<stream, taken, tapPhase, finished, events, tapResult>>

(* Collect returns before its loop: no event is paired. *)
GiveUp(status, code) ==
    /\ tapPhase' = "ended"
    /\ tapResult' = [tapResult EXCEPT !.status = status, !.code = code]

(* The loop ends: the events so far are paired, and a complete collection   *)
(* with too many open queries is not one.                                   *)
EndLoop(status, code, evs) ==
    LET exchanges == PairEvents(evs)
        open == Cardinality({e \in exchanges : e.status = "no_response"})
        tooOpen == open > MaxOutstandingQuery /\ status = "complete"
    IN  /\ tapPhase' = "ended"
        /\ tapResult' = [status |-> IF tooOpen THEN "limit_exceeded" ELSE status,
                         code |-> IF tooOpen THEN "outstanding_limit" ELSE code,
                         exchanges |-> exchanges, integrity |-> Integrity(exchanges)]

(* finishCollectionError. *)
StatusOf(err, handshake) ==
    IF tapCtx = "timeout" THEN <<"deadline_exceeded", "deadline_exceeded">>
    ELSE IF tapCtx = "cancelled" THEN <<"cancelled", "cancelled">>
    ELSE IF err = "content_type" THEN <<"protocol_error", "content_type">>
    ELSE IF err = "too_large" THEN <<"limit_exceeded", "frame_too_large">>
    ELSE IF err = "net_timeout"
    THEN <<"deadline_exceeded", IF handshake THEN "handshake_failed" ELSE "deadline_exceeded">>
    ELSE IF handshake THEN <<"protocol_error", "handshake_failed">>
    ELSE IF err = "decode" THEN <<"protocol_error", "invalid_control_flow">>
    ELSE <<"io_error", "read_failed">>

(* NewReader: READY, ACCEPT, START within the handshake timeout. *)
Handshake ==
    /\ tapPhase = "handshake"
    /\ \/ tapCtx = "live" /\ tapPhase' = "reading" /\ UNCHANGED tapResult
       \/ \E err \in {"content_type", "net_timeout", "decode", "reset"} :
             LET s == StatusOf(err, TRUE) IN GiveUp(s[1], s[2])
       \/ GiveUp("protocol_error", "invalid_control_flow") \* as observeControl saw it
       \/ GiveUp("io_error", "read_failed")                \* the deadline is not set
    /\ UNCHANGED <<stream, taken, tapCtx, finished, events>>

TotalBytes(evs) ==
    LET total[n \in 0 .. Len(evs)] == IF n = 0 THEN 0 ELSE total[n - 1] + evs[n].size
    IN  total[Len(evs)]

(* One data frame, and the checks of the loop in their order. *)
ReadData ==
    /\ tapPhase = "reading" /\ taken < Len(stream)
    /\ taken' = taken + 1
    /\ LET f == stream[taken + 1]
           large == StatusOf("too_large", FALSE)
       IN  IF f.size > MaxFrameBytes
           THEN EndLoop(large[1], large[2], events) /\ UNCHANGED events
           ELSE IF Len(events) >= MaxEvents
           THEN EndLoop("limit_exceeded", "event_limit", events) /\ UNCHANGED events
           ELSE IF TotalBytes(events) + f.size > MaxTotalFrameBytes
           THEN EndLoop("limit_exceeded", "byte_limit", events) /\ UNCHANGED events
           ELSE IF ~Decodable(f)
           THEN EndLoop("protocol_error", "invalid_dnstap", events) /\ UNCHANGED events
           ELSE events' = Append(events, f) /\ UNCHANGED <<tapPhase, tapResult>>
    /\ UNCHANGED <<stream, tapCtx, finished>>

(* STOP arrives after the last frame and the reader answers FINISH, unless  *)
(* the connection is closed under it.                                       *)
ReadStop ==
    /\ tapPhase = "reading" /\ taken = Len(stream)
    /\ finished' = TRUE
    /\ EndLoop("complete", "", events)
    /\ UNCHANGED <<stream, taken, tapCtx, events>>

\* mutant: an end of file is taken for the end of the stream
EOFCompletes ==
    /\ tapPhase = "reading"
    /\ EndLoop("complete", "", events)
    /\ UNCHANGED <<stream, taken, tapCtx, finished, events>>

(* The producer goes away without STOP. *)
ReadEOF ==
    /\ tapPhase = "reading"
    /\ EndLoop("protocol_error", "unexpected_eof", events)
    /\ UNCHANGED <<stream, taken, tapCtx, finished, events>>

ReadFails(err) ==
    /\ tapPhase = "reading"
    /\ LET s == StatusOf(err, FALSE) IN EndLoop(s[1], s[2], events)
    /\ UNCHANGED <<stream, taken, tapCtx, finished, events>>

TapNext ==
    \/ Expire \/ Handshake \/ ReadData \/ ReadStop \/ ReadEOF
    \/ \E err \in {"decode", "net_timeout", "reset"} : ReadFails(err)

TapSpec == TapInit /\ [][TapNext]_tapVars

-----------------------------------------------------------------------------
(* A collection that calls itself complete holds every frame the producer   *)
(* sent, in order, ended with STOP and FINISH and stayed within its limits: *)
(* a lost connection, a deadline or a rejected frame always shows           *)
(* (Collect:64-105).                                                        *)
CompleteIsWhole ==
    tapResult.status = "complete" =>
        /\ finished /\ events = stream
        /\ Len(stream) <= MaxEvents /\ TotalBytes(stream) <= MaxTotalFrameBytes
        /\ Cardinality({e \in tapResult.exchanges : e.status = "no_response"})
               <= MaxOutstandingQuery

(* All the ways to give every response a query of its own. *)
Assignments(evs) ==
    {a \in [OfKind(evs, "response") -> OfKind(evs, "query")] :
        /\ \A r \in DOMAIN a : Compatible(evs[a[r]], evs[r])
        /\ \A r, s \in DOMAIN a : r # s => a[r] # a[s]}

(* Pairing runs once over the responses and never reconsiders, yet what it  *)
(* calls exact is the only possible assignment of the responses to the      *)
(* queries, and in any case every event is in exactly one exchange and no   *)
(* matched response is older than its query (pairing.go:21-98).             *)
ExactPairingIsForced ==
    tapPhase = "ended" =>
        LET x == tapResult.exchanges
        IN  /\ tapResult.status # "" /\ x # {} =>
                 /\ \A i \in OfKind(events, "query") :
                       Cardinality({e \in x : e.query = i}) = 1
                 /\ \A i \in OfKind(events, "response") :
                       Cardinality({e \in x : e.response = i}) = 1
                 /\ \A e \in Matched(x) : events[e.query].asked <= events[e.response].answered
            /\ (tapResult.integrity = "exact" /\ OfKind(events, "response") # {}) =>
                 Assignments(events) =
                    {[r \in OfKind(events, "response") |->
                        (CHOOSE e \in Matched(x) : e.response = r).query]}
=============================================================================
