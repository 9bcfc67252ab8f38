---------------------------- MODULE DNSWireExchange ----------------------------
(***************************************************************************)
(* One DNS exchange of the wire engine (internal/dnsengine/engine.go and   *)
(* the prefix handling of parse.go), the two ways the agent joins a retry  *)
(* to it (tasks_dns_observation.go), and its conversion to a public        *)
(* observation (observation.go).  An exchange is the sequence of its       *)
(* physical attempts and the evidence the engine kept; the content of a    *)
(* response (flags, rcode, sections) is the attempt it was read from.      *)
(***************************************************************************)
EXTENDS DNSObservationContract

CONSTANTS
    Protocols,    \* the protocols of the endpoints, "udp" and "tcp" included
    RareReplies   \* the replies below that only a corner of a transport can
                  \* produce: "empty" (no byte at all) and "late" (a short
                  \* frame as the deadline passes)

ASSUME ProtocolsAssumption == {"udp", "tcp"} \subseteq Protocols

Reply(err, size, tc, prefix, body) ==
    [err |-> err, size |-> size, tc |-> tc, prefix |-> prefix, body |-> body]

(* transport.go: an attempt ends without bytes; with a frame shorter than a *)
(* header, which the framing layer refuses; with a DoQ frame after which    *)
(* the stream does not end as it should; with a response too large for the  *)
(* limit of the engine, which only HTTP can carry; or with a message.       *)
Unanswered == {Reply(e, "none", FALSE, FALSE, "none") :
                  e \in {"timeout", "cancelled", "refused", "network", "fatal"}}
BadFrames  == {Reply("framing", "short", tc, FALSE, "none") : tc \in BOOLEAN}
Unfinished == [err : {"framing", "timeout", "cancelled", "network", "fatal"},
               size : {"full"}, tc : BOOLEAN, prefix : {FALSE}, body : {"none"}]
TooLarge   == {Reply("too_large", "full", tc, FALSE, "none") : tc \in BOOLEAN}
Short      == {Reply("", "short", tc, FALSE, "invalid") : tc \in BOOLEAN}
Empty(e)   == {Reply(e, "none", FALSE, FALSE, "invalid")}
Late       == {Reply("timeout", "short", tc, FALSE, "none") : tc \in BOOLEAN}
(* A full message parses and matches the query, or matches but holds a      *)
(* record that cannot be composed, or neither.  Only a truncated message    *)
(* has its prefix looked at, and one that matches has a matching prefix.    *)
Messages   == [err : {""}, size : {"full"}, tc : BOOLEAN, prefix : BOOLEAN,
               body : {"valid", "uncomposable", "invalid"}]
Full       == {m \in Messages : /\ ~m.tc => ~m.prefix
                                /\ (m.tc /\ m.body # "invalid") => m.prefix}

Replies ==
    [proto \in Protocols |->
        LET stream == proto \notin {"udp", "doh"}
        IN  Unanswered \cup Full
            \cup (IF stream THEN BadFrames ELSE Short)
            \cup (IF proto = "doq" THEN Unfinished ELSE {})
            \cup (IF proto = "doh" THEN TooLarge ELSE {})
            \cup (IF "empty" \in RareReplies
                  THEN Empty(IF stream THEN "framing" ELSE "") ELSE {})
            \cup (IF "late" \in RareReplies /\ stream THEN Late ELSE {})]
AllReplies == UNION {Replies[p] : p \in Protocols}

Malformed(err) == err \in {"malformed", "framing"}

-----------------------------------------------------------------------------
(* The engine: exchangePrepared, one operator for each attempt it makes.    *)

AttemptOf(proto, q) == [proto |-> proto, err |-> q.err, size |-> q.size, tc |-> q.tc]

(* The Result before any evidence is composed; owner is the attempt that    *)
(* PeerIP and ResponseSize were copied from.                                *)
Bare(proto, q) ==
    [attempts |-> <<AttemptOf(proto, q)>>, fallback |-> FALSE, owner |-> 1,
     parsed |-> FALSE, header |-> FALSE, outcome |-> "", truncated |-> FALSE,
     tcFlag |-> FALSE, from |-> 0, pending |-> 0]

(* populateResult of a message, when its records can be converted. *)
Composed(r, q, i) ==
    [r EXCEPT !.parsed = TRUE, !.header = FALSE, !.outcome = "parsed",
              !.truncated = q.tc, !.tcFlag = q.tc, !.from = i]

(* populateTruncatedResponsePrefix. *)
HeaderOnly(r, i) ==
    [r EXCEPT !.parsed = FALSE, !.header = TRUE, !.outcome = "truncated_response",
              !.truncated = TRUE, !.tcFlag = TRUE, !.from = i, !.pending = 0]

StaleHeader(r) == r   \* mutant: the header of the UDP attempt stays

(* clearMalformedFallbackEvidence. *)
Cleared(r) ==
    [r EXCEPT !.parsed = FALSE, !.header = FALSE, !.outcome = "malformed",
              !.truncated = FALSE, !.tcFlag = FALSE, !.from = 0, !.pending = 0]

Exchange(r, err) == [res |-> r, err |-> err]

(* A truncated UDP response whose prefix belongs to the query must be       *)
(* repeated over TCP.                                                       *)
NeedsFallback(proto, q) == proto = "udp" /\ q.err = "" /\ q.tc /\ q.prefix

TruncatedUDP(q) ==
    IF q.body = "valid" THEN Composed(Bare("udp", q), q, 1) ELSE HeaderOnly(Bare("udp", q), 1)

(* The exchange that ends with its first attempt. *)
SingleAttempt(proto, q) ==
    LET r == Bare(proto, q)
    IN  IF q.err # "" THEN Exchange(r, q.err)
        ELSE IF q.body = "valid" THEN Exchange(Composed(r, q, 1), "")
        ELSE Exchange([r EXCEPT !.outcome = "malformed",
                                !.pending = IF proto = "tcp" /\ q.tc /\ q.prefix THEN 1 ELSE 0],
                      "malformed")

(* The exchange that ends with the TCP attempt after a truncated UDP one. *)
WithFallback(udp, q) ==
    LET r == [udp EXCEPT !.attempts = Append(@, AttemptOf("tcp", q)), !.fallback = TRUE]
        tcp == [r EXCEPT !.owner = 2]
    IN  IF q.err = "framing" THEN Exchange(Cleared(tcp), "framing")
        ELSE IF q.err # "" THEN Exchange(r, q.err)
        ELSE IF q.body = "valid" THEN Exchange(Composed(tcp, q, 2), "")
        ELSE Exchange(IF q.tc /\ q.prefix THEN HeaderOnly(tcp, 2) ELSE Cleared(tcp), "malformed")

-----------------------------------------------------------------------------
(* Joining a retry to the exchange before it.                               *)

(* The evidence of r, read n attempts later in the joined transcript. *)
Shifted(r, n) ==
    LET later(i) == IF i = 0 THEN 0 ELSE i + n
    IN  [r EXCEPT !.owner = later(@), !.from = later(@), !.pending = later(@)]

(* mergeWholeDNSRetry. *)
WholeRetry(first, retry) ==
    [Shifted(retry, Len(first.attempts)) EXCEPT !.attempts = first.attempts \o retry.attempts]

\* mutant: a malformed answer to the retry keeps the UDP evidence
KeepsOnMalformed(first, retry, err) ==
    IF err = "" THEN [WholeRetry(first, retry) EXCEPT !.fallback = TRUE]
    ELSE [first EXCEPT !.attempts = @ \o retry.attempts]

(* mergeTCPFallbackRetry: the retry replaces the UDP evidence when it was   *)
(* answered, even by a message that is malformed.                           *)
FallbackRetry(first, retry, err) ==
    IF err = "" \/ Malformed(err)
    THEN [WholeRetry(first, retry) EXCEPT !.fallback = TRUE]
    ELSE [first EXCEPT !.attempts = @ \o retry.attempts]

(* retryableDNSExchangeError. *)
Retryable(err) == err \in {"timeout", "refused", "network"}

\* mutant: no slot is kept for the TCP fallback
AnySlot(endpoint, used, maxAttempts) == used + 1 <= maxAttempts

(* canRetryDNSExchange: a UDP retry keeps a slot for its TCP fallback. *)
CanRetry(endpoint, used, maxAttempts) == used + (IF endpoint = "udp" THEN 2 ELSE 1) <= maxAttempts

-----------------------------------------------------------------------------
(* ToObservation.                                                           *)

LastAttempt(r) == r.attempts[Len(r.attempts)]

(* validFallbackAttemptSequence. *)
Clean(a)  == a.tc /\ a.err = ""
Failed(a) == ~a.tc /\ a.err # ""
FallbackSequence(s) ==
    \/ Len(s) = 2 /\ s[1].proto = "udp" /\ Clean(s[1]) /\ s[2].proto = "tcp"
    \/ /\ Len(s) = 3 /\ s[1].proto = "udp" /\ s[3].proto = "tcp"
       /\ \/ s[2].proto = "udp" /\ Failed(s[1]) /\ Clean(s[2])
          \/ s[2].proto = "tcp" /\ Clean(s[1]) /\ Failed(s[2])

(* promotePendingTCPHeader. *)
Promoted(r, err) ==
    LET n == Len(r.attempts)
    IN  IF /\ r.pending = n /\ r.fallback /\ Malformed(err)
           /\ LastAttempt(r).proto = "tcp" /\ Clean(LastAttempt(r)) /\ r.owner = n
        THEN HeaderOnly(r, n) ELSE r

(* publicAttemptTransport. *)
PublicStatus(a) ==
    IF a.err = "" \/ (Malformed(a.err) /\ a.size # "none") THEN "success"
    ELSE IF a.err \in {"cancelled", "timeout", "refused"} THEN a.err ELSE "network_error"

CodeOf(status, err) ==
    IF status = "timeout" THEN "TIMEOUT" ELSE IF status = "cancelled" THEN "CANCELLED"
    ELSE IF status = "refused" THEN "CONNECTION_REFUSED"
    ELSE IF err = "too_large" THEN "RESPONSE_TOO_LARGE" ELSE "NETWORK_ERROR"

RetryableCode(code) == code \in {"TIMEOUT", "CONNECTION_REFUSED", "NETWORK_ERROR"}

(* classifyExchangeError. *)
ClassOf(err) ==
    IF err = "" \/ Malformed(err) THEN "success"
    ELSE IF err \in {"cancelled", "timeout", "refused"} THEN err ELSE "network_error"

RetainedParsed(r, err) ==
    err # "" /\ ~Malformed(err) /\ r.parsed /\ r.fallback /\ r.truncated /\ r.tcFlag
RetainedHeader(r, err) ==
    /\ err # "" /\ r.header /\ r.outcome = "truncated_response"
    /\ r.fallback /\ r.truncated /\ r.tcFlag
RetainedUDP(r, err) == RetainedParsed(r, err) \/ (RetainedHeader(r, err) /\ ~Malformed(err))
RetainedTCP(r, err) == RetainedHeader(r, err) /\ Malformed(err)

(* The attempt the evidence is attributed to, 0 for none. *)
EvidenceAttempt(r, err) ==
    LET n == Len(r.attempts)
        udp == {i \in 1 .. (n - 1) : r.attempts[i].proto = "udp" /\ Clean(r.attempts[i])}
    IN  IF err = "" \/ RetainedTCP(r, err) THEN n
        ELSE IF RetainedUDP(r, err) THEN CHOOSE i \in udp \cup {0} : udp # {} => i \in udp
        ELSE IF Malformed(err) /\ r.attempts[r.owner].size # "none" THEN n
        ELSE 0

(* validateResponseAttemptProvenance of the attributed attempt. *)
Provenance(r, i, trustedTC) ==
    /\ r.owner = i
    /\ trustedTC => (r.attempts[i].tc = r.truncated /\ r.attempts[i].tc = r.tcFlag)

(* The checks ToObservation makes before it builds the observation. *)
Convertible(r, err, terminal) ==
    LET n == Len(r.attempts)
        last == LastAttempt(r)
        i == EvidenceAttempt(r, err)
    IN  /\ n <= AttemptBound
        /\ IF r.fallback THEN FallbackSequence(r.attempts)
           ELSE /\ n <= 2 /\ (n = 2 => r.attempts[1].err # "")
                /\ \A j \in 1 .. n : r.attempts[j].proto = r.attempts[1].proto
        /\ err # "" =>                                   \* validateTerminalAttemptError
              IF Malformed(err) THEN last.err \in {"", err}
              ELSE last.err = err /\ ~(r.fallback /\ last.tc)
        /\ terminal # "" =>                              \* validateTerminalDecisionOverride
              /\ err # "" /\ ~Malformed(err)
              /\ PublicStatus(last) # "success"
              /\ RetryableCode(CodeOf(PublicStatus(last), last.err))
        /\ err # "" /\ (r.parsed \/ r.header) => RetainedUDP(r, err) \/ RetainedTCP(r, err)
        /\ ~(r.parsed /\ r.header)
        /\ err = "" => r.parsed
        /\ err = "" =>                                   \* successfulResponseAttempt
              /\ last.err = "" /\ (r.fallback => last.proto = "tcp")
              /\ Provenance(r, i, TRUE)
        /\ RetainedUDP(r, err) =>                        \* retainedUDPResponseAttempt
              /\ last.proto = "tcp" /\ Failed(last) /\ i # 0 /\ Provenance(r, i, TRUE)
        /\ Malformed(err) /\ i # 0 =>                    \* finalMalformedResponseAttempt
              /\ r.fallback => last.proto = "tcp"
              /\ RetainedTCP(r, err) => (last.proto = "tcp" /\ Clean(last))
              /\ Provenance(r, i, RetainedTCP(r, err))

(* publicWireAttempts. *)
PublicAttempt(r, i, evidence) ==
    LET a == r.attempts[i]
        status == PublicStatus(a)
        code == IF status = "success" THEN "" ELSE CodeOf(status, a.err)
    IN  [proto |-> a.proto, status |-> status, size |-> a.size, code |-> code,
         retryable |-> RetryableCode(code),
         tc |-> /\ a.tc /\ status = "success"
                /\ \/ i < Len(r.attempts) /\ a.proto = "udp" /\ r.attempts[i + 1].proto = "tcp"
                   \/ evidence = i /\ r.truncated /\ r.tcFlag]

(* The observation itself; `from` is the attempt whose bytes its flags,     *)
(* rcode and sections were read from.                                       *)
ObservationOf(endpoint, r, err, terminal) ==
    LET n == Len(r.attempts)
        i == EvidenceAttempt(r, err)
        decided == IF terminal # "" THEN terminal ELSE err
        status == ClassOf(decided)
        evident == r.parsed \/ r.header
        code == IF decided = "" THEN "" ELSE IF Malformed(decided) THEN "MALFORMED_DNS"
                ELSE CodeOf(status, decided)
    IN  [endpoint |-> endpoint, proto |-> LastAttempt(r).proto, fallback |-> r.fallback,
         attempts |-> [j \in 1 .. n |-> PublicAttempt(r, j, i)],
         owner |-> i, meta |-> IF i = 0 THEN n ELSE r.owner, observedAt |-> i,
         status |-> status, truncated |-> r.truncated,
         outcome |-> IF evident THEN r.outcome
                     ELSE IF Malformed(err) THEN "malformed" ELSE "not_observed",
         qr |-> evident, tcFlag |-> evident /\ r.tcFlag,
         from |-> IF evident THEN r.from ELSE 0,
         code |-> code, retryable |-> RetryableCode(code)]

(* composeDNSExecutionFailure and cancelledDNSObservation: observations     *)
(* without an attempt.                                                      *)
Unattempted(endpoint, status, code) ==
    [endpoint |-> endpoint, proto |-> endpoint, fallback |-> FALSE, attempts |-> <<>>,
     owner |-> 0, meta |-> 0, observedAt |-> 0, status |-> status, truncated |-> FALSE,
     outcome |-> "not_observed", qr |-> FALSE, tcFlag |-> FALSE, from |-> 0,
     code |-> code, retryable |-> FALSE]
ExecutionFailure(endpoint) == Unattempted(endpoint, "network_error", "INTERNAL_ERROR")
CancelledObservation(endpoint) == Unattempted(endpoint, "cancelled", "CANCELLED")
=============================================================================
