------------------------ MODULE DNSObservationContract ------------------------
(***************************************************************************)
(* What the public DNS observation contract (internal/dnsobs/validate.go)  *)
(* accepts, for the part of an observation that tells which wire attempts  *)
(* ran and which of them owns the DNS evidence.  A peer address and a      *)
(* response size always travel together, so an observation names the       *)
(* attempt they were copied from (meta, 0 for none); a time is the end of  *)
(* an attempt or, as 0, the end of the operation.  RR sections, EDNS and   *)
(* aliases are in DNSResponseData.                                         *)
(***************************************************************************)
EXTENDS Naturals, Sequences, FiniteSets

AttemptBound == 3              \* dnsobs.MaxAttempts

(* TransportStatus and the one error code each failed status may carry. *)
TransportFailures == {"timeout", "refused", "cancelled", "network_error"}

StatusMatchesCode(status, code, retryable) ==
    \/ status = "timeout" /\ code = "TIMEOUT" /\ retryable
    \/ status = "refused" /\ code = "CONNECTION_REFUSED" /\ retryable
    \/ status = "cancelled" /\ code = "CANCELLED" /\ ~retryable
    \/ status = "network_error" /\ code = "NETWORK_ERROR" /\ retryable
    \/ status = "network_error" /\ code = "RESPONSE_TOO_LARGE" /\ ~retryable

(* normalizeAttemptError and the TC check that follows it. *)
AttemptAccepted(a) ==
    /\ a.status = "success" => (a.code = "" /\ a.size # "none")
    /\ a.status # "success" => StatusMatchesCode(a.status, a.code, a.retryable)
    /\ a.tc => (a.status = "success" /\ a.size = "full")

Final(o) == o.attempts[Len(o.attempts)]

UDPToTCP(o, i) == o.attempts[i].proto = "udp" /\ o.attempts[i + 1].proto = "tcp"

(* normalizeWireAttempts: which physical sequences of attempts exist. *)
TranscriptAccepted(o) ==
    LET n == Len(o.attempts)
        steps == 1 .. (n - 1)
        fallbacks == {i \in steps : UDPToTCP(o, i)}
    IN  /\ n <= AttemptBound
        /\ o.owner \in 0 .. n
        /\ n > 0 =>
            /\ \A i \in 1 .. n : AttemptAccepted(o.attempts[i])
            /\ IF o.fallback THEN o.endpoint = "udp" /\ o.proto = "tcp" /\ n >= 2
                             ELSE o.proto = o.endpoint /\ n <= 2
            /\ o.proto = Final(o).proto
            /\ \A i \in steps \ fallbacks :
                  /\ o.attempts[i].proto = o.attempts[i + 1].proto
                  /\ o.attempts[i].status # "success" /\ o.attempts[i].retryable
            /\ Cardinality(fallbacks) <= 1
            /\ \A i \in fallbacks : o.attempts[i].status = "success" /\ o.attempts[i].tc
            /\ (fallbacks # {}) = o.fallback
            /\ ~(/\ ~o.fallback /\ Final(o).proto = "udp"
                 /\ Final(o).status = "success" /\ Final(o).tc)

(* isRetainedTruncatedUDP: evidence a failed TCP fallback may keep. *)
RetainedTruncatedUDP(o) ==
    /\ o.fallback /\ o.endpoint = "udp" /\ o.proto = "tcp"
    /\ Len(o.attempts) \in 2 .. AttemptBound
    /\ o.truncated /\ o.tcFlag /\ o.qr
    /\ o.outcome \notin {"malformed", "not_observed"}

(* normalizeObservationResponse: transport status against DNS outcome. *)
ResponseAccepted(o) ==
    /\ o.status = "success" =>
          /\ o.meta # 0
          /\ o.outcome # "not_observed"
          /\ IF o.outcome = "malformed" THEN ~o.qr /\ ~o.tcFlag ELSE o.qr
    /\ (o.status # "success" /\ ~RetainedTruncatedUDP(o)) =>
          o.outcome = "not_observed" /\ ~o.qr /\ ~o.tcFlag
    /\ o.outcome = "truncated_response" =>
          RetainedTruncatedUDP(o) /\ o.attempts[o.meta].size = "full"

(* normalizeObservationError. *)
ErrorAccepted(o) ==
    IF o.code = ""
    THEN o.status = "success" /\ o.outcome \notin {"malformed", "truncated_response"}
    ELSE \/ /\ o.status = "success"
            /\ o.outcome \in {"malformed", "truncated_response"}
            /\ o.code = "MALFORMED_DNS" /\ ~o.retryable
         \/ o.status # "success" /\ StatusMatchesCode(o.status, o.code, o.retryable)
         \/ /\ o.status = "network_error" /\ Len(o.attempts) = 0
            /\ o.code = "INTERNAL_ERROR" /\ ~o.retryable

(* validRetryGapShape: the transcripts a cancelled retry can leave. *)
RetryGapShape(o) ==
    IF o.fallback
    THEN /\ Len(o.attempts) = 2
         /\ o.attempts[1].proto = "udp" /\ o.attempts[1].status = "success" /\ o.attempts[1].tc
         /\ o.attempts[2].proto = "tcp" /\ o.attempts[2].status # "success"
    ELSE /\ Len(o.attempts) = 1
         /\ o.attempts[1].proto = o.endpoint /\ o.attempts[1].status # "success"

(* RetryGapAdditionalAttempts: the slots the retry that never ran needed. *)
RetryGapAttempts(o) ==
    IF Len(o.attempts) = 0 \/ ~RetryGapShape(o) \/ o.status = Final(o).status THEN 0
    ELSE IF o.fallback \/ Final(o).proto # "udp" THEN 1
    ELSE 2

(* The one attempt that may own the evidence: the last if it was answered, *)
(* else the only truncated UDP answer before it.                           *)
RightfulOwners(o) ==
    LET n == Len(o.attempts)
    IN  IF Final(o).status = "success" THEN {n}
        ELSE {i \in 1 .. (n - 1) :
                 /\ o.attempts[i].proto = "udp"
                 /\ o.attempts[i].status = "success" /\ o.attempts[i].tc}

(* validateObservationAttemptContract. *)
AttemptContractAccepted(o) ==
    LET last == Final(o)
    IN  /\ last.status = "success" => o.status = "success"
        /\ last.status \notin {"success", o.status} =>
              /\ last.retryable /\ o.status \in {"cancelled", "timeout"}
              /\ RetryGapShape(o)
        /\ last.status = o.status /\ last.status # "success" =>
              o.code = last.code /\ o.retryable = last.retryable
        /\ o.owner = 0 =>
              /\ o.outcome = "not_observed" /\ ~o.truncated
              /\ o.meta = Len(o.attempts) /\ o.observedAt = 0
        /\ o.owner # 0 =>
              /\ o.outcome # "not_observed"
              /\ o.attempts[o.owner].status = "success"
              /\ o.meta = o.owner /\ o.observedAt = o.owner
              /\ o.truncated = o.attempts[o.owner].tc
              /\ RightfulOwners(o) = {o.owner}

(* validateZeroAttemptObservation and validateUnstartedCancellation. *)
ZeroAttemptAccepted(o) ==
    /\ o.owner = 0 /\ o.proto = o.endpoint /\ ~o.fallback
    /\ o.meta = 0 /\ ~o.truncated /\ ~o.qr /\ o.observedAt = 0
    /\ o.outcome = "not_observed"
    /\ \/ o.status = "network_error" /\ o.code = "INTERNAL_ERROR" /\ ~o.retryable
       \/ o.status = "cancelled" /\ o.code = "CANCELLED" /\ ~o.retryable

(* NormalizeObservation, in the order of its checks. *)
ObservationAccepted(o) ==
    /\ TranscriptAccepted(o)
    /\ ResponseAccepted(o)
    /\ o.truncated = o.tcFlag
    /\ ErrorAccepted(o)
    /\ Len(o.attempts) > 0 => AttemptContractAccepted(o)
    /\ Len(o.attempts) = 0 => ZeroAttemptAccepted(o)

(* NormalizeBatchResultForRequest: one accepted observation for each        *)
(* operation of the request, within the attempt budget of its limits.       *)
BatchAccepted(endpoints, maxAttempts, observations) ==
    /\ DOMAIN observations = DOMAIN endpoints
    /\ \A i \in DOMAIN endpoints :
          /\ ObservationAccepted(observations[i])
          /\ observations[i].endpoint = endpoints[i]
          /\ Len(observations[i].attempts) + RetryGapAttempts(observations[i]) <= maxAttempts
=============================================================================
