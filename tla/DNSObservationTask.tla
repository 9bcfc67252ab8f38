-------------------------- MODULE DNSObservationTask --------------------------
(***************************************************************************)
(* The dns_propagation task of the agent (tasks_dns_observation.go): it    *)
(* decodes and prepares its operations, feeds them to a pool of workers    *)
(* that share one process-wide gate with every other task, runs for each   *)
(* an exchange and at most one retry, and composes one batch.  A task may  *)
(* be cancelled or reach its deadline at any moment.                       *)
(***************************************************************************)
EXTENDS DNSWireExchange

CONSTANTS
    Requests,     \* the sets of concurrent tasks to explore: each a sequence of
                  \* requests [mode, kind, endpoints, parallel, maxAttempts, few]
    FewReplies,   \* the replies to a request that is `few`
    GateLimit     \* capacity of processDNSOperationGate

ASSUME GateLimitAssumption == GateLimit \in Nat \ {0}
(* NormalizeRequest and NormalizeLimits: a request has an operation and a   *)
(* limit of attempts within the bound, and no more workers are started than *)
(* there are operations.                                                    *)
ASSUME RequestsAssumption ==
    \A r \in Requests :
        /\ r \in Seq([mode : {"recursive", "iterative"}, kind : {"system", "catalog"},
                      endpoints : Seq(Protocols), parallel : Nat,
                      maxAttempts : 1 .. AttemptBound, few : BOOLEAN])
        /\ \A t \in DOMAIN r : r[t].parallel \in 1 .. Len(r[t].endpoints)

VARIABLES
    req,          \* the requests of this behaviour, one per task
    ctx,          \* task -> "live", "cancelled" or "timeout"
    phase,        \* task -> "decoded", "running" or "reported"
    jobs,         \* task -> operations left in the jobs channel
    worker,       \* task -> worker -> the operation it holds, 0 when idle
    op,           \* task -> operation -> its execution (see Idle)
    completed,    \* task -> operations in the completed channel
    observations, \* task -> operations the collector has placed in the batch
    firstErr,     \* task -> an operation of it failed
    report        \* task -> what the task result says ("" before)

vars == <<req, ctx, phase, jobs, worker, op, completed, observations, firstErr, report>>

Tasks == DOMAIN req
Ops(t) == DOMAIN req[t].endpoints
Endpoint(t, i) == req[t].endpoints[i]
Workers(t) == 1 .. req[t].parallel

NoExchange == Exchange(<<>>, "")
(* stage: queued, attempt, fallback, wait, done; kind: which exchange is    *)
(* running; held: the exchange before the retry; now: the exchange so far;  *)
(* cause: why the operation failed inside the agent ("" if it did not).     *)
Idle == [stage |-> "queued", kind |-> "first", held |-> NoExchange, now |-> NoExchange,
         gated |-> FALSE, cause |-> "", obs |-> <<>>]

InFlight == UNION {{<<t, i>> : i \in {j \in Ops(t) : op[t][j].gated}} : t \in Tasks}

Init ==
    /\ req \in Requests
    /\ ctx = [t \in Tasks |-> "live"]
    /\ phase = [t \in Tasks |-> "decoded"]
    /\ jobs = [t \in Tasks |-> <<>>]
    /\ worker = [t \in Tasks |-> [w \in Workers(t) |-> 0]]
    /\ op = [t \in Tasks |-> [i \in Ops(t) |-> Idle]]
    /\ completed = [t \in Tasks |-> {}]
    /\ observations = [t \in Tasks |-> {}]
    /\ firstErr = [t \in Tasks |-> FALSE]
    /\ report = [t \in Tasks |-> ""]

-----------------------------------------------------------------------------
(* decodeDNSObservationRequest and prepareDNSOperations: "" when the task   *)
(* may run, else the error code of its result.                              *)
RefusalOf(r, systemDNS) ==
    IF (\E i \in DOMAIN r.endpoints : r.endpoints[i] = "udp") /\ r.maxAttempts < 2
    THEN "UDP_FALLBACK_ATTEMPT_REQUIRED"
    ELSE IF r.mode = "iterative" THEN "CAPABILITY_UNAVAILABLE"
    ELSE IF r.kind = "system" /\ ~systemDNS THEN "SYSTEM_DNS_UNAVAILABLE"
    ELSE ""

(* systemDNS: whether a trusted route was planned for every system          *)
(* operation (planDNSSystemEndpointsFromDiscovery).                         *)
Prepare(t, systemDNS) ==
    LET refusal == RefusalOf(req[t], systemDNS)
    IN  /\ phase[t] = "decoded"
        /\ IF refusal = ""
           THEN /\ phase' = [phase EXCEPT ![t] = "running"]
                /\ jobs' = [jobs EXCEPT ![t] = [i \in Ops(t) |-> i]]
                /\ UNCHANGED report
           ELSE /\ phase' = [phase EXCEPT ![t] = "reported"]
                /\ report' = [report EXCEPT ![t] = refusal]
                /\ UNCHANGED jobs
        /\ UNCHANGED <<req, ctx, worker, op, completed, observations, firstErr>>

(* The environment: the control plane cancels, or the deadline passes. *)
Interrupt(t) ==
    /\ phase[t] # "reported" /\ ctx[t] = "live"
    /\ \E why \in {"cancelled", "timeout"} : ctx' = [ctx EXCEPT ![t] = why]
    /\ UNCHANGED <<req, phase, jobs, worker, op, completed, observations, firstErr, report>>

-----------------------------------------------------------------------------
(* The worker loop. *)

Take(t, w) ==
    /\ phase[t] = "running" /\ worker[t][w] = 0 /\ jobs[t] # <<>>
    /\ worker' = [worker EXCEPT ![t][w] = Head(jobs[t])]
    /\ jobs' = [jobs EXCEPT ![t] = Tail(@)]
    /\ UNCHANGED <<req, ctx, phase, op, completed, observations, firstErr, report>>

(* gate.acquire and, with the token, the start of the first exchange. *)
Acquire(t, w) ==
    LET i == worker[t][w]
    IN  /\ i # 0 /\ op[t][i].stage = "queued" /\ ctx[t] = "live"
        /\ Cardinality(InFlight) < GateLimit
        /\ op' = [op EXCEPT ![t][i].stage = "attempt", ![t][i].gated = TRUE]
        /\ UNCHANGED <<req, ctx, phase, jobs, worker, completed, observations, firstErr, report>>

\* mutant: the token of the gate is not released
KeepsToken(t, w, x) ==
    /\ op' = [op EXCEPT ![t][worker[t][w]] = [x EXCEPT !.stage = "done"]]
    /\ completed' = [completed EXCEPT ![t] = @ \cup {worker[t][w]}]
    /\ worker' = [worker EXCEPT ![t][w] = 0]
    /\ UNCHANGED <<req, ctx, phase, jobs, observations, firstErr, report>>

(* The operation of worker w ends with the execution x: the token goes back *)
(* and the observation goes to the completed channel, which has room for    *)
(* every operation.                                                         *)
Finish(t, w, x) ==
    LET i == worker[t][w]
    IN  /\ op' = [op EXCEPT ![t][i] = [x EXCEPT !.stage = "done", !.gated = FALSE]]
        /\ completed' = [completed EXCEPT ![t] = @ \cup {i}]
        /\ worker' = [worker EXCEPT ![t][w] = 0]
        /\ UNCHANGED <<req, ctx, phase, jobs, observations, firstErr, report>>

(* gate.acquire loses to ctx.Done(): the operation never starts. *)
CancelQueued(t, w) ==
    LET i == worker[t][w]
    IN  /\ i # 0 /\ op[t][i].stage = "queued" /\ ctx[t] # "live"
        /\ Finish(t, w, [op[t][i] EXCEPT !.obs = CancelledObservation(Endpoint(t, i))])

Failure(t, i, x, why) == [x EXCEPT !.obs = ExecutionFailure(Endpoint(t, i)), !.cause = why]

(* executePreparedDNSOperation from its attempt-limit check on. *)
Converted(t, i, x, e, terminal) ==
    LET r == Promoted(e.res, e.err)
        o == ObservationOf(Endpoint(t, i), r, e.err, terminal)
    IN  IF Len(e.res.attempts) > req[t].maxAttempts THEN Failure(t, i, x, "attempts")
        ELSE IF Convertible(r, e.err, terminal) /\ ObservationAccepted(o)
        THEN [x EXCEPT !.obs = o]
        ELSE Failure(t, i, x, "conversion")

(* What executePreparedDNSOperation does when an exchange has ended: the    *)
(* first may lead to a retry, which joins the one before it.                *)
RetryKind(t, i, e) ==
    IF ctx[t] # "live" \/ ~Retryable(e.err) THEN ""
    ELSE IF e.res.fallback
    THEN IF Len(e.res.attempts) < req[t].maxAttempts THEN "tcp" ELSE ""
    ELSE IF CanRetry(Endpoint(t, i), Len(e.res.attempts), req[t].maxAttempts) THEN "whole"
    ELSE ""

Joined(x, e) ==
    IF x.kind = "first" THEN e
    ELSE IF x.kind = "tcp" THEN Exchange(FallbackRetry(x.held.res, e.res, e.err), e.err)
    ELSE Exchange(WholeRetry(x.held.res, e.res), e.err)

ExchangeEnds(t, w, x, e) ==
    LET i == worker[t][w]
        retry == IF x.kind = "first" THEN RetryKind(t, i, e) ELSE ""
    IN  IF retry # ""
        THEN /\ op' = [op EXCEPT ![t][i] = [x EXCEPT !.stage = "wait", !.kind = retry, !.held = e]]
             /\ UNCHANGED <<req, ctx, phase, jobs, worker, completed, observations, firstErr, report>>
        ELSE Finish(t, w, Converted(t, i, x, Joined(x, e), ""))

(* A reply the context of the task allows: an error of a dead context is    *)
(* that context's error.                                                    *)
Possible(t, q) ==
    /\ q.err = "cancelled" => ctx[t] = "cancelled"
    /\ (ctx[t] # "live" /\ q.err # "") => q.err = ctx[t]
    /\ req[t].few => q \in FewReplies

ProtoOf(t, i) == IF op[t][i].kind = "tcp" THEN "tcp" ELSE Endpoint(t, i)

(* The first physical attempt of an exchange ends. *)
AttemptEnds(t, w, q) ==
    LET i == worker[t][w]
        x == op[t][i]
        proto == ProtoOf(t, i)
    IN  /\ i # 0 /\ x.stage = "attempt"
        /\ q \in Replies[proto] /\ Possible(t, q)
        /\ IF NeedsFallback(proto, q)
           THEN /\ op' = [op EXCEPT ![t][i].stage = "fallback",
                                    ![t][i].now = Exchange(TruncatedUDP(q), "")]
                /\ UNCHANGED <<req, ctx, phase, jobs, worker, completed, observations,
                               firstErr, report>>
           ELSE ExchangeEnds(t, w, x, SingleAttempt(proto, q))

(* The mandatory TCP attempt after a truncated UDP response ends. *)
FallbackEnds(t, w, q) ==
    LET i == worker[t][w]
        x == op[t][i]
    IN  /\ i # 0 /\ x.stage = "fallback"
        /\ q \in Replies["tcp"] /\ Possible(t, q)
        /\ ExchangeEnds(t, w, [x EXCEPT !.now = NoExchange], WithFallback(x.now.res, q))

(* Observe returns no result: the endpoint or the query cannot be built. *)
NoResult(t, w) ==
    LET i == worker[t][w]
    IN  /\ i # 0 /\ op[t][i].stage = "attempt" /\ req[t].kind = "system"
        /\ Finish(t, w, Failure(t, i, op[t][i], "no_result"))

(* waitForDNSRetry: the jitter timer fires with the context still alive ... *)
RetryStarts(t, w) ==
    LET i == worker[t][w]
    IN  /\ i # 0 /\ op[t][i].stage = "wait" /\ ctx[t] = "live"
        /\ op' = [op EXCEPT ![t][i].stage = "attempt"]
        /\ UNCHANGED <<req, ctx, phase, jobs, worker, completed, observations, firstErr, report>>

(* ... or the context ends first, which decides the operation. *)
RetryAbandoned(t, w) ==
    LET i == worker[t][w]
    IN  /\ i # 0 /\ op[t][i].stage = "wait" /\ ctx[t] # "live"
        /\ Finish(t, w, Converted(t, i, op[t][i], op[t][i].held, ctx[t]))

-----------------------------------------------------------------------------
(* The collector receives one completed operation. *)
Collect(t, i) ==
    /\ i \in completed[t]
    /\ completed' = [completed EXCEPT ![t] = @ \ {i}]
    /\ observations' = [observations EXCEPT ![t] = @ \cup {i}]
    /\ firstErr' = [firstErr EXCEPT ![t] = @ \/ op[t][i].cause # ""]
    /\ UNCHANGED <<req, ctx, phase, jobs, worker, op, report>>

Batch(t) == [i \in Ops(t) |-> op[t][i].obs]

\* mutant: the end of the context is reported before a failure
ContextFirst(t) ==
    /\ phase[t] = "running" /\ observations[t] = Ops(t)
    /\ phase' = [phase EXCEPT ![t] = "reported"]
    /\ report' = [report EXCEPT ![t] = IF ctx[t] # "live" THEN ctx[t]
                                       ELSE IF firstErr[t] THEN "failed" ELSE "completed"]
    /\ UNCHANGED <<req, ctx, jobs, worker, op, completed, observations, firstErr>>

(* composeBoundedDNSBatch and the result of executeDNSPropagationTask. *)
Report(t) ==
    /\ phase[t] = "running" /\ observations[t] = Ops(t)
    /\ phase' = [phase EXCEPT ![t] = "reported"]
    /\ report' = [report EXCEPT ![t] =
          IF ~BatchAccepted(req[t].endpoints, req[t].maxAttempts, Batch(t)) THEN "batch_rejected"
          ELSE IF firstErr[t] THEN "failed"
          ELSE IF ctx[t] = "live" THEN "completed" ELSE ctx[t]]
    /\ UNCHANGED <<req, ctx, jobs, worker, op, completed, observations, firstErr>>

WorkerStep(t, w) ==
    \/ Take(t, w) \/ Acquire(t, w) \/ CancelQueued(t, w)
    \/ \E q \in AllReplies : AttemptEnds(t, w, q) \/ FallbackEnds(t, w, q)
    \/ NoResult(t, w) \/ RetryStarts(t, w) \/ RetryAbandoned(t, w)

SystemStep ==
    \E t \in Tasks :
        \/ \E systemDNS \in BOOLEAN : Prepare(t, systemDNS)
        \/ \E w \in Workers(t) : WorkerStep(t, w)
        \/ \E i \in Ops(t) : Collect(t, i)
        \/ Report(t)

Next == SystemStep \/ \E t \in Tasks : Interrupt(t)

Spec == Init /\ [][Next]_vars

-----------------------------------------------------------------------------
(* Every exchange the engine and the retry logic can produce is an          *)
(* observation the contract accepts: no operation that ran is thrown away   *)
(* as an internal error, and none uses more attempts than its request       *)
(* allows (executePreparedDNSOperation:660-674, ToObservation).             *)
ExchangesAreObservable ==
    \A t \in Tasks : \A i \in Ops(t) : op[t][i].cause \notin {"attempts", "conversion"}

(* The DNS content of an observation was read from the attempt that the     *)
(* observation names as its owner: a retained UDP header is never shown     *)
(* under the TCP attempt that replaced it (engine.go:184-186).              *)
EvidenceHasOneOwner ==
    \A t \in Tasks : \A i \in Ops(t) :
        LET o == op[t][i].obs
        IN  op[t][i].stage = "done" => (o.from # 0 => o.from = o.owner)

(* The batch a task composes from its observations is one its own request   *)
(* contract accepts: the retry an interruption cut short still had its      *)
(* attempts in the budget (NormalizeBatchResultForRequest:358-363).         *)
BatchIsAccepted == \A t \in Tasks : report[t] # "batch_rejected"

(* A task that reports success, or its own cancellation or deadline, has    *)
(* no operation that failed inside the agent, and an operation is only      *)
(* called cancelled before its first attempt if the task was interrupted.   *)
ReportTellsFailures ==
    \A t \in Tasks :
        report[t] \in {"completed", "cancelled", "timeout"} =>
            \A i \in Ops(t) :
                /\ op[t][i].cause = ""
                /\ op[t][i].obs.status = "cancelled" => report[t] # "completed"

(* What the scheduler can run of task t; an attempt always ends, since it   *)
(* has a deadline, and so does the jitter of a retry.                       *)
Movable(t) ==
    \/ phase[t] = "decoded"
    \/ jobs[t] # <<>> /\ \E w \in Workers(t) : worker[t][w] = 0
    \/ \E w \in Workers(t) :
          /\ worker[t][w] # 0
          /\ \/ op[t][worker[t][w]].stage # "queued"
             \/ ctx[t] # "live"
             \/ Cardinality(InFlight) < GateLimit
    \/ completed[t] # {}
    \/ observations[t] = Ops(t)

(* Nobody waits for a step no one will take, however the tasks compete for  *)
(* the gate: no token is lost with its worker, and no collector waits for   *)
(* an operation nobody runs.  No step of the process repeats, so with this  *)
(* every task is reported as long as the process keeps running.             *)
NobodyIsStuck ==
    (\E t \in Tasks : phase[t] # "reported") =>
        \E t \in Tasks : phase[t] # "reported" /\ Movable(t)

(* validate.go:1210 calls a response that cannot be classified a received   *)
(* response: whatever bytes an attempt brought, the operation has a DNS     *)
(* observation, not an internal error.                                      *)
ReceivedResponsesAreObserved ==
    \A t \in Tasks : \A i \in Ops(t) : op[t][i].cause # "conversion"
=============================================================================
