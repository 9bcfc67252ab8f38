----------------------- MODULE TaskConcurrencyLimiter -----------------------
(***************************************************************************)
(* cmd/nodeping-agent/task_concurrency_limiter.go: the resizable semaphore *)
(* that every delivered task passes before it may run.  Its methods are    *)
(* the critical sections under l.mu; AgentRuntime interleaves them.        *)
(*                                                                         *)
(* Acquire blocks in a select on the `changed` channel it read under the   *)
(* lock.  notifyLocked closes that channel and installs a new one, so what *)
(* matters of a channel is whether it is still the current one: `parked`   *)
(* holds the goroutines whose captured channel is still open.              *)
(***************************************************************************)
EXTENDS Naturals, FiniteSets

CONSTANTS
    Goroutines,          \* the goroutines that deliver and run tasks
    DefaultConcurrency,  \* defaultAgentTaskConcurrency
    MaxConcurrency,      \* maxAgentTaskConcurrency
    ConfiguredLimit      \* cfg.Concurrency

ASSUME LimiterAssumption ==
    /\ IsFiniteSet(Goroutines)
    /\ MaxConcurrency \in Nat \ {0}
    /\ DefaultConcurrency \in 1..MaxConcurrency
    /\ ConfiguredLimit \in Nat

VARIABLES
    limit,   \* l.limit
    slots,   \* l.running: how many slots are handed out
    parked   \* goroutines blocked in Acquire on the current l.changed

limiterVars == <<limit, slots, parked>>

\* Mutant: the upper bound is forgotten.
NormalizeLimitUnbounded(n) == IF n < 1 THEN DefaultConcurrency ELSE n

\* normalizeTaskConcurrencyLimit: too small becomes the default, too big is cut.
NormalizeLimit(n) ==
    IF n < 1 THEN DefaultConcurrency
             ELSE IF n > MaxConcurrency THEN MaxConcurrency ELSE n

LimiterInit ==
    /\ limit = NormalizeLimit(ConfiguredLimit)
    /\ slots = 0
    /\ parked = {}

\* notifyLocked: every captured channel is closed.
Notify == parked' = {}

\* Mutant: SetLimit raises the limit and wakes nobody.
SetLimitSilently(n) ==
    /\ limit' = IF n > 0 THEN NormalizeLimit(n) ELSE limit
    /\ UNCHANGED <<slots, parked>>

\* SetLimit ignores what is not positive and what changes nothing.
SetLimit(n) ==
    \/ /\ n > 0
       /\ limit # NormalizeLimit(n)
       /\ limit' = NormalizeLimit(n)
       /\ Notify
       /\ UNCHANGED slots
    \/ /\ n = 0 \/ limit = NormalizeLimit(n)
       /\ UNCHANGED limiterVars

\* Mutant: an off-by-one in Acquire's comparison.
TakeSlotOffByOne ==
    /\ slots <= limit
    /\ slots' = slots + 1
    /\ UNCHANGED <<limit, parked>>

\* One pass of Acquire's loop that finds room.
TakeSlot ==
    /\ slots < limit
    /\ slots' = slots + 1
    /\ UNCHANGED <<limit, parked>>

\* One pass of Acquire's loop that finds none: capture `changed`, then select.
Park(g) ==
    /\ slots >= limit
    /\ parked' = parked \cup {g}
    /\ UNCHANGED <<limit, slots>>

\* The select leaves by the channel, which only a closed channel lets it do.
Unpark(g) ==
    /\ g \notin parked
    /\ UNCHANGED limiterVars

\* The select leaves by ctx.Done: Acquire returns false and holds nothing.
Abandon(g) ==
    /\ parked' = parked \ {g}
    /\ UNCHANGED <<limit, slots>>

\* Mutant: Release forgets notifyLocked.
ReleaseSilently ==
    /\ slots' = IF slots > 0 THEN slots - 1 ELSE slots
    /\ UNCHANGED <<limit, parked>>

Release ==
    /\ slots' = IF slots > 0 THEN slots - 1 ELSE slots
    /\ Notify
    /\ UNCHANGED limit

LimiterTypeOK ==
    /\ limit \in 1..MaxConcurrency
    /\ slots \in Nat
    /\ parked \subseteq Goroutines
=============================================================================
