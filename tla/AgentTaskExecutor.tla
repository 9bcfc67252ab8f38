-------------------------- MODULE AgentTaskExecutor --------------------------
(***************************************************************************)
(* cmd/nodeping-agent/agent_task_executor.go: the registry that starts a   *)
(* task at most once, cancels it, and remembers for a while the ids that   *)
(* finished or were cancelled before they arrived ("tombstones").  Each    *)
(* operator is one critical section under e.mu.                            *)
(*                                                                         *)
(* A tombstone map is a function from ids to ages.  Age 0 is "just now";   *)
(* ages stop at TombstoneTTL, where the entry counts as expired but stays  *)
(* until some method sweeps the maps, as in the code.                      *)
(***************************************************************************)
EXTENDS Naturals, FiniteSets

CONSTANTS
    Tasks,          \* task ids the control plane uses
    NoID,           \* the empty id, which is never registered
    TombstoneTTL,   \* cancelledTaskTTL, in ticks
    MaxTombstones   \* maxCancelledTasks

ASSUME ExecutorAssumption ==
    /\ NoID \notin Tasks
    /\ TombstoneTTL \in Nat \ {0}
    /\ MaxTombstones \in Nat \ {0}

VARIABLES
    accepting,  \* e.accepting
    running,    \* keys of e.running
    cancelled,  \* e.cancelled: id -> age
    completed   \* e.completed: id -> age

executorVars == <<accepting, running, cancelled, completed>>

NoTombstones == [t \in {} |-> 0]

Tombstones == UNION {[S -> 0..TombstoneTTL] : S \in SUBSET Tasks}

ExecutorInit ==
    /\ accepting = TRUE
    /\ running = {}
    /\ cancelled = NoTombstones
    /\ completed = NoTombstones

\* cleanupTaskTombstonesLocked, for one of the two maps.
Swept(m) == [t \in {u \in DOMAIN m : m[u] < TombstoneTTL} |-> m[t]]

Without(m, t) == [u \in DOMAIN m \ {t} |-> m[u]]

\* m[id] = time.Now()
Stamped(m, t) == [u \in DOMAIN m \cup {t} |-> IF u = t THEN 0 ELSE m[u]]

\* Mutant: the comparison is turned round, the youngest entry goes.
TrimmedYoungest(m, t) ==
    IF Cardinality(DOMAIN m) <= MaxTombstones
    THEN {m}
    ELSE {Without(m, u) : u \in {v \in DOMAIN m : \A w \in DOMAIN m : m[v] <= m[w]}}

(* trimTaskTombstonesLocked after t was stamped: the maps m may become.  An *)
(* insertion exceeds the bound by at most one, so the loop drops at most    *)
(* one entry: an oldest one, and never t, which is the youngest.  Entries   *)
(* of one tick have no order here, so any of the oldest may go.             *)
Trimmed(m, t) ==
    IF Cardinality(DOMAIN m) <= MaxTombstones
    THEN {m}
    ELSE LET others == DOMAIN m \ {t}
             oldest == {u \in others : \A v \in others : m[v] <= m[u]}
         IN  {Without(m, u) : u \in oldest}

\* Mutant: Start does not check e.accepting.
MayStartAlways(t) ==
    t # NoID =>
        /\ t \notin running
        /\ t \notin DOMAIN Swept(cancelled)
        /\ t \notin DOMAIN Swept(completed)

\* Mutant: Start looks at the tombstones only.
MayStartTwice(t) ==
    /\ accepting
    /\ t # NoID =>
        /\ t \notin DOMAIN Swept(cancelled)
        /\ t \notin DOMAIN Swept(completed)

\* The answer Start computes for id t.
MayStart(t) ==
    /\ accepting
    /\ t # NoID =>
        /\ t \notin running
        /\ t \notin DOMAIN Swept(cancelled)
        /\ t \notin DOMAIN Swept(completed)

\* Every method that reads the tombstones sweeps both maps first.
Sweep ==
    /\ cancelled' = Swept(cancelled)
    /\ completed' = Swept(completed)

\* Start returns true: the id is registered, the goroutine counted.
Register(t) ==
    /\ MayStart(t)
    /\ running' = running \cup ({t} \ {NoID})
    /\ Sweep
    /\ UNCHANGED accepting

\* Start returns false.
Refuse(t) ==
    /\ ~MayStart(t)
    /\ Sweep
    /\ UNCHANGED <<accepting, running>>

\* The deferred epilogue of a started task.
Unregister(t) ==
    \/ /\ t # NoID
       /\ running' = running \ {t}
       /\ cancelled' = Swept(cancelled)
       /\ completed' \in Trimmed(Swept(Stamped(completed, t)), t)
       /\ UNCHANGED accepting
    \/ /\ t = NoID
       /\ UNCHANGED executorVars

\* CancelTask of a running id: its context is cancelled, nothing is recorded.
CancelRunning(t) ==
    /\ t \in running
    /\ Sweep
    /\ UNCHANGED <<accepting, running>>

\* CancelTask of an id already cancelled.
CancelAgain(t) ==
    /\ t \notin running
    /\ t \in DOMAIN Swept(cancelled)
    /\ Sweep
    /\ UNCHANGED <<accepting, running>>

(* CancelTask of any other id: recorded, and the control plane is told that *)
(* the task was "cancelled before execution".  `completed` is not looked at.*)
CancelUnknown(t) ==
    /\ t \notin running
    /\ t \notin DOMAIN Swept(cancelled)
    /\ cancelled' \in Trimmed(Stamped(Swept(cancelled), t), t)
    /\ completed' = Swept(completed)
    /\ UNCHANGED <<accepting, running>>

StopAccepting ==
    /\ accepting' = FALSE
    /\ UNCHANGED <<running, cancelled, completed>>

\* One tick of the clock that time.Now reads.
Older(m) == [t \in DOMAIN m |-> IF m[t] < TombstoneTTL THEN m[t] + 1 ELSE m[t]]

AgeTombstones ==
    /\ cancelled' = Older(cancelled)
    /\ completed' = Older(completed)
    /\ UNCHANGED <<accepting, running>>

ExecutorTypeOK ==
    /\ accepting \in BOOLEAN
    /\ running \subseteq Tasks
    /\ cancelled \in Tombstones
    /\ completed \in Tombstones
=============================================================================
