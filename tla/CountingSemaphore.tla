-------------------------- MODULE CountingSemaphore --------------------------
(***************************************************************************)
(* What the agent promises about task concurrency, without goroutines,     *)
(* mutexes or channels: a semaphore whose capacity the control plane may   *)
(* change at any moment.  A holder enters only below the capacity then in  *)
(* force; lowering the capacity evicts nobody.                             *)
(***************************************************************************)
EXTENDS Naturals, FiniteSets

CONSTANTS
    Goroutines,     \* who may hold a slot
    MaxConcurrency  \* no capacity ever exceeds this

VARIABLES
    limit,    \* the capacity in force
    holders   \* the goroutines that hold a slot

vars == <<limit, holders>>

Init ==
    /\ limit \in 1..MaxConcurrency
    /\ holders = {}

\* A goroutine takes a slot, below the capacity in force.
Enter(g) ==
    /\ g \notin holders
    /\ Cardinality(holders) < limit
    /\ holders' = holders \cup {g}
    /\ UNCHANGED limit

\* A holder gives its slot back.
Leave(g) ==
    /\ g \in holders
    /\ holders' = holders \ {g}
    /\ UNCHANGED limit

\* The capacity changes; those who are inside stay inside.
Resize ==
    /\ limit' \in 1..MaxConcurrency
    /\ UNCHANGED holders

Next ==
    \/ \E g \in Goroutines : Enter(g) \/ Leave(g)
    \/ Resize

Spec == Init /\ [][Next]_vars
=============================================================================
