-------------------------- MODULE AgentRuntimeProofs --------------------------
(***************************************************************************)
(* What holds of the agent process for every number of goroutines, every   *)
(* set of tasks, every limit and every tombstone bound.                    *)
(***************************************************************************)
EXTENDS AgentRuntime, FiniteSetTheorems, TLAPS

-----------------------------------------------------------------------------
(* Lemmas about the operators of the limiter and the executor.             *)

\* Whatever limit the server or the configuration asks for, 1..MaxConcurrency
\* is what the limiter makes of it.
LEMMA NormalizeLimitType ==
    ASSUME NEW n \in Nat
    PROVE  NormalizeLimit(n) \in 1..MaxConcurrency
BY LimiterAssumption DEF NormalizeLimit

\* A sub-map of a tombstone map is one.
LEMMA SubmapType ==
    ASSUME NEW m \in Tombstones, NEW S \in SUBSET DOMAIN m
    PROVE  [t \in S |-> m[t]] \in Tombstones
BY DEF Tombstones

LEMMA SweptType ==
    ASSUME NEW m \in Tombstones
    PROVE  Swept(m) \in Tombstones
BY SubmapType DEF Swept

LEMMA StampedType ==
    ASSUME NEW m \in Tombstones, NEW t \in Tasks
    PROVE  Stamped(m, t) \in Tombstones
<1>1. PICK S \in SUBSET Tasks : m \in [S -> 0..TombstoneTTL]
  BY DEF Tombstones
<1>2. Stamped(m, t) \in [S \cup {t} -> 0..TombstoneTTL]
  BY <1>1, ExecutorAssumption DEF Stamped
<1> QED
  BY <1>2 DEF Tombstones

LEMMA TrimmedType ==
    ASSUME NEW m \in Tombstones, NEW t \in Tasks, NEW n \in Trimmed(m, t)
    PROVE  n \in Tombstones
<1>1. CASE n = m
  BY <1>1
<1>2. CASE \E u \in DOMAIN m : n = Without(m, u)
  BY <1>2, SubmapType DEF Without
<1> QED
  BY <1>1, <1>2 DEF Trimmed

LEMMA OlderType ==
    ASSUME NEW m \in Tombstones
    PROVE  Older(m) \in Tombstones
<1>1. PICK S \in SUBSET Tasks : m \in [S -> 0..TombstoneTTL]
  BY DEF Tombstones
<1>2. Older(m) \in [S -> 0..TombstoneTTL]
  BY <1>1, ExecutorAssumption DEF Older
<1> QED
  BY <1>2 DEF Tombstones

-----------------------------------------------------------------------------
(* Type correctness.                                                       *)

\* Every critical section of the limiter keeps its types.
LEMMA LimiterStepTypes ==
    ASSUME LimiterTypeOK, NEW g \in Goroutines, NEW n \in Nat,
           SetLimit(n) \/ TakeSlot \/ Park(g) \/ Unpark(g) \/ Abandon(g) \/ Release
    PROVE  LimiterTypeOK'
BY NormalizeLimitType, LimiterAssumption
   DEF LimiterTypeOK, SetLimit, TakeSlot, Park, Unpark, Abandon, Release, Notify, limiterVars

\* Every critical section of the executor keeps its types.
LEMMA ExecutorStepTypes ==
    ASSUME ExecutorTypeOK, NEW t \in Ids,
           Register(t) \/ Refuse(t) \/ Unregister(t) \/ CancelRunning(t) \/ CancelAgain(t)
           \/ (t # NoID /\ CancelUnknown(t)) \/ StopAccepting \/ AgeTombstones
    PROVE  ExecutorTypeOK'
<1> USE DEF ExecutorTypeOK
<1>1. Swept(cancelled) \in Tombstones /\ Swept(completed) \in Tombstones
  BY SweptType
<1>2. Older(cancelled) \in Tombstones /\ Older(completed) \in Tombstones
  BY OlderType
<1>3. CASE Register(t)
  BY <1>1, <1>3 DEF Register, Sweep, Ids
<1>4. CASE Refuse(t)
  BY <1>1, <1>4 DEF Refuse, Sweep
<1>5. CASE Unregister(t)
  <2>1. CASE t = NoID
    BY <1>5, <2>1 DEF Unregister, executorVars
  <2>2. CASE t # NoID
    <3>1. t \in Tasks
      BY <2>2 DEF Ids
    <3>2. Swept(Stamped(completed, t)) \in Tombstones
      BY <3>1, StampedType, SweptType
    <3>3. completed' \in Tombstones
      BY <1>5, <2>2, <3>1, <3>2, TrimmedType DEF Unregister
    <3> QED
      BY <1>1, <1>5, <2>2, <3>3 DEF Unregister
  <2> QED
    BY <2>1, <2>2
<1>6. CASE CancelRunning(t) \/ CancelAgain(t)
  BY <1>1, <1>6 DEF CancelRunning, CancelAgain, Sweep
<1>7. CASE t # NoID /\ CancelUnknown(t)
  <2>1. t \in Tasks
    BY <1>7 DEF Ids
  <2>2. Stamped(Swept(cancelled), t) \in Tombstones
    BY <1>1, <2>1, StampedType
  <2>3. cancelled' \in Tombstones
    BY <1>7, <2>1, <2>2, TrimmedType DEF CancelUnknown
  <2> QED
    BY <1>1, <1>7, <2>3 DEF CancelUnknown
<1>8. CASE StopAccepting
  BY <1>8 DEF StopAccepting
<1>9. CASE AgeTombstones
  BY <1>2, <1>9 DEF AgeTombstones
<1> QED
  BY <1>3, <1>4, <1>5, <1>6, <1>7, <1>8, <1>9

MemoryTypeOK == memory \in [Ways -> [Tasks -> [age : 0..TombstoneTTL, newer : SUBSET Tasks]]]

LEMMA MemoryStepTypes ==
    ASSUME MemoryTypeOK, NEW t \in Tasks, NEW how \in Ways,
           Settle(t, how) \/ AgeMemory
    PROVE  MemoryTypeOK'
<1> DEFINE Entry == [age : 0..TombstoneTTL, newer : SUBSET Tasks]
<1>1. Forgotten \in Entry
  BY ExecutorAssumption DEF Forgotten
<1>2. CASE Settle(t, how)
  <2> DEFINE before == memory[how]
             peers == {v \in Tasks \ {t} : before[v].age = 0}
             after == [u \in Tasks |->
                CASE u = t -> [age |-> 0, newer |-> peers]
                  [] u # t /\ before[u].age < TombstoneTTL ->
                        [before[u] EXCEPT !.newer = @ \cup {t}]
                  [] OTHER -> Forgotten]
  <2>1. before \in [Tasks -> Entry]
    BY DEF MemoryTypeOK
  <2>2. [age |-> 0, newer |-> peers] \in Entry
    BY ExecutorAssumption
  <2>3. ASSUME NEW u \in Tasks
        PROVE  [before[u] EXCEPT !.newer = @ \cup {t}] \in Entry
    BY <2>1
  <2>4. after \in [Tasks -> Entry]
    BY <1>1, <2>2, <2>3
  <2>5. memory' = [memory EXCEPT ![how] = after]
    BY <1>2 DEF Settle
  <2> QED
    BY <2>4, <2>5 DEF MemoryTypeOK
<1>3. CASE AgeMemory
  <2>1. ASSUME NEW h \in Ways, NEW u \in Tasks
        PROVE  (IF memory[h][u].age + 1 >= TombstoneTTL
                THEN Forgotten
                ELSE [memory[h][u] EXCEPT !.age = @ + 1]) \in Entry
    <3>1. memory[h][u] \in Entry
      BY DEF MemoryTypeOK
    <3> QED
      BY <1>1, <3>1, ExecutorAssumption
  <2> QED
    BY <1>3, <2>1 DEF MemoryTypeOK, AgeMemory
<1> QED
  BY <1>2, <1>3

LEMMA TypeInvariant == TypeOK /\ [Next]_vars => TypeOK'
<1> SUFFICES ASSUME TypeOK, [Next]_vars
             PROVE  TypeOK'
  OBVIOUS
<1> USE DEF TypeOK, taskVars, mainVars, reportVars, Go, GoroutineEnds, MainGo, Pcs, Waiting, Counted, Ids
<1>l. LimiterTypeOK /\ UNCHANGED limiterVars => LimiterTypeOK'
  BY DEF LimiterTypeOK, limiterVars
<1>e. ExecutorTypeOK /\ UNCHANGED executorVars => ExecutorTypeOK'
  BY DEF ExecutorTypeOK, executorVars
<1>1. CASE Connect
  BY <1>1, <1>l, <1>e DEF Connect
<1>2. ASSUME NEW g \in Goroutines, NEW t \in DeliveredIds, NEW n \in LimitRequests, Deliver(g, t, n)
      PROVE  TypeOK'
  <2>1. n \in Nat /\ t \in Ids
    BY RuntimeAssumption
  <2>2. LimiterTypeOK'
    BY <1>2, <2>1, LimiterStepTypes DEF Deliver
  <2> QED
    BY <1>2, <1>e, <2>1, <2>2 DEF Deliver
<1>3. ASSUME NEW t \in Tasks, CancelDelivered(t)
      PROVE  TypeOK'
  <2>1. t \in Ids /\ t # NoID
    BY ExecutorAssumption
  <2>2. ExecutorTypeOK'
    BY <1>3, <2>1, ExecutorStepTypes DEF CancelDelivered
  <2>3. memory' = memory \/ Settle(t, "cancelled")
    BY <1>3 DEF CancelDelivered
  <2>4. MemoryTypeOK'
    BY <2>3, MemoryStepTypes DEF MemoryTypeOK, Ways
  <2>5. cancelReports' \subseteq Tasks /\ ctxDone' \in [Goroutines -> BOOLEAN]
    BY <1>3 DEF CancelDelivered
  <2> QED
    BY <1>3, <1>l, <2>2, <2>4, <2>5 DEF CancelDelivered, MemoryTypeOK
<1>4. CASE StreamLost \/ StreamCancelled
  BY <1>4, <1>l, <1>e DEF StreamLost, StreamCancelled, CloseStream
<1>5. CASE StreamLoopReturns
  BY <1>5, <1>l, <1>e DEF StreamLoopReturns
<1>6. ASSUME NEW g \in Goroutines, Admission(g)
      PROVE  TypeOK'
  <2>1. CASE AcquireTakes(g) \/ AcquireParks(g) \/ AcquireRetries(g) \/ AcquireGivesUp(g)
             \/ ReleaseRefused(g)
    <3>1. LimiterTypeOK'
      BY <2>1, LimiterStepTypes
         DEF AcquireTakes, AcquireParks, AcquireRetries, AcquireGivesUp, ReleaseRefused
    <3> QED
      BY <2>1, <3>1, <1>e
         DEF AcquireTakes, AcquireParks, AcquireRetries, AcquireGivesUp, ReleaseRefused
  <2>2. CASE StartAccepts(g) \/ StartRefuses(g)
    <3>1. job[g] \in Ids
      OBVIOUS
    <3>2. ExecutorTypeOK'
      BY <2>2, <3>1, ExecutorStepTypes DEF StartAccepts, StartRefuses
    <3> QED
      BY <2>2, <3>2, <1>l DEF StartAccepts, StartRefuses
  <2> QED
    BY <1>6, <2>1, <2>2 DEF Admission
<1>7. ASSUME NEW g \in Goroutines, Execution(g)
      PROVE  TypeOK'
  <2>1. ASSUME NEW result \in {"completed", "failed"}, Execute(g, result)
        PROVE  TypeOK'
    BY <2>1, <1>l, <1>e DEF Execute
  <2>2. CASE UpgradePanics(g)
    BY <2>2, <1>l, <1>e DEF UpgradePanics
  <2>3. ASSUME NEW recorded \in BOOLEAN, NEW acknowledged \in BOOLEAN,
               Report(g, recorded, acknowledged)
        PROVE  TypeOK'
    <3>1. restartRequested' \in BOOLEAN
      BY <2>3 DEF Report
    <3>2. reported' \in [Tasks -> SUBSET {"result", "upgraded", "unstarted"}]
      BY <2>3 DEF Report, ResultKinds
    <3> QED
      BY <2>3, <3>1, <3>2, <1>l, <1>e DEF Report
  <2>4. CASE ReleaseSlot(g)
    <3>1. LimiterTypeOK'
      BY <2>4, LimiterStepTypes DEF ReleaseSlot
    <3> QED
      BY <2>4, <3>1, <1>e DEF ReleaseSlot
  <2>5. CASE Finish(g)
    <3>1. job[g] \in Ids
      OBVIOUS
    <3>2. ExecutorTypeOK'
      BY <2>5, <3>1, ExecutorStepTypes DEF Finish
    <3>3. MemoryTypeOK'
      BY <2>5, <3>1, MemoryStepTypes DEF Finish, MemoryTypeOK, Ways
    <3> QED
      BY <2>5, <3>2, <3>3, <1>l DEF Finish, MemoryTypeOK
  <2> QED
    BY <1>7, <2>1, <2>2, <2>3, <2>4, <2>5 DEF Execution
<1>8. ASSUME NEW t \in Tasks, NEW recorded \in BOOLEAN, PostCancelReport(t, recorded)
      PROVE  TypeOK'
  BY <1>8, <1>l, <1>e DEF PostCancelReport
<1>9. CASE Signal
  BY <1>9, <1>l, <1>e DEF Signal
<1>10. CASE Shutdown
  <2>1. ASSUME MainStopsAccepting PROVE TypeOK'
    <3>1. ExecutorTypeOK'
      BY <2>1, ExecutorAssumption, ExecutorStepTypes DEF MainStopsAccepting
    <3> QED
      BY <2>1, <3>1, <1>l DEF MainStopsAccepting
  <2>2. CASE SelectLeaves
    BY <2>2, <1>l, <1>e DEF SelectLeaves
  <2>3. CASE MainCancelsLoops \/ MainJoinsLoops \/ MainDrained \/ MainGivesUp
    BY <2>3, <1>l, <1>e DEF MainCancelsLoops, MainJoinsLoops, MainDrained, MainGivesUp
  <2>4. CASE MainCancelsTasks
    BY <2>4, <1>l, <1>e DEF MainCancelsTasks
  <2> QED
    BY <1>10, <2>1, <2>2, <2>3, <2>4 DEF Shutdown
<1>11. CASE Tick
  <2>1. ExecutorTypeOK'
    BY <1>11, ExecutorAssumption, ExecutorStepTypes DEF Tick
  <2>2. MemoryTypeOK'
    <3>1. CASE Tasks = {}
      BY <1>11, <3>1 DEF Tick, AgeMemory, MemoryTypeOK
    <3>2. CASE Tasks # {}
      BY <1>11, <3>2, MemoryStepTypes DEF Tick, MemoryTypeOK, Ways
    <3> QED
      BY <3>1, <3>2
  <2> QED
    BY <1>11, <2>1, <2>2, <1>l DEF Tick, MemoryTypeOK
<1>12. CASE Terminated \/ UNCHANGED vars
  BY <1>12, <1>l, <1>e DEF Terminated, vars
<1> QED
  BY <1>1, <1>2, <1>3, <1>4, <1>5, <1>6, <1>7, <1>8, <1>9, <1>10, <1>11, <1>12
     DEF Next, Streaming

(* Every variable keeps its type for all constants: in particular limit    *)
(* stays within 1..MaxConcurrency whatever the server sends.               *)
THEOREM TypeCorrect == Spec => []TypeOK
<1>1. Init => TypeOK
  <2> SUFFICES ASSUME Init PROVE TypeOK
    OBVIOUS
  <2>1. LimiterTypeOK
    BY NormalizeLimitType, LimiterAssumption DEF Init, LimiterInit, LimiterTypeOK
  <2>2. NoTombstones \in Tombstones
    BY DEF NoTombstones, Tombstones
  <2>3. ExecutorTypeOK
    BY <2>2 DEF Init, ExecutorInit, ExecutorTypeOK
  <2>4. Forgotten \in [age : 0..TombstoneTTL, newer : SUBSET Tasks]
    BY ExecutorAssumption DEF Forgotten
  <2>5. MemoryTypeOK
    BY <2>4 DEF Init, MemoryTypeOK
  <2>6. /\ pc \in [Goroutines -> Pcs]
        /\ job \in [Goroutines -> Ids]
        /\ reported \in [Tasks -> SUBSET {"result", "upgraded", "unstarted"}]
    BY DEF Init, Pcs, Ids
  <2> QED
    BY <2>1, <2>3, <2>5, <2>6 DEF Init, TypeOK, MemoryTypeOK
<1> QED
  BY <1>1, TypeInvariant, PTL DEF Spec

-----------------------------------------------------------------------------
(* Slots.  A step of the agent hands a slot to one goroutine, takes one     *)
(* back, or leaves the holders alone: the limiter's own cases, and the      *)
(* cases of the semaphore it implements.                                    *)

SlotsKept ==
    /\ At(Holding)' = At(Holding)
    /\ UNCHANGED slots

SlotTaken(g) ==
    /\ g \in Goroutines \ At(Holding)
    /\ At(Holding)' = At(Holding) \cup {g}
    /\ TakeSlot

SlotReturned(g) ==
    /\ g \in At(Holding)
    /\ At(Holding)' = At(Holding) \ {g}
    /\ Release

LEMMA SlotSteps ==
    ASSUME TypeOK, [Next]_vars
    PROVE  \/ SlotsKept
           \/ \E g \in Goroutines : SlotTaken(g) \/ SlotReturned(g)
<1> USE DEF Go, GoroutineEnds, limiterVars, taskVars, Holding
<1>p. UNCHANGED <<pc, slots>> => SlotsKept
  BY DEF SlotsKept, At
<1>1. CASE Streaming
  <2>1. ASSUME NEW g \in Goroutines, NEW t \in DeliveredIds, NEW n \in LimitRequests,
               Deliver(g, t, n)
        PROVE  SlotsKept
    BY <2>1 DEF TypeOK, Deliver, SetLimit, SlotsKept, At
  <2> QED
    BY <1>1, <1>p, <2>1 DEF Streaming, Connect, CancelDelivered, StreamLost, StreamCancelled,
       CloseStream, StreamLoopReturns
<1>2. ASSUME NEW g \in Goroutines, Admission(g)
      PROVE  SlotsKept \/ SlotTaken(g) \/ SlotReturned(g)
  <2>1. CASE AcquireTakes(g)
    BY <2>1 DEF TypeOK, AcquireTakes, SlotTaken, At
  <2>2. CASE ReleaseRefused(g)
    BY <2>2 DEF TypeOK, ReleaseRefused, SlotReturned, At
  <2>3. CASE AcquireParks(g) \/ AcquireRetries(g) \/ AcquireGivesUp(g)
    BY <2>3 DEF TypeOK, AcquireParks, AcquireRetries, AcquireGivesUp, Park, Unpark,
       Abandon, SlotsKept, At
  <2>4. CASE StartAccepts(g) \/ StartRefuses(g)
    BY <2>4 DEF TypeOK, StartAccepts, StartRefuses, SlotsKept, At
  <2> QED
    BY <1>2, <2>1, <2>2, <2>3, <2>4 DEF Admission
<1>3. ASSUME NEW g \in Goroutines, Execution(g)
      PROVE  SlotsKept \/ SlotReturned(g)
  <2>1. ASSUME NEW result \in {"completed", "failed"}, Execute(g, result)
        PROVE  SlotsKept
    BY <2>1 DEF TypeOK, Execute, SlotsKept, At
  <2>2. ASSUME NEW recorded \in BOOLEAN, NEW acknowledged \in BOOLEAN,
               Report(g, recorded, acknowledged)
        PROVE  SlotsKept
    BY <2>2 DEF TypeOK, Report, SlotsKept, At
  <2>3. CASE ReleaseSlot(g)
    BY <2>3 DEF TypeOK, ReleaseSlot, SlotReturned, At
  <2>4. CASE Finish(g)
    BY <2>4 DEF TypeOK, Finish, SlotsKept, At
  <2>5. CASE UpgradePanics(g)
    BY <2>5, <1>p DEF UpgradePanics
  <2> QED
    BY <1>3, <2>1, <2>2, <2>3, <2>4, <2>5 DEF Execution
<1>4. CASE Shutdown
  BY <1>4, <1>p DEF Shutdown, SelectLeaves, MainStopsAccepting, MainCancelsLoops,
     MainJoinsLoops, MainDrained, MainCancelsTasks, MainGivesUp
<1>5. CASE (\E t \in Tasks, recorded \in BOOLEAN : PostCancelReport(t, recorded))
           \/ Signal \/ Tick \/ Terminated \/ UNCHANGED vars
  BY <1>5, <1>p DEF PostCancelReport, Signal, Tick, Terminated, vars
<1> QED
  BY <1>1, <1>2, <1>3, <1>4, <1>5 DEF Next

\* At no moment are there more goroutines than Goroutines, a finite set.
LEMMA HoldersFinite == IsFiniteSet(At(Holding))
<1>1. At(Holding) \subseteq Goroutines
  BY DEF At
<1> QED
  BY <1>1, LimiterAssumption, FS_Subset

LEMMA SlotsStep == TypeOK /\ SlotsAccounted /\ [Next]_vars => SlotsAccounted'
<1> SUFFICES ASSUME TypeOK, SlotsAccounted, [Next]_vars
             PROVE  SlotsAccounted'
  OBVIOUS
<1> DEFINE H == At(Holding)
<1>1. IsFiniteSet(H) /\ slots = Cardinality(H)
  BY HoldersFinite DEF SlotsAccounted
<1> SUFFICES slots' = Cardinality(H')
  BY DEF SlotsAccounted
<1>2. CASE SlotsKept
  BY <1>1, <1>2 DEF SlotsKept
<1>3. ASSUME NEW g \in Goroutines, SlotTaken(g)
      PROVE  slots' = Cardinality(H')
  <2>1. H' = H \cup {g} /\ g \notin H /\ slots' = slots + 1
    BY <1>3 DEF SlotTaken, TakeSlot
  <2>2. Cardinality(H \cup {g}) = Cardinality(H) + 1
    BY <1>1, <2>1, FS_AddElement
  <2> QED
    BY <1>1, <2>1, <2>2
<1>4. ASSUME NEW g \in Goroutines, SlotReturned(g)
      PROVE  slots' = Cardinality(H')
  <2>1. H' = H \ {g} /\ g \in H
    BY <1>4 DEF SlotReturned
  <2>2. Cardinality(H \ {g}) = Cardinality(H) - 1
    BY <1>1, <2>1, FS_RemoveElement
  <2>3. Cardinality(H) > 0
    BY <1>1, <2>1, FS_CardinalityType, FS_EmptySet
  <2>4. slots' = slots - 1
    BY <1>1, <1>4, <2>3 DEF SlotReturned, Release
  <2> QED
    BY <1>1, <2>1, <2>2, <2>4
<1> QED
  BY <1>2, <1>3, <1>4, SlotSteps

(* No slot is leaked or given back twice, for any number of goroutines and  *)
(* any sequence of limits.                                                  *)
THEOREM SlotsCorrect == Spec => []SlotsAccounted
<1>1. Init => SlotsAccounted
  <2> SUFFICES ASSUME Init PROVE SlotsAccounted
    OBVIOUS
  <2>1. At(Holding) = {}
    BY DEF Init, At, Holding
  <2> QED
    BY <2>1, FS_EmptySet DEF Init, LimiterInit, SlotsAccounted
<1> QED
  BY <1>1, SlotsStep, TypeCorrect, PTL DEF Spec

\* CountingSemaphore counts as this module does.
LEMMA SameCardinality ==
    ASSUME NEW S
    PROVE  Semaphore!Cardinality(S) = Cardinality(S)
BY DEF Cardinality, Semaphore!Cardinality

(* The limiter implements the resizable semaphore, its goroutines, mutex    *)
(* and channels notwithstanding: who enters does so below the limit then in *)
(* force, and a lower limit evicts nobody.                                  *)
THEOREM LimiterIsSemaphore == Spec => RefinesSemaphore
<1>1. Init => Semaphore!Init
  BY NormalizeLimitType, LimiterAssumption
     DEF Init, LimiterInit, Semaphore!Init, At, Holding
<1>2. TypeOK /\ TypeOK' /\ SlotsAccounted /\ [Next]_vars => [Semaphore!Next]_(Semaphore!vars)
  <2> SUFFICES ASSUME TypeOK, TypeOK', SlotsAccounted, [Next]_vars
               PROVE  Semaphore!Next \/ UNCHANGED Semaphore!vars
    BY DEF Semaphore!vars
  <2>1. limit' \in 1..MaxConcurrency
    BY DEF TypeOK, LimiterTypeOK
  <2>2. CASE SlotsKept
    BY <2>1, <2>2 DEF SlotsKept, Semaphore!Next, Semaphore!Resize
  <2>3. ASSUME NEW g \in Goroutines, SlotTaken(g)
        PROVE  Semaphore!Next
    <3>1. Semaphore!Cardinality(At(Holding)) < limit
      BY <2>3, SameCardinality DEF SlotTaken, TakeSlot, SlotsAccounted
    <3> QED
      BY <2>3, <3>1 DEF SlotTaken, TakeSlot, Semaphore!Next, Semaphore!Enter
  <2>4. ASSUME NEW g \in Goroutines, SlotReturned(g)
        PROVE  Semaphore!Next
    BY <2>4 DEF SlotReturned, Release, Semaphore!Next, Semaphore!Leave
  <2> QED
    BY <2>2, <2>3, <2>4, SlotSteps
<1> QED
  BY <1>1, <1>2, TypeCorrect, SlotsCorrect, PTL DEF Spec, RefinesSemaphore, Semaphore!Spec

-----------------------------------------------------------------------------
(* Wakeups.                                                                 *)

LEMMA WakeupStep == TypeOK /\ NoLostWakeup /\ [Next]_vars => NoLostWakeup'
<1> SUFFICES ASSUME TypeOK, NoLostWakeup, [Next]_vars
             PROVE  NoLostWakeup'
  OBVIOUS
<1> USE DEF TypeOK, LimiterTypeOK, NoLostWakeup, At, Go, GoroutineEnds, limiterVars, taskVars
<1>1. ASSUME UNCHANGED <<limiterVars, pc>>
      PROVE  NoLostWakeup'
  BY <1>1
<1>2. ASSUME NEW g \in Goroutines, NEW t \in DeliveredIds, NEW n \in LimitRequests,
             Deliver(g, t, n)
      PROVE  NoLostWakeup'
  BY <1>2 DEF Deliver, SetLimit, Notify
<1>3. CASE Connect \/ (\E t \in Tasks : CancelDelivered(t)) \/ StreamLost \/ StreamCancelled
           \/ StreamLoopReturns
  BY <1>1, <1>3 DEF Connect, CancelDelivered, StreamLost, StreamCancelled, CloseStream,
     StreamLoopReturns
<1>4. ASSUME NEW g \in Goroutines, Admission(g)
      PROVE  NoLostWakeup'
  <2>1. CASE AcquireTakes(g)
    <3>1. parked = {}
      BY <2>1 DEF AcquireTakes, TakeSlot
    <3> QED
      BY <2>1, <3>1 DEF AcquireTakes, TakeSlot
  <2>2. CASE AcquireParks(g)
    BY <2>2 DEF AcquireParks, Park
  <2>3. CASE AcquireRetries(g)
    BY <2>3 DEF AcquireRetries, Unpark
  <2>4. CASE AcquireGivesUp(g)
    BY <2>4 DEF AcquireGivesUp, Abandon
  <2>5. CASE StartAccepts(g) \/ StartRefuses(g)
    BY <2>5 DEF StartAccepts, StartRefuses
  <2>6. CASE ReleaseRefused(g)
    BY <2>6 DEF ReleaseRefused, Release, Notify
  <2> QED
    BY <1>4, <2>1, <2>2, <2>3, <2>4, <2>5, <2>6 DEF Admission
<1>5. ASSUME NEW g \in Goroutines, Execution(g)
      PROVE  NoLostWakeup'
  <2>1. ASSUME NEW result \in {"completed", "failed"}, Execute(g, result)
        PROVE  NoLostWakeup'
    BY <2>1 DEF Execute
  <2>2. ASSUME NEW recorded \in BOOLEAN, NEW acknowledged \in BOOLEAN,
               Report(g, recorded, acknowledged)
        PROVE  NoLostWakeup'
    BY <2>2 DEF Report
  <2>3. CASE ReleaseSlot(g)
    BY <2>3 DEF ReleaseSlot, Release, Notify
  <2>4. CASE Finish(g)
    BY <2>4 DEF Finish
  <2>5. CASE UpgradePanics(g)
    BY <2>5, <1>1 DEF UpgradePanics
  <2> QED
    BY <1>5, <2>1, <2>2, <2>3, <2>4, <2>5 DEF Execution
<1>6. CASE Shutdown
  BY <1>1, <1>6 DEF Shutdown, SelectLeaves, MainStopsAccepting, MainCancelsLoops,
     MainJoinsLoops, MainDrained, MainCancelsTasks, MainGivesUp
<1>7. CASE (\E t \in Tasks, recorded \in BOOLEAN : PostCancelReport(t, recorded))
           \/ Signal \/ Tick \/ Terminated \/ UNCHANGED vars
  BY <1>1, <1>7 DEF PostCancelReport, Signal, Tick, Terminated, vars
<1> QED
  BY <1>2, <1>3, <1>4, <1>5, <1>6, <1>7 DEF Next, Streaming

(* A delivery sleeps in Acquire only while every slot is taken.             *)
THEOREM NoWakeupIsLost == Spec => []NoLostWakeup
<1>1. Init => NoLostWakeup
  BY DEF Init, LimiterInit, NoLostWakeup
<1> QED
  BY <1>1, WakeupStep, TypeCorrect, PTL DEF Spec

-----------------------------------------------------------------------------
(* The registry.                                                            *)

LEMMA RegistryStep == TypeOK /\ RegistryMatchesTasks /\ [Next]_vars => RegistryMatchesTasks'
<1> SUFFICES ASSUME TypeOK, RegistryMatchesTasks, [Next]_vars
             PROVE  RegistryMatchesTasks'
  OBVIOUS
<1> USE DEF TypeOK, RegistryMatchesTasks, Started, At, Counted, Go, GoroutineEnds, taskVars
<1>1. ASSUME UNCHANGED running, Started' = Started, \A g \in Started : job'[g] = job[g]
      PROVE  RegistryMatchesTasks'
  BY <1>1
<1>2. ASSUME UNCHANGED <<executorVars, pc, job>>
      PROVE  RegistryMatchesTasks'
  BY <1>2 DEF executorVars
<1>3. ASSUME NEW t \in Tasks, CancelDelivered(t)
      PROVE  RegistryMatchesTasks'
  BY <1>3 DEF CancelDelivered, CancelRunning, CancelAgain, CancelUnknown
<1>4. ASSUME NEW g \in Goroutines, NEW t \in DeliveredIds, NEW n \in LimitRequests,
             Deliver(g, t, n)
      PROVE  RegistryMatchesTasks'
  BY <1>4, <1>1 DEF Deliver, executorVars
<1>5. CASE Connect \/ StreamLost \/ StreamCancelled \/ StreamLoopReturns
  BY <1>2, <1>5 DEF Connect, StreamLost, StreamCancelled, CloseStream, StreamLoopReturns
<1>6. ASSUME NEW g \in Goroutines, Admission(g)
      PROVE  RegistryMatchesTasks'
  <2>1. CASE StartAccepts(g)
    <3>1. /\ Started' = Started \cup {g} /\ g \notin Started
          /\ UNCHANGED job
          /\ running' = running \cup ({job[g]} \ {NoID})
          /\ job[g] # NoID => job[g] \notin running
      BY <2>1 DEF StartAccepts, Register, MayStart
    <3>2. running' = {job'[h] : h \in Started'} \ {NoID}
      BY <3>1
    <3>3. ASSUME NEW h \in Started', NEW k \in Started', job'[h] = job'[k], job'[h] # NoID
          PROVE  h = k
      BY <3>1, <3>3
    <3> QED
      BY <3>2, <3>3
  <2>2. CASE AcquireTakes(g) \/ AcquireParks(g) \/ AcquireRetries(g)
    BY <2>2, <1>1 DEF AcquireTakes, AcquireParks, AcquireRetries, executorVars
  <2>3. CASE AcquireGivesUp(g) \/ ReleaseRefused(g)
    BY <2>3, <1>1 DEF AcquireGivesUp, ReleaseRefused, executorVars
  <2>4. CASE StartRefuses(g)
    BY <2>4, <1>1 DEF StartRefuses, Refuse
  <2> QED
    BY <1>6, <2>1, <2>2, <2>3, <2>4 DEF Admission
<1>7. ASSUME NEW g \in Goroutines, Execution(g)
      PROVE  RegistryMatchesTasks'
  <2>1. ASSUME NEW result \in {"completed", "failed"}, Execute(g, result)
        PROVE  RegistryMatchesTasks'
    BY <2>1, <1>1 DEF Execute, executorVars
  <2>2. ASSUME NEW recorded \in BOOLEAN, NEW acknowledged \in BOOLEAN,
               Report(g, recorded, acknowledged)
        PROVE  RegistryMatchesTasks'
    BY <2>2, <1>1 DEF Report, executorVars
  <2>3. CASE ReleaseSlot(g)
    BY <2>3, <1>1 DEF ReleaseSlot, executorVars
  <2>4. CASE Finish(g)
    <3>1. /\ Started' = Started \ {g} /\ g \in Started
          /\ \A h \in Started' : job'[h] = job[h]
          /\ running' = running \ ({job[g]} \ {NoID})
      BY <2>4 DEF Finish, Unregister, executorVars
    <3>2. running' = {job'[h] : h \in Started'} \ {NoID}
      BY <3>1
    <3> QED
      BY <3>1, <3>2
  <2>5. CASE UpgradePanics(g)
    BY <2>5, <1>2 DEF UpgradePanics
  <2> QED
    BY <1>7, <2>1, <2>2, <2>3, <2>4, <2>5 DEF Execution
<1>8. CASE Shutdown
  BY <1>1, <1>2, <1>8 DEF Shutdown, SelectLeaves, MainStopsAccepting, StopAccepting,
     MainCancelsLoops, MainJoinsLoops, MainDrained, MainCancelsTasks, MainGivesUp
<1>9. CASE (\E t \in Tasks, recorded \in BOOLEAN : PostCancelReport(t, recorded))
           \/ Signal \/ Tick \/ Terminated \/ UNCHANGED vars
  BY <1>1, <1>2, <1>9 DEF PostCancelReport, Signal, Tick, AgeTombstones, Terminated, vars
<1> QED
  BY <1>3, <1>4, <1>5, <1>6, <1>7, <1>8, <1>9 DEF Next, Streaming

(* The ids CancelTask and Start look up are those being worked on, and none *)
(* is worked on twice at once, however often the server delivers it.        *)
THEOREM RegistryCorrect == Spec => []RegistryMatchesTasks
<1>1. Init => RegistryMatchesTasks
  BY DEF Init, ExecutorInit, RegistryMatchesTasks, Started, At, Counted
<1> QED
  BY <1>1, RegistryStep, TypeCorrect, PTL DEF Spec

-----------------------------------------------------------------------------
(* Shutdown.  run() closes the executor before it waits, and nothing opens  *)
(* it again.                                                                *)

AdmissionClosed ==
    main \in {"cancelLoops", "joinLoops", "draining", "lastWait", "drained", "gaveUp"}
        => ~accepting

LEMMA AdmissionStep == TypeOK /\ AdmissionClosed /\ [Next]_vars => AdmissionClosed'
<1> SUFFICES ASSUME TypeOK, AdmissionClosed, [Next]_vars
             PROVE  AdmissionClosed'
  OBVIOUS
<1> USE DEF TypeOK, ExecutorTypeOK, AdmissionClosed, mainVars, executorVars
<1>1. CASE Streaming
  BY <1>1 DEF Streaming, Connect, Deliver, CancelDelivered, CancelRunning, CancelAgain,
     CancelUnknown, StreamLost, StreamCancelled, CloseStream, StreamLoopReturns
<1>2. ASSUME NEW g \in Goroutines, Admission(g)
      PROVE  AdmissionClosed'
  BY <1>2 DEF Admission, AcquireTakes, AcquireParks, AcquireRetries, AcquireGivesUp,
     StartAccepts, StartRefuses, ReleaseRefused, Register, Refuse
<1>3. ASSUME NEW g \in Goroutines, Execution(g)
      PROVE  AdmissionClosed'
  BY <1>3 DEF Execution, Execute, UpgradePanics, Report, ReleaseSlot, Finish, Unregister
<1>4. CASE Shutdown
  BY <1>4 DEF Shutdown, MainGo, SelectLeaves, MainStopsAccepting, StopAccepting,
     MainCancelsLoops, MainJoinsLoops, MainDrained, MainCancelsTasks, MainGivesUp
<1>5. CASE (\E t \in Tasks, recorded \in BOOLEAN : PostCancelReport(t, recorded))
           \/ Signal \/ Tick \/ Terminated \/ UNCHANGED vars
  BY <1>5 DEF PostCancelReport, Signal, Tick, AgeTombstones, Terminated, vars
<1> QED
  BY <1>1, <1>2, <1>3, <1>4, <1>5 DEF Next

\* Only a successful Start adds to what Wait waits for.
LEMMA OnlyStartAdds ==
    ASSUME TypeOK, [Next]_vars, ~accepting
    PROVE  Started' \subseteq Started
<1> USE DEF TypeOK, Started, At, Counted, Go, GoroutineEnds, taskVars
<1>1. CASE Streaming
  BY <1>1 DEF Streaming, Connect, Deliver, CancelDelivered, StreamLost, StreamCancelled,
     CloseStream, StreamLoopReturns
<1>2. ASSUME NEW g \in Goroutines, Admission(g)
      PROVE  Started' \subseteq Started
  BY <1>2 DEF Admission, AcquireTakes, AcquireParks, AcquireRetries, AcquireGivesUp,
     StartAccepts, StartRefuses, ReleaseRefused, Register, MayStart
<1>3. ASSUME NEW g \in Goroutines, Execution(g)
      PROVE  Started' \subseteq Started
  BY <1>3 DEF Execution, Execute, UpgradePanics, Report, ReleaseSlot, Finish
<1>4. CASE Shutdown
  BY <1>4 DEF Shutdown, SelectLeaves, MainStopsAccepting, MainCancelsLoops,
     MainJoinsLoops, MainDrained, MainCancelsTasks, MainGivesUp
<1>5. CASE (\E t \in Tasks, recorded \in BOOLEAN : PostCancelReport(t, recorded))
           \/ Signal \/ Tick \/ Terminated \/ UNCHANGED vars
  BY <1>5 DEF PostCancelReport, Signal, Tick, Terminated, vars
<1> QED
  BY <1>1, <1>2, <1>3, <1>4, <1>5 DEF Next

(* While executor.Wait waits no task is added, though deliveries that were  *)
(* queued for a slot still reach Start.                                     *)
THEOREM WaitRacesWithNoAdd == Spec => NoAddAfterWait
<1>1. Init => AdmissionClosed
  BY DEF Init, AdmissionClosed
<1>2. TypeOK /\ AdmissionClosed /\ [Next]_vars
        => [(main \in {"draining", "lastWait"}) => Started' \subseteq Started]_vars
  BY OnlyStartAdds DEF AdmissionClosed
<1> QED
  BY <1>1, <1>2, AdmissionStep, TypeCorrect, PTL DEF Spec, NoAddAfterWait

-----------------------------------------------------------------------------
(* Restarts.  The nil-map panic of runAgentUpgrade refutes the property in  *)
(* the other modes; the cases below are those whose helper cannot return a  *)
(* nil map.                                                                 *)

LEMMA RestartStep ==
    ASSUME UpgradeMode \in {"disabled", "container"}
    PROVE  TypeOK /\ RestartOnlyAfterReport /\ [Next]_vars => RestartOnlyAfterReport'
<1> SUFFICES ASSUME TypeOK, RestartOnlyAfterReport, [Next]_vars
             PROVE  RestartOnlyAfterReport'
  OBVIOUS
<1> USE DEF TypeOK, RestartOnlyAfterReport, mainVars, reportVars
<1>1. ASSUME UNCHANGED <<mainVars, restartRequested>>,
             \A t \in UpgradeTasks : reported[t] \subseteq reported'[t]
      PROVE  RestartOnlyAfterReport'
  BY <1>1
<1>2. CASE Streaming
  BY <1>1, <1>2 DEF Streaming, Connect, Deliver, CancelDelivered, StreamLost, StreamCancelled,
     CloseStream, StreamLoopReturns
<1>3. ASSUME NEW g \in Goroutines, Admission(g)
      PROVE  RestartOnlyAfterReport'
  BY <1>1, <1>3 DEF Admission, AcquireTakes, AcquireParks, AcquireRetries, AcquireGivesUp,
     StartAccepts, StartRefuses, ReleaseRefused
<1>4. ASSUME NEW g \in Goroutines, Execution(g)
      PROVE  RestartOnlyAfterReport'
  <2>1. ASSUME NEW recorded \in BOOLEAN, NEW acknowledged \in BOOLEAN,
               Report(g, recorded, acknowledged)
        PROVE  RestartOnlyAfterReport'
    <3>1. \A t \in Tasks : reported[t] \subseteq reported'[t]
      BY <2>1 DEF Report
    <3>2. CASE acknowledged /\ RequestsRestart(g)
      <4>1. job[g] \in UpgradeTasks /\ job[g] \in Tasks /\ job[g] # NoID
        BY <3>2, RuntimeAssumption, ExecutorAssumption DEF RequestsRestart
      <4>2. "upgraded" \in ResultKinds(g)
        BY <3>2 DEF ResultKinds
      <4>3. "upgraded" \in reported'[job[g]]
        BY <2>1, <3>2, <4>1, <4>2 DEF Report
      <4> QED
        BY <4>1, <4>3
    <3>3. CASE ~(acknowledged /\ RequestsRestart(g))
      <4>1. UNCHANGED <<mainVars, restartRequested>>
        BY <2>1, <3>3 DEF Report
      <4> QED
        BY <1>1, <3>1, <4>1, RuntimeAssumption
    <3> QED
      BY <3>2, <3>3
  <2>2. ~UpgradePanics(g)
    BY DEF UpgradePanics
  <2>3. ASSUME NEW result \in {"completed", "failed"}, Execute(g, result)
        PROVE  RestartOnlyAfterReport'
    BY <1>1, <2>3 DEF Execute
  <2>4. CASE ReleaseSlot(g) \/ Finish(g)
    BY <1>1, <2>4 DEF ReleaseSlot, Finish
  <2> QED
    BY <1>4, <2>1, <2>2, <2>3, <2>4 DEF Execution
<1>5. ASSUME NEW t \in Tasks, NEW recorded \in BOOLEAN, PostCancelReport(t, recorded)
      PROVE  RestartOnlyAfterReport'
  <2>1. \A u \in Tasks : reported[u] \subseteq reported'[u]
    BY <1>5 DEF PostCancelReport
  <2> QED
    BY <1>1, <1>5, <2>1, RuntimeAssumption DEF PostCancelReport
<1>6. CASE Shutdown
  BY <1>6 DEF Shutdown, MainGo, SelectLeaves, MainStopsAccepting, MainCancelsLoops,
     MainJoinsLoops, MainDrained, MainCancelsTasks, MainGivesUp
<1>7. CASE Signal \/ Tick \/ Terminated \/ UNCHANGED vars
  BY <1>7 DEF Signal, Tick, Terminated, vars
<1> QED
  BY <1>2, <1>3, <1>4, <1>5, <1>6, <1>7 DEF Next

(* In the modes where an upgrade helper never returns a nil map, an agent   *)
(* nobody signalled leaves its main loop only after the control plane has   *)
(* recorded a successful upgrade.                                           *)
THEOREM RestartIsReported ==
    ASSUME UpgradeMode \in {"disabled", "container"}
    PROVE  Spec => []RestartOnlyAfterReport
<1>1. Init => RestartOnlyAfterReport
  BY DEF Init, RestartOnlyAfterReport
<1>2. TypeOK /\ RestartOnlyAfterReport /\ [Next]_vars => RestartOnlyAfterReport'
  BY RestartStep
<1> QED
  BY <1>1, <1>2, TypeCorrect, PTL DEF Spec

-----------------------------------------------------------------------------
(* What the two tombstone maps of the executor remember, for any number of *)
(* ids, any lifetime and any bound on the maps.                            *)

Entry == [age : 0 .. TombstoneTTL, newer : SUBSET Tasks]
History == [Tasks -> Entry]

(* A map m and the history b of the ids settled in its way.  The first      *)
(* conjunct is the one that matters; an entry drops out of m either by age, *)
(* which the second one counts, or for an entry that the third one says was *)
(* settled later.                                                           *)
Remembers(m, b) ==
    /\ \A u \in Tasks :
          b[u].age < TombstoneTTL /\ Cardinality(b[u].newer) < MaxTombstones
             => u \in DOMAIN m /\ m[u] = b[u].age
    /\ \A u \in DOMAIN m : m[u] < TombstoneTTL => b[u].age = m[u]
    /\ \A u, v \in DOMAIN m :
          u # v /\ m[u] < TombstoneTTL /\ m[v] <= m[u] => v \in b[u].newer
    /\ IsFiniteSet(DOMAIN m) /\ IsFiniteSet({u \in Tasks : b[u].age < TombstoneTTL})
    /\ \A u \in Tasks : IsFiniteSet(b[u].newer)

\* What Settle and AgeMemory make of the history of one way.
Settled(b, t) ==
    [u \in Tasks |->
        CASE u = t -> [age |-> 0, newer |-> {v \in Tasks \ {t} : b[v].age = 0}]
          [] u # t /\ b[u].age < TombstoneTTL -> [b[u] EXCEPT !.newer = @ \cup {t}]
          [] OTHER -> Forgotten]
Aged(b) ==
    [u \in Tasks |-> IF b[u].age + 1 >= TombstoneTTL THEN Forgotten ELSE [b[u] EXCEPT !.age = @ + 1]]

-----------------------------------------------------------------------------
LEMMA TombstoneAges ==
    ASSUME NEW m \in Tombstones
    PROVE  DOMAIN m \subseteq Tasks /\ \A u \in DOMAIN m : m[u] \in 0 .. TombstoneTTL
BY DEF Tombstones

LEMMA SettledAt ==
    ASSUME NEW b \in History, NEW t \in Tasks
    PROVE  /\ Settled(b, t)[t] = [age |-> 0, newer |-> {v \in Tasks \ {t} : b[v].age = 0}]
           /\ \A u \in Tasks \ {t} :
                 /\ b[u].age < TombstoneTTL =>
                       /\ Settled(b, t)[u].age = b[u].age
                       /\ Settled(b, t)[u].newer = b[u].newer \cup {t}
                 /\ ~(b[u].age < TombstoneTTL) => Settled(b, t)[u] = Forgotten
<1>1. Settled(b, t)[t] = [age |-> 0, newer |-> {v \in Tasks \ {t} : b[v].age = 0}]
  BY DEF Settled
<1>2. ASSUME NEW u \in Tasks \ {t}, b[u].age < TombstoneTTL
      PROVE  Settled(b, t)[u].age = b[u].age /\ Settled(b, t)[u].newer = b[u].newer \cup {t}
  <2>1. Settled(b, t)[u] = [b[u] EXCEPT !.newer = @ \cup {t}]
    BY <1>2 DEF Settled
  <2>2. b[u] \in Entry
    BY DEF History
  <2> QED
    BY <2>1, <2>2 DEF Entry
<1>3. ASSUME NEW u \in Tasks \ {t}, ~(b[u].age < TombstoneTTL)
      PROVE  Settled(b, t)[u] = Forgotten
  BY <1>3 DEF Settled
<1> QED
  BY <1>1, <1>2, <1>3

\* Expired entries may be swept at any moment.
LEMMA SweptRemembers ==
    ASSUME NEW m \in Tombstones, NEW b \in History, Remembers(m, b)
    PROVE  Remembers(Swept(m), b) /\ \A u \in DOMAIN Swept(m) : Swept(m)[u] < TombstoneTTL
<1> DEFINE n == Swept(m)
<1>1. /\ DOMAIN n = {u \in DOMAIN m : m[u] < TombstoneTTL}
      /\ \A u \in DOMAIN n : n[u] = m[u]
  BY DEF Swept
<1>2. IsFiniteSet(DOMAIN n)
  BY <1>1, FS_Subset DEF Remembers
<1> HIDE DEF n
<1> QED
  BY <1>1, <1>2 DEF Remembers, n

LEMMA StampedRemembers ==
    ASSUME NEW m \in Tombstones, NEW b \in History, NEW t \in Tasks, Remembers(m, b)
    PROVE  Remembers(Stamped(m, t), Settled(b, t))
<1> DEFINE n == Stamped(m, t)
           c == Settled(b, t)
<1>1. /\ DOMAIN n = DOMAIN m \cup {t} /\ n[t] = 0
      /\ \A u \in DOMAIN m \ {t} : n[u] = m[u]
  BY DEF Stamped
<1>2. /\ c[t] = [age |-> 0, newer |-> {v \in Tasks \ {t} : b[v].age = 0}]
      /\ \A u \in Tasks \ {t} :
            /\ b[u].age < TombstoneTTL =>
                  c[u].age = b[u].age /\ c[u].newer = b[u].newer \cup {t}
            /\ ~(b[u].age < TombstoneTTL) => c[u] = Forgotten
  BY SettledAt
<1>3. DOMAIN m \subseteq Tasks /\ \A u \in DOMAIN m : m[u] \in 0 .. TombstoneTTL
  BY TombstoneAges
<1>4. \A u \in Tasks : b[u].age \in 0 .. TombstoneTTL
  BY DEF History, Entry
<1>5. TombstoneTTL \in Nat \ {0}
  BY ExecutorAssumption
<1>6. \A u \in Tasks : IsFiniteSet(b[u].newer) /\ IsFiniteSet({v \in Tasks : b[v].age < TombstoneTTL})
  BY DEF Remembers
<1> HIDE DEF n, c
<1>7. \A u \in Tasks : IsFiniteSet(c[u].newer)
  <2>1. IsFiniteSet(c[t].newer)
    <3>1. c[t].newer \subseteq {v \in Tasks : b[v].age < TombstoneTTL}
      BY <1>2, <1>5
    <3> QED
      BY <1>6, <3>1, FS_Subset
  <2>2. ASSUME NEW u \in Tasks \ {t}
        PROVE  IsFiniteSet(c[u].newer)
    <3>1. CASE b[u].age < TombstoneTTL
      <4>1. c[u].newer = b[u].newer \cup {t}
        BY <1>2, <3>1
      <4>2. IsFiniteSet(b[u].newer \cup {t})
        BY <1>6, FS_AddElement
      <4> QED
        BY <4>1, <4>2
    <3>2. CASE ~(b[u].age < TombstoneTTL)
      <4>1. c[u].newer = {}
        BY <1>2, <3>2 DEF Forgotten
      <4> QED
        BY <4>1, FS_EmptySet
    <3> QED
      BY <3>1, <3>2
  <2> QED
    BY <2>1, <2>2
<1>8. IsFiniteSet({u \in Tasks : c[u].age < TombstoneTTL})
  <2>1. {u \in Tasks : c[u].age < TombstoneTTL} \subseteq {u \in Tasks : b[u].age < TombstoneTTL} \cup {t}
    BY <1>2, <1>4, <1>5 DEF Forgotten
  <2>2. IsFiniteSet({u \in Tasks : b[u].age < TombstoneTTL} \cup {t})
    BY <1>6, FS_AddElement
  <2> QED
    BY <2>1, <2>2, FS_Subset
<1>9. IsFiniteSet(DOMAIN n)
  BY <1>1, FS_AddElement DEF Remembers
<1>10. ASSUME NEW u \in Tasks, c[u].age < TombstoneTTL, Cardinality(c[u].newer) < MaxTombstones
       PROVE  u \in DOMAIN n /\ n[u] = c[u].age
  <2>1. CASE u = t
    BY <1>1, <1>2, <2>1
  <2>2. CASE u # t
    <3>1. b[u].age < TombstoneTTL /\ c[u].age = b[u].age /\ c[u].newer = b[u].newer \cup {t}
      BY <1>2, <1>5, <1>10, <2>2 DEF Forgotten
    <3>2. Cardinality(b[u].newer) <= Cardinality(c[u].newer)
      BY <1>7, <3>1, FS_Subset
    <3>3. Cardinality(b[u].newer) \in Nat /\ Cardinality(c[u].newer) \in Nat /\ MaxTombstones \in Nat
      BY <1>6, <1>7, FS_CardinalityType, ExecutorAssumption
    <3>4. Cardinality(b[u].newer) < MaxTombstones
      BY <1>10, <3>2, <3>3
    <3> QED
      BY <1>1, <2>2, <3>1, <3>4 DEF Remembers
  <2> QED
    BY <2>1, <2>2
<1>11. ASSUME NEW u \in DOMAIN n, n[u] < TombstoneTTL
       PROVE  c[u].age = n[u]
  BY <1>1, <1>2, <1>3, <1>11 DEF Remembers
<1>12. ASSUME NEW u \in DOMAIN n, NEW v \in DOMAIN n, u # v, n[u] < TombstoneTTL, n[v] <= n[u]
       PROVE  v \in c[u].newer
  <2>1. CASE u = t
    <3>1. m[v] = 0 /\ v \in DOMAIN m
      BY <1>1, <1>3, <1>12, <2>1
    <3> QED
      BY <1>2, <1>3, <1>5, <1>12, <2>1, <3>1 DEF Remembers
  <2>2. CASE u # t
    <3>1. u \in DOMAIN m /\ m[u] < TombstoneTTL /\ b[u].age = m[u]
      BY <1>1, <1>12, <2>2 DEF Remembers
    <3>2. c[u].newer = b[u].newer \cup {t}
      BY <1>2, <1>3, <2>2, <3>1
    <3>3. v # t => v \in DOMAIN m /\ m[v] <= m[u]
      BY <1>1, <1>12, <2>2
    <3> QED
      BY <1>12, <3>1, <3>2, <3>3 DEF Remembers
  <2> QED
    BY <2>1, <2>2
<1> QED
  BY <1>7, <1>8, <1>9, <1>10, <1>11, <1>12 DEF Remembers, n, c

(* What the trim drops has been overtaken by all that stays.                *)
LEMMA TrimmedRemembers ==
    ASSUME NEW m \in Tombstones, NEW b \in History, NEW t \in DOMAIN m, Remembers(m, b),
           m[t] = 0, \A u \in DOMAIN m : m[u] < TombstoneTTL, NEW n \in Trimmed(m, t)
    PROVE  Remembers(n, b)
<1>1. CASE n = m
  BY <1>1
<1>2. ASSUME NEW u \in DOMAIN m \ {t}, n = Without(m, u),
             \A v \in DOMAIN m \ {t} : m[v] <= m[u], ~(Cardinality(DOMAIN m) <= MaxTombstones)
      PROVE  Remembers(n, b)
  <2>1. DOMAIN n = DOMAIN m \ {u} /\ \A v \in DOMAIN n : n[v] = m[v]
    BY <1>2 DEF Without
  <2>2. DOMAIN m \subseteq Tasks /\ \A v \in DOMAIN m : m[v] \in 0 .. TombstoneTTL
    BY TombstoneAges
  <2>3. DOMAIN m \ {u} \subseteq b[u].newer
    BY <1>2, <2>2 DEF Remembers
  <2>4. IsFiniteSet(DOMAIN m) /\ IsFiniteSet(b[u].newer)
    BY <2>2 DEF Remembers
  <2>5. /\ IsFiniteSet(DOMAIN m \ {u})
        /\ Cardinality(DOMAIN m \ {u}) = Cardinality(DOMAIN m) - 1
    BY <2>4, FS_RemoveElement
  <2>6. Cardinality(DOMAIN m \ {u}) <= Cardinality(b[u].newer)
    BY <2>3, <2>4, FS_Subset
  <2>7. Cardinality(b[u].newer) >= MaxTombstones
    <3>1. Cardinality(b[u].newer) \in Nat /\ Cardinality(DOMAIN m) \in Nat /\ MaxTombstones \in Nat
      BY <2>4, FS_CardinalityType, ExecutorAssumption
    <3> QED
      BY <1>2, <2>5, <2>6, <3>1
  <2>8. ~(Cardinality(b[u].newer) < MaxTombstones)
    <3>1. Cardinality(b[u].newer) \in Nat /\ MaxTombstones \in Nat
      BY <2>4, FS_CardinalityType, ExecutorAssumption
    <3> QED
      BY <2>7, <3>1
  <2> QED
    BY <2>1, <2>5, <2>8 DEF Remembers
<1> QED
  BY <1>1, <1>2 DEF Trimmed

LEMMA OlderRemembers ==
    ASSUME NEW m \in Tombstones, NEW b \in History, Remembers(m, b)
    PROVE  Remembers(Older(m), Aged(b))
<1> DEFINE n == Older(m)
           c == Aged(b)
<1>1. /\ DOMAIN n = DOMAIN m
      /\ \A u \in DOMAIN m : n[u] = IF m[u] < TombstoneTTL THEN m[u] + 1 ELSE m[u]
  BY DEF Older
<1>2. DOMAIN m \subseteq Tasks /\ \A u \in DOMAIN m : m[u] \in 0 .. TombstoneTTL
  BY TombstoneAges
<1>3. TombstoneTTL \in Nat \ {0}
  BY ExecutorAssumption
<1>4. \A u \in Tasks : b[u] \in Entry /\ b[u].age \in 0 .. TombstoneTTL
  BY DEF History, Entry
<1>5. \A u \in Tasks :
         /\ b[u].age + 1 >= TombstoneTTL => c[u].age = TombstoneTTL /\ c[u].newer = {}
         /\ ~(b[u].age + 1 >= TombstoneTTL) => c[u].age = b[u].age + 1 /\ c[u].newer = b[u].newer
  <2>1. ASSUME NEW u \in Tasks, b[u].age + 1 >= TombstoneTTL
        PROVE  c[u].age = TombstoneTTL /\ c[u].newer = {}
    <3>1. c[u] = Forgotten
      BY <2>1 DEF Aged
    <3> QED
      BY <3>1 DEF Forgotten
  <2>2. ASSUME NEW u \in Tasks, ~(b[u].age + 1 >= TombstoneTTL)
        PROVE  c[u].age = b[u].age + 1 /\ c[u].newer = b[u].newer
    <3>1. c[u] = [b[u] EXCEPT !.age = @ + 1]
      BY <2>2 DEF Aged
    <3> QED
      BY <1>4, <3>1 DEF Entry
  <2> QED
    BY <2>1, <2>2
<1> HIDE DEF n, c
<1>6. ASSUME NEW u \in Tasks
      PROVE  IsFiniteSet(c[u].newer)
  <2>1. c[u].newer = {} \/ c[u].newer = b[u].newer
    BY <1>5
  <2>2. IsFiniteSet({}) /\ IsFiniteSet(b[u].newer)
    BY FS_EmptySet DEF Remembers
  <2> QED
    BY <2>1, <2>2
<1>7. IsFiniteSet({u \in Tasks : c[u].age < TombstoneTTL})
  <2>1. {u \in Tasks : c[u].age < TombstoneTTL} \subseteq {u \in Tasks : b[u].age < TombstoneTTL}
    BY <1>3, <1>4, <1>5
  <2> QED
    BY <2>1, FS_Subset DEF Remembers
<1>8. ASSUME NEW u \in Tasks, c[u].age < TombstoneTTL, Cardinality(c[u].newer) < MaxTombstones
      PROVE  u \in DOMAIN n /\ n[u] = c[u].age
  <2>1. c[u].age = b[u].age + 1 /\ c[u].newer = b[u].newer /\ b[u].age < TombstoneTTL
    BY <1>3, <1>4, <1>5, <1>8
  <2>2. u \in DOMAIN m /\ m[u] = b[u].age
    BY <1>8, <2>1 DEF Remembers
  <2> QED
    BY <1>1, <2>1, <2>2
<1>9. ASSUME NEW u \in DOMAIN n, n[u] < TombstoneTTL
      PROVE  m[u] + 1 = n[u] /\ m[u] < TombstoneTTL /\ c[u].age = n[u] /\ c[u].newer = b[u].newer
  <2>1. m[u] + 1 = n[u] /\ m[u] < TombstoneTTL
    BY <1>1, <1>2, <1>3, <1>9
  <2>2. b[u].age = m[u]
    BY <1>1, <2>1 DEF Remembers
  <2> QED
    BY <1>1, <1>2, <1>3, <1>5, <1>9, <2>1, <2>2
<1>10. ASSUME NEW u \in DOMAIN n, NEW v \in DOMAIN n, u # v, n[u] < TombstoneTTL, n[v] <= n[u]
       PROVE  v \in c[u].newer
  <2>1. m[u] < TombstoneTTL /\ c[u].newer = b[u].newer /\ m[u] + 1 = n[u]
    BY <1>9, <1>10
  <2>2. m[v] <= m[u]
    BY <1>1, <1>2, <1>3, <1>10, <2>1
  <2> QED
    BY <1>1, <1>10, <2>1, <2>2 DEF Remembers
<1> QED
  BY <1>1, <1>6, <1>7, <1>8, <1>9, <1>10 DEF Remembers, n, c

-----------------------------------------------------------------------------
(* The invariant.                                                           *)
TombstonesRemember ==
    /\ Remembers(completed, memory["finished"])
    /\ Remembers(cancelled, memory["cancelled"])

LEMMA HistoryType ==
    ASSUME MemoryTypeOK
    PROVE  memory["finished"] \in History /\ memory["cancelled"] \in History
BY DEF MemoryTypeOK, Ways, History, Entry

\* The steps that touch what is remembered.
LEMMA SweepKeeps ==
    ASSUME ExecutorTypeOK, MemoryTypeOK, TombstonesRemember, Sweep, UNCHANGED memory
    PROVE  TombstonesRemember'
BY HistoryType, SweptRemembers DEF ExecutorTypeOK, TombstonesRemember, Sweep

LEMMA FinishKeeps ==
    ASSUME ExecutorTypeOK, MemoryTypeOK, TombstonesRemember, NEW t \in Tasks,
           cancelled' = Swept(cancelled), Settle(t, "finished"),
           completed' \in Trimmed(Swept(Stamped(completed, t)), t)
    PROVE  TombstonesRemember'
<1> DEFINE b == memory["finished"]
           stamped == Stamped(completed, t)
           c == Settled(b, t)
<1>1. memory'["finished"] = c /\ memory'["cancelled"] = memory["cancelled"]
  BY DEF Settle, Settled, MemoryTypeOK, Ways
<1>2. stamped \in Tombstones /\ Swept(stamped) \in Tombstones
  BY StampedType, SweptType DEF ExecutorTypeOK
<1>3. b \in History /\ memory["cancelled"] \in History
  BY HistoryType
<1>4. MemoryTypeOK'
  BY MemoryStepTypes DEF Ways
<1>5. c \in History
  BY <1>1, <1>4 DEF MemoryTypeOK, Ways, History, Entry
<1>6. Remembers(stamped, c)
  BY <1>3, StampedRemembers DEF TombstonesRemember, ExecutorTypeOK
<1>7. /\ Remembers(Swept(stamped), c)
      /\ \A u \in DOMAIN Swept(stamped) : Swept(stamped)[u] < TombstoneTTL
  BY <1>2, <1>5, <1>6, SweptRemembers
<1>8. t \in DOMAIN Swept(stamped) /\ Swept(stamped)[t] = 0
  BY ExecutorAssumption DEF Swept, Stamped
<1>9. Remembers(Swept(cancelled), memory["cancelled"])
  BY <1>3, SweptRemembers DEF TombstonesRemember, ExecutorTypeOK
<1> HIDE DEF stamped, b, c
<1>10. Remembers(completed', c)
  BY <1>2, <1>5, <1>7, <1>8, TrimmedRemembers DEF stamped
<1> QED
  BY <1>1, <1>9, <1>10 DEF TombstonesRemember

LEMMA CancelKeeps ==
    ASSUME ExecutorTypeOK, MemoryTypeOK, TombstonesRemember, NEW t \in Tasks,
           CancelUnknown(t), Settle(t, "cancelled")
    PROVE  TombstonesRemember'
<1> DEFINE b == memory["cancelled"]
           swept == Swept(cancelled)
           stamped == Stamped(swept, t)
           c == Settled(b, t)
<1>1. memory'["cancelled"] = c /\ memory'["finished"] = memory["finished"]
  BY DEF Settle, Settled, MemoryTypeOK, Ways
<1>2. swept \in Tombstones /\ stamped \in Tombstones
  BY StampedType, SweptType DEF ExecutorTypeOK
<1>3. b \in History /\ memory["finished"] \in History
  BY HistoryType
<1>4. MemoryTypeOK'
  BY MemoryStepTypes DEF Ways
<1>5. c \in History
  BY <1>1, <1>4 DEF MemoryTypeOK, Ways, History, Entry
<1>6. Remembers(swept, b) /\ \A u \in DOMAIN swept : swept[u] < TombstoneTTL
  BY <1>3, SweptRemembers DEF TombstonesRemember, ExecutorTypeOK
<1>7. Remembers(stamped, c)
  BY <1>2, <1>3, <1>6, StampedRemembers
<1>8. t \in DOMAIN stamped /\ stamped[t] = 0 /\ \A u \in DOMAIN stamped : stamped[u] < TombstoneTTL
  BY <1>6, ExecutorAssumption DEF Stamped
<1>9. Remembers(Swept(completed), memory["finished"])
  BY <1>3, SweptRemembers DEF TombstonesRemember, ExecutorTypeOK
<1>10. cancelled' \in Trimmed(stamped, t) /\ completed' = Swept(completed)
  BY DEF CancelUnknown
<1> HIDE DEF stamped, swept, b, c
<1>11. Remembers(cancelled', c)
  BY <1>2, <1>5, <1>7, <1>8, <1>10, TrimmedRemembers
<1> QED
  BY <1>1, <1>9, <1>10, <1>11 DEF TombstonesRemember

LEMMA TickKeeps ==
    ASSUME ExecutorTypeOK, MemoryTypeOK, TombstonesRemember, AgeTombstones, AgeMemory
    PROVE  TombstonesRemember'
<1>1. /\ memory'["finished"] = Aged(memory["finished"])
      /\ memory'["cancelled"] = Aged(memory["cancelled"])
  BY DEF AgeMemory, Aged, Ways
<1> QED
  BY <1>1, HistoryType, OlderRemembers DEF AgeTombstones, TombstonesRemember, ExecutorTypeOK

LEMMA TombstoneStep == TypeOK /\ TombstonesRemember /\ [Next]_vars => TombstonesRemember'
<1> SUFFICES ASSUME TypeOK, TombstonesRemember, [Next]_vars
             PROVE  TombstonesRemember'
  OBVIOUS
<1>t. ExecutorTypeOK /\ MemoryTypeOK
  BY DEF TypeOK, MemoryTypeOK
<1>u. UNCHANGED <<cancelled, completed, memory>> => TombstonesRemember'
  BY DEF TombstonesRemember
<1>1. ASSUME NEW t \in Tasks, CancelDelivered(t)
      PROVE  TombstonesRemember'
  <2>1. CASE CancelRunning(t) /\ UNCHANGED memory
    BY <1>t, <2>1, SweepKeeps DEF CancelRunning
  <2>2. CASE CancelAgain(t) /\ UNCHANGED memory
    BY <1>t, <2>2, SweepKeeps DEF CancelAgain
  <2>3. CASE CancelUnknown(t) /\ Settle(t, "cancelled")
    BY <1>t, <2>3, CancelKeeps
  <2> QED
    BY <1>1, <2>1, <2>2, <2>3 DEF CancelDelivered
<1>2. CASE Streaming
  BY <1>1, <1>2, <1>u DEF Streaming, Connect, Deliver, StreamLost, StreamCancelled, CloseStream,
     StreamLoopReturns, executorVars
<1>3. ASSUME NEW g \in Goroutines, Admission(g)
      PROVE  TombstonesRemember'
  <2>1. CASE StartAccepts(g) \/ StartRefuses(g)
    BY <1>t, <2>1, SweepKeeps DEF StartAccepts, StartRefuses, Register, Refuse
  <2> QED
    BY <1>3, <1>u, <2>1 DEF Admission, AcquireTakes, AcquireParks, AcquireRetries, AcquireGivesUp,
       ReleaseRefused, executorVars
<1>4. ASSUME NEW g \in Goroutines, Execution(g)
      PROVE  TombstonesRemember'
  <2>1. CASE Finish(g)
    <3>1. CASE job[g] = NoID
      BY <1>u, <2>1, <3>1 DEF Finish, Unregister, executorVars
    <3>2. CASE job[g] # NoID
      <4>1. job[g] \in Tasks
        BY <3>2 DEF TypeOK, Ids
      <4> QED
        BY <1>t, <2>1, <3>2, <4>1, FinishKeeps DEF Finish, Unregister
    <3> QED
      BY <3>1, <3>2
  <2> QED
    BY <1>4, <1>u, <2>1 DEF Execution, Execute, UpgradePanics, Report, ReleaseSlot, executorVars
<1>5. CASE Shutdown
  BY <1>5, <1>u DEF Shutdown, SelectLeaves, MainStopsAccepting, StopAccepting, MainCancelsLoops,
     MainJoinsLoops, MainDrained, MainCancelsTasks, MainGivesUp, executorVars
<1>6. CASE Tick
  BY <1>t, <1>6, TickKeeps DEF Tick
<1>7. CASE (\E t \in Tasks, recorded \in BOOLEAN : PostCancelReport(t, recorded))
           \/ Signal \/ Terminated \/ UNCHANGED vars
  BY <1>7, <1>u DEF PostCancelReport, Signal, Terminated, vars, executorVars
<1> QED
  BY <1>2, <1>3, <1>4, <1>5, <1>6, <1>7 DEF Next

LEMMA InitiallyForgotten == Init => TombstonesRemember
<1> SUFFICES ASSUME Init PROVE TombstonesRemember
  OBVIOUS
<1>1. ASSUME NEW how \in Ways
      PROVE  Remembers(NoTombstones, memory[how])
  <2>1. \A u \in Tasks : memory[how][u].age = TombstoneTTL /\ memory[how][u].newer = {}
    BY DEF Init, Forgotten
  <2>2. DOMAIN NoTombstones = {}
    BY DEF NoTombstones
  <2>3. {u \in Tasks : memory[how][u].age < TombstoneTTL} = {}
    BY <2>1, ExecutorAssumption
  <2>4. ~(TombstoneTTL < TombstoneTTL)
    BY ExecutorAssumption
  <2>5. IsFiniteSet({})
    BY FS_EmptySet
  <2> QED
    BY <2>1, <2>2, <2>3, <2>4, <2>5 DEF Remembers
<1> QED
  BY <1>1 DEF Init, ExecutorInit, TombstonesRemember, Ways

-----------------------------------------------------------------------------
(* A Start that is accepted finds the id in neither map.                    *)
LEMMA OnlyForgottenStart ==
    ASSUME TypeOK, TombstonesRemember, [Next]_vars, NEW g \in Goroutines,
           pc[g] = "admitted", pc'[g] = "executing", job[g] # NoID, NEW how \in Ways
    PROVE  \/ memory[how][job[g]].age = TombstoneTTL
           \/ Cardinality(memory[how][job[g]].newer) >= MaxTombstones
<1> DEFINE t == job[g]
<1>1. StartAccepts(g)
  <2>1. PICK h \in Goroutines : StartAccepts(h) /\ pc' = [pc EXCEPT ![h] = "executing"]
    <3> USE DEF TypeOK, Go, GoroutineEnds, taskVars
    <3>1. ~Streaming
      BY DEF Streaming, Connect, Deliver, CancelDelivered, StreamLost, StreamCancelled, CloseStream,
         StreamLoopReturns
    <3>2. ~Shutdown
      BY DEF Shutdown, SelectLeaves, MainStopsAccepting, MainCancelsLoops, MainJoinsLoops,
         MainDrained, MainCancelsTasks, MainGivesUp
    <3>3. ASSUME NEW h \in Goroutines PROVE ~Execution(h)
      BY DEF Execution, Execute, UpgradePanics, Report, ReleaseSlot, Finish
    <3>4. ~((\E u \in Tasks, recorded \in BOOLEAN : PostCancelReport(u, recorded))
            \/ Signal \/ Tick \/ Terminated \/ UNCHANGED vars)
      BY DEF PostCancelReport, Signal, Tick, Terminated, vars
    <3>5. ASSUME NEW h \in Goroutines, Admission(h)
          PROVE  StartAccepts(h)
      BY <3>5 DEF Admission, AcquireTakes, AcquireParks, AcquireRetries, AcquireGivesUp,
         StartRefuses, ReleaseRefused
    <3> QED
      BY <3>1, <3>2, <3>3, <3>4, <3>5 DEF Next, StartAccepts
  <2> QED
    BY <2>1 DEF TypeOK
<1>2. t \in Tasks
  BY DEF TypeOK, Ids
<1>3. t \notin DOMAIN Swept(cancelled) /\ t \notin DOMAIN Swept(completed)
  BY <1>1 DEF StartAccepts, Register, MayStart
<1>4. PICK m \in {cancelled, completed} : Remembers(m, memory[how]) /\ t \notin DOMAIN Swept(m)
  BY <1>3 DEF TombstonesRemember, Ways
<1>5. memory[how][t].age \in 0 .. TombstoneTTL /\ IsFiniteSet(memory[how][t].newer)
  <2>1. memory[how] \in History
    BY HistoryType DEF TypeOK, MemoryTypeOK, Ways
  <2> QED
    BY <1>2, <1>4, <2>1 DEF Remembers, History, Entry
<1>6. ~(memory[how][t].age < TombstoneTTL /\ Cardinality(memory[how][t].newer) < MaxTombstones)
  BY <1>2, <1>4 DEF Remembers, Swept
<1>7. Cardinality(memory[how][t].newer) \in Nat /\ MaxTombstones \in Nat /\ TombstoneTTL \in Nat
  BY <1>5, FS_CardinalityType, ExecutorAssumption
<1> QED
  BY <1>5, <1>6, <1>7

(* For any lifetime, any bound on the maps and any number of redeliveries   *)
(* and cancels, a task that finished or was cancelled starts again only     *)
(* after its tombstone expired or MaxTombstones ids were settled after it   *)
(* (Start, trimTaskTombstonesLocked:agent_task_executor.go).                *)
THEOREM RememberedTasksStayDown == Spec => NoStartWhileRemembered
<1>1. TypeOK /\ TombstonesRemember /\ [Next]_vars =>
        [\A g \in Goroutines :
            (pc[g] = "admitted" /\ pc'[g] = "executing" /\ job[g] # NoID) =>
                \A how \in Ways :
                    \/ memory[how][job[g]].age = TombstoneTTL
                    \/ Cardinality(memory[how][job[g]].newer) >= MaxTombstones]_vars
  BY OnlyForgottenStart
<1> QED
  BY <1>1, InitiallyForgotten, TombstoneStep, TypeCorrect, PTL DEF Spec, NoStartWhileRemembered
=============================================================================
