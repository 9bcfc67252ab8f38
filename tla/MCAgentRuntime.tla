---------------------------- MODULE MCAgentRuntime ----------------------------
(* Model values and symmetry for the runs of AgentRuntime.                  *)
EXTENDS AgentRuntime, TLC

\* Goroutines are interchangeable; so are ordinary task ids.
Symmetry == Permutations(Goroutines) \cup Permutations(Tasks)
GoroutineSymmetry == Permutations(Goroutines)

(* What the control plane holds and which cancel reports are pending: no    *)
(* other variable depends on them, so a run whose properties do not mention *)
(* them need not tell states apart by them.                                 *)
WithoutReports ==
    <<limiterVars, executorVars, taskVars, stream, mainVars, restartRequested, memory>>
=============================================================================
