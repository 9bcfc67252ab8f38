------------------------ MODULE ContainerUpgradeProofs ------------------------
(***************************************************************************)
(* Proofs about ContainerUpgrade, for any set of releases.                 *)
(***************************************************************************)
EXTENDS ContainerUpgrade, TLAPS

Busy == upd \in {"backup", "copying", "install", "mark"}
Candidate == active \in Releases \ proven

(* The supervisor never loses the binary it selected, whatever happens.     *)
SelectionRuns ==
    /\ sup \in {"read", "judge", "launch", "waiting"} /\ path = "active" => Runnable(active)
    /\ sup = "discard" /\ judged /\ path = "active" => Runnable(active)
    /\ sup \in {"judge", "discard", "launch", "waiting", "settle"} => launched # Absent
    /\ sup \in {"waiting", "settle"} => ~judged
    /\ timer = "removing" => sup = "waiting"
    /\ Busy => target \in Releases
    /\ sup # "stranded"

\* While an updater writes, the agent that started it runs, no candidate
\* waits, and what was backed up is not what is being installed.
UpdaterOrderly ==
    /\ Busy => sup = "waiting" /\ runs # Absent /\ marker = Absent
    /\ upd \in {"backup", "copying"} =>
            Content(source) \in proven /\ Content(source) # target
    /\ upd \in {"install", "mark"} => backup \in proven /\ backup # target
    /\ Busy /\ upd # "mark" => ~Candidate
    /\ upd = "mark" => active = target /\ target \notin proven

\* What the marker says at each point of the supervisor's loop.
MarkerOrderly ==
    /\ Candidate => marker = active \/ upd = "mark"
    /\ marker # Absent => marker \notin proven
    /\ sup \in {"launch", "waiting", "settle"} /\ marker # Absent => active = marker
    /\ sup = "discard" => active # marker /\ judged
    /\ sup = "unmark" => ~Candidate
    /\ sup = "swap" => staged \in proven \cup {Torn}
    /\ sup \in {"select", "read"} /\ judged => marker = Absent
    /\ sup \in {"judge", "discard", "launch"} => launched = Content(path)
    /\ timer = "removing" => sup = "waiting" /\ marker = launched /\ active = launched

BackupOrderly ==
    /\ backup \in proven \cup {Absent, Torn}
    /\ Candidate => backup \in proven

Orderly == UpdaterOrderly /\ MarkerOrderly /\ BackupOrderly

\* What the supervisor is about to roll back was never activated, or the marker
\* names it once more.  This holds of every execution, disturbed or not: a
\* binary installed behind the supervisor's back is not in proven, and an
\* updater left behind by its agent marks no binary that it did not install.
RollbackDeserved ==
    /\ sup \in {"judge", "discard", "launch", "waiting", "settle"} /\ launched \in Releases =>
            active = launched \/ active \notin proven
    /\ sup \in {"rollback", "swap"} => active \notin proven \/ marker = active
    /\ upd = "mark" => active \notin proven \/ marker = Absent \/ sup = "unmark"

IInv ==
    /\ TypeOK
    /\ Image \in proven
    /\ SelectionRuns
    /\ ~disturbed => Orderly

-----------------------------------------------------------------------------
USE DEF Image, Absent, Torn

LEMMA TypeStep == TypeOK /\ SelectionRuns /\ [Next]_vars => TypeOK'
<1> SUFFICES ASSUME TypeOK, SelectionRuns, [Next]_vars
             PROVE  TypeOK'
  OBVIOUS
<1> USE ReleasesAssumption DEF TypeOK, SelectionRuns, Busy, Binaries, Versions, Runnable, Version, Content,
        SupGo, UpdGo, files, supervisorVars, agentVars, updaterVars, history
<1>1. CASE Select
  BY <1>1 DEF Select
<1>2. CASE ReadVersion
  BY <1>2 DEF ReadVersion
<1>3. CASE Judge
  <2>1. sup' \in {"launch", "rollback", "discard"}
    BY <1>3 DEF Judge
  <2>2. judged' \in BOOLEAN
    BY <1>3 DEF Judge
  <2>3. QED
    BY <1>3, <2>1, <2>2 DEF Judge
<1>4. CASE Discard
  BY <1>4 DEF Discard
<1>5. CASE Launch
  <2>1. sup' \in {"stranded", "waiting"} /\ judged' \in BOOLEAN
    BY <1>5 DEF Launch
  <2>2. runs' \in Versions \cup {Absent} /\ timer' \in {"none", "sleeping", "removing", "over"}
    BY <1>5 DEF Launch
  <2>3. QED
    BY <1>5, <2>1, <2>2 DEF Launch
<1>6. CASE RollbackStages
  BY <1>6 DEF RollbackStages
<1>7. CASE RollbackSwaps
  BY <1>7 DEF RollbackSwaps
<1>8. CASE RollbackRemoves
  BY <1>8 DEF RollbackRemoves
<1>9. CASE RollbackUnmarks
  BY <1>9 DEF RollbackUnmarks
<1>10. CASE Reap
  BY <1>10 DEF Reap
<1>11. CASE Settle
  BY <1>11 DEF Settle
<1>12. CASE TimerChecks
  BY <1>12 DEF TimerChecks
<1>13. CASE TimerRemoves
  BY <1>13 DEF TimerRemoves
<1>14. CASE BackupBegins
  BY <1>14 DEF BackupBegins
<1>15. CASE BackupEnds
  BY <1>15 DEF BackupEnds
<1>16. CASE BackupSkipped
  BY <1>16 DEF BackupSkipped
<1>17. CASE Install
  BY <1>17 DEF Install
<1>18. CASE Mark
  BY <1>18 DEF Mark
<1>19. CASE UpdaterEnds
  BY <1>19 DEF UpdaterEnds
<1>20. CASE AgentExits
  BY <1>20 DEF AgentExits
<1>21. CASE UpdaterKilled
  BY <1>21 DEF UpdaterKilled
<1>22. CASE ContainerRestarts
  BY <1>22 DEF ContainerRestarts
<1>23. CASE \E v \in Releases : UpdaterStarts(v)
  BY <1>23 DEF UpdaterStarts
<1>24. CASE UNCHANGED vars
  BY <1>24 DEF vars
<1>25. QED
  BY <1>1, <1>2, <1>3, <1>4, <1>5, <1>6, <1>7, <1>8, <1>9, <1>10, <1>11, <1>12, <1>13, <1>14, <1>15, <1>16, <1>17, <1>18, <1>19, <1>20, <1>21, <1>22, <1>23, <1>24
     DEF Next, Supervise, Timer, Update

LEMMA SelectionStep == TypeOK /\ SelectionRuns /\ [Next]_vars => SelectionRuns'
<1> SUFFICES ASSUME TypeOK, SelectionRuns, [Next]_vars
             PROVE  SelectionRuns'
  OBVIOUS
<1> USE ReleasesAssumption DEF SelectionRuns, Busy, TypeOK, Binaries, Versions, Runnable,
        Version, Content, SupGo, UpdGo, files, supervisorVars, agentVars, updaterVars, history
<1>1. CASE Select
  BY <1>1 DEF Select
<1>2. CASE ReadVersion
  BY <1>2 DEF ReadVersion
<1>3. CASE Judge
  BY <1>3 DEF Judge
<1>4. CASE Discard
  BY <1>4 DEF Discard
<1>5. CASE Launch
  BY <1>5 DEF Launch
<1>6. CASE RollbackStages
  BY <1>6 DEF RollbackStages
<1>7. CASE RollbackSwaps
  BY <1>7 DEF RollbackSwaps
<1>8. CASE RollbackRemoves
  BY <1>8 DEF RollbackRemoves
<1>9. CASE RollbackUnmarks
  BY <1>9 DEF RollbackUnmarks
<1>10. CASE Reap
  BY <1>10 DEF Reap
<1>11. CASE Settle
  <2>1. CASE marker = Absent
    BY <1>11, <2>1 DEF Settle
  <2>2. CASE marker # Absent /\ marker = launched
    BY <1>11, <2>2 DEF Settle
  <2>3. CASE marker \notin {Absent, launched}
    BY <1>11, <2>3 DEF Settle
  <2>4. QED
    BY <2>1, <2>2, <2>3
<1>12. CASE TimerChecks
  BY <1>12 DEF TimerChecks
<1>13. CASE TimerRemoves
  BY <1>13 DEF TimerRemoves
<1>14. CASE BackupBegins
  BY <1>14 DEF BackupBegins
<1>15. CASE BackupEnds
  BY <1>15 DEF BackupEnds
<1>16. CASE BackupSkipped
  BY <1>16 DEF BackupSkipped
<1>17. CASE Install
  BY <1>17 DEF Install
<1>18. CASE Mark
  BY <1>18 DEF Mark
<1>19. CASE UpdaterEnds
  BY <1>19 DEF UpdaterEnds
<1>20. CASE AgentExits
  BY <1>20 DEF AgentExits
<1>21. CASE UpdaterKilled
  BY <1>21 DEF UpdaterKilled
<1>22. CASE ContainerRestarts
  BY <1>22 DEF ContainerRestarts
<1>23. CASE \E v \in Releases : UpdaterStarts(v)
  BY <1>23 DEF UpdaterStarts
<1>24. CASE UNCHANGED vars
  BY <1>24 DEF vars
<1>25. QED
  BY <1>1, <1>2, <1>3, <1>4, <1>5, <1>6, <1>7, <1>8, <1>9, <1>10, <1>11, <1>12, <1>13, <1>14, <1>15, <1>16, <1>17, <1>18, <1>19, <1>20, <1>21, <1>22, <1>23, <1>24
     DEF Next, Supervise, Timer, Update

LEMMA OrderlyStep == IInv /\ [Next]_vars => (~disturbed' => Orderly')
<1> SUFFICES ASSUME IInv, [Next]_vars, ~disturbed'
             PROVE  Orderly'
  OBVIOUS
<1> USE ReleasesAssumption DEF IInv, SelectionRuns, TypeOK, Binaries, Versions, Runnable,
        Version, Content, SupGo, UpdGo, files, supervisorVars, agentVars, updaterVars, history,
        Orderly, UpdaterOrderly, MarkerOrderly, BackupOrderly, Busy, Candidate, Settled
<1>1. CASE Select
  BY <1>1 DEF Select
<1>2. CASE ReadVersion
  BY <1>2 DEF ReadVersion
<1>3. CASE Judge
  BY <1>3 DEF Judge
<1>4. CASE Discard
  BY <1>4 DEF Discard
<1>5. CASE Launch
  BY <1>5 DEF Launch
<1>6. CASE RollbackStages
  BY <1>6 DEF RollbackStages
<1>7. CASE RollbackSwaps
  BY <1>7 DEF RollbackSwaps
<1>8. CASE RollbackRemoves
  BY <1>8 DEF RollbackRemoves
<1>9. CASE RollbackUnmarks
  BY <1>9 DEF RollbackUnmarks
<1>10. CASE Reap
  BY <1>10 DEF Reap
<1>11. CASE Settle
  <2>1. CASE marker = Absent
    BY <1>11, <2>1 DEF Settle
  <2>2. CASE marker # Absent /\ marker = launched
    BY <1>11, <2>2 DEF Settle
  <2>3. CASE marker \notin {Absent, launched}
    BY <1>11, <2>3 DEF Settle
  <2>4. QED
    BY <2>1, <2>2, <2>3
<1>12. CASE TimerChecks
  BY <1>12 DEF TimerChecks
<1>13. CASE TimerRemoves
  BY <1>13 DEF TimerRemoves
<1>14. CASE BackupBegins
  BY <1>14 DEF BackupBegins
<1>15. CASE BackupEnds
  BY <1>15 DEF BackupEnds
<1>16. CASE BackupSkipped
  BY <1>16 DEF BackupSkipped
<1>17. CASE Install
  BY <1>17 DEF Install
<1>18. CASE Mark
  BY <1>18 DEF Mark
<1>19. CASE UpdaterEnds
  BY <1>19 DEF UpdaterEnds
<1>20. CASE AgentExits
  <2>1. ~disturbed /\ upd \in {"idle", "done"}
    BY <1>20 DEF AgentExits
  <2>2. QED
    BY <1>20, <2>1 DEF AgentExits
<1>21. CASE UpdaterKilled
  BY <1>21 DEF UpdaterKilled
<1>22. CASE ContainerRestarts
  BY <1>22 DEF ContainerRestarts
<1>23. CASE \E v \in Releases : UpdaterStarts(v)
  BY <1>23 DEF UpdaterStarts
<1>24. CASE UNCHANGED vars
  BY <1>24 DEF vars
<1>25. QED
  BY <1>1, <1>2, <1>3, <1>4, <1>5, <1>6, <1>7, <1>8, <1>9, <1>10, <1>11, <1>12, <1>13, <1>14, <1>15, <1>16, <1>17, <1>18, <1>19, <1>20, <1>21, <1>22, <1>23, <1>24
     DEF Next, Supervise, Timer, Update

LEMMA DeservedStep == TypeOK /\ SelectionRuns /\ RollbackDeserved /\ [Next]_vars => RollbackDeserved'
<1> SUFFICES ASSUME TypeOK, SelectionRuns, RollbackDeserved, [Next]_vars
             PROVE  RollbackDeserved'
  OBVIOUS
<1> USE ReleasesAssumption DEF SelectionRuns, RollbackDeserved, TypeOK, Binaries, Versions, Runnable,
        Version, Content, SupGo, UpdGo, files, supervisorVars, agentVars, updaterVars, history, Busy
<1>1. CASE Select
  BY <1>1 DEF Select
<1>2. CASE ReadVersion
  BY <1>2 DEF ReadVersion
<1>3. CASE Judge
  BY <1>3 DEF Judge
<1>4. CASE Discard
  BY <1>4 DEF Discard
<1>5. CASE Launch
  BY <1>5 DEF Launch
<1>6. CASE RollbackStages
  BY <1>6 DEF RollbackStages
<1>7. CASE RollbackSwaps
  BY <1>7 DEF RollbackSwaps
<1>8. CASE RollbackRemoves
  BY <1>8 DEF RollbackRemoves
<1>9. CASE RollbackUnmarks
  BY <1>9 DEF RollbackUnmarks
<1>10. CASE Reap
  BY <1>10 DEF Reap
<1>11. CASE Settle
  <2>1. CASE marker = Absent
    BY <1>11, <2>1 DEF Settle
  <2>2. CASE marker # Absent /\ marker = launched
    BY <1>11, <2>2 DEF Settle
  <2>3. CASE marker \notin {Absent, launched}
    BY <1>11, <2>3 DEF Settle
  <2>4. QED
    BY <2>1, <2>2, <2>3
<1>12. CASE TimerChecks
  BY <1>12 DEF TimerChecks
<1>13. CASE TimerRemoves
  BY <1>13 DEF TimerRemoves
<1>14. CASE BackupBegins
  BY <1>14 DEF BackupBegins
<1>15. CASE BackupEnds
  BY <1>15 DEF BackupEnds
<1>16. CASE BackupSkipped
  BY <1>16 DEF BackupSkipped
<1>17. CASE Install
  BY <1>17 DEF Install
<1>18. CASE Mark
  BY <1>18 DEF Mark
<1>19. CASE UpdaterEnds
  BY <1>19 DEF UpdaterEnds
<1>20. CASE AgentExits
  BY <1>20 DEF AgentExits
<1>21. CASE UpdaterKilled
  BY <1>21 DEF UpdaterKilled
<1>22. CASE ContainerRestarts
  BY <1>22 DEF ContainerRestarts
<1>23. CASE \E v \in Releases : UpdaterStarts(v)
  BY <1>23 DEF UpdaterStarts
<1>24. CASE UNCHANGED vars
  BY <1>24 DEF vars
<1>25. QED
  BY <1>1, <1>2, <1>3, <1>4, <1>5, <1>6, <1>7, <1>8, <1>9, <1>10, <1>11, <1>12, <1>13, <1>14, <1>15, <1>16, <1>17, <1>18, <1>19, <1>20, <1>21, <1>22, <1>23, <1>24
     DEF Next, Supervise, Timer, Update

-----------------------------------------------------------------------------
LEMMA Initially == Init => IInv
<1> SUFFICES ASSUME Init
             PROVE  IInv
  OBVIOUS
<1>1. TypeOK
  BY DEF Init, TypeOK, Binaries, Versions
<1>2. Image \in proven /\ SelectionRuns
  BY DEF Init, SelectionRuns, Busy
<1>3. UpdaterOrderly /\ MarkerOrderly /\ BackupOrderly
  BY ReleasesAssumption DEF Init, UpdaterOrderly, MarkerOrderly, BackupOrderly, Busy, Candidate
<1>4. QED
  BY <1>1, <1>2, <1>3 DEF IInv, Orderly

LEMMA ImageStaysProven == IInv /\ [Next]_vars => (Image \in proven)'
<1> SUFFICES ASSUME IInv, [Next]_vars
             PROVE  Image \in proven'
  OBVIOUS
<1>1. CASE TimerRemoves
  BY <1>1 DEF TimerRemoves, IInv
<1>2. CASE Install
  BY <1>2, ReleasesAssumption DEF Install, UpdGo, IInv, SelectionRuns, Busy
<1>3. CASE UNCHANGED proven
  BY <1>3 DEF IInv
<1>4. QED
  BY <1>1, <1>2, <1>3
     DEF Next, Supervise, Timer, Update, vars, history, Select, ReadVersion, Judge, Discard,
         Launch, RollbackStages, RollbackSwaps, RollbackRemoves, RollbackUnmarks, Reap, Settle,
         TimerChecks, BackupBegins, BackupEnds, BackupSkipped, Mark, UpdaterEnds,
         UpdaterStarts, AgentExits, UpdaterKilled, ContainerRestarts

LEMMA Invariance == Spec => []IInv
<1>1. IInv /\ [Next]_vars => IInv'
  BY TypeStep, SelectionStep, OrderlyStep, ImageStaysProven DEF IInv
<1>2. QED
  BY Initially, <1>1, PTL DEF Spec

(* Every variable keeps its type; in particular the marker only ever names  *)
(* a release and a binary that runs was never torn.                         *)
THEOREM UpgradeTypeCorrect == Spec => []TypeOK
<1>1. IInv => TypeOK
  BY DEF IInv
<1>2. QED
  BY Invariance, <1>1, PTL

(* For any releases and any interruptions, the supervisor always finds a    *)
(* binary that runs.                                                        *)
THEOREM SupervisorSurvives == Spec => []NeverStranded
<1>1. IInv => NeverStranded
  BY DEF IInv, SelectionRuns, NeverStranded
<1>2. QED
  BY Invariance, <1>1, PTL

(* While nothing unexpected happened, a candidate always has a backup that  *)
(* passed its own stability window.                                         *)
THEOREM BackupCorrect == Spec => []BackupIsProven
<1>1. IInv => BackupIsProven
  BY DEF IInv, Orderly, BackupOrderly, Candidate, BackupIsProven
<1>2. QED
  BY Invariance, <1>1, PTL

(* And while nothing unexpected happened, the supervisor launches what was  *)
(* not activated only on probation, with the backup to go back to.          *)
THEOREM CandidatesWatched == Spec => ExpectedCandidatesAreOnProbation
<1>1. IInv /\ [Next]_vars =>
        [(sup = "launch" /\ sup' = "waiting") => OnProbation \/ disturbed]_vars
  <2> SUFFICES ASSUME IInv, sup = "launch", ~disturbed
               PROVE  OnProbation
    BY DEF vars, supervisorVars
  <2>1. launched = Content(path) /\ ~Busy
    BY DEF IInv, Orderly, MarkerOrderly, UpdaterOrderly
  <2>2. CASE path # "active"
    BY <2>1, <2>2 DEF Content, OnProbation, IInv
  <2>3. CASE path = "active"
    <3>1. launched = active /\ launched \in Releases \cup {Image}
      BY <2>1, <2>3 DEF Content, IInv, SelectionRuns, Runnable, Versions
    <3>2. Candidate => marker = active
      BY <2>1 DEF IInv, Orderly, MarkerOrderly, Busy
    <3>3. QED
      BY <3>1, <3>2 DEF OnProbation, Candidate, IInv
  <2>4. QED
    BY <2>2, <2>3
<1>2. QED
  BY Invariance, <1>1, PTL DEF Spec, ExpectedCandidatesAreOnProbation

(* For any releases and any interruptions, no rollback replaces a version   *)
(* that passed its stability window, unless the marker names it again.      *)
THEOREM RollbackSparesActivated == Spec => ActivatedStays
<1> DEFINE Inv == TypeOK /\ SelectionRuns /\ RollbackDeserved
<1>1. Init => Inv
  <2>1. Init => RollbackDeserved
    BY DEF Init, RollbackDeserved
  <2>2. QED
    BY Initially, <2>1 DEF IInv
<1>2. Inv /\ [Next]_vars => Inv'
  BY TypeStep, SelectionStep, DeservedStep
<1>3. Inv /\ [Next]_vars =>
        [(sup \in {"swap", "rollback"} /\ active' # active) =>
              active \notin proven \/ marker = active]_vars
  BY DEF RollbackDeserved
<1> HIDE DEF Inv
<1>4. QED
  BY <1>1, <1>2, <1>3, PTL DEF Spec, ActivatedStays
=============================================================================
