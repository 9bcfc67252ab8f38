--------------------------- MODULE ContainerUpgrade ---------------------------
(***************************************************************************)
(* Upgrades inside a container.  A supervisor (container-entrypoint.sh)    *)
(* runs the agent, the agent runs the updater (update-nodeping-agent.sh),  *)
(* and the three share files that outlive them:                            *)
(*   active   /opt/nodeping-agent/nodeping-agent                           *)
(*   backup   /opt/nodeping-agent/nodeping-agent.previous                  *)
(*   marker   /var/lib/nodeping-agent/updates/activation.pending           *)
(* Every write to one of them is a step; an agent may die, an updater be   *)
(* killed by its task's deadline and the container stop between any two.   *)
(*                                                                         *)
(* A binary is its version.  Downloading and verifying a release is one    *)
(* choice of a version; at most one updater gets past the update lock.     *)
(***************************************************************************)
EXTENDS Integers

CONSTANT Releases   \* versions the control plane asks for, in semver order

ASSUME ReleasesAssumption == Releases \subseteq Nat \ {0}

Image == 0     \* FALLBACK_PATH, the binary of the image
Absent == -1   \* no such file; also the empty version
Torn == -2     \* a file that is executable but reports no version

Versions == Releases \cup {Image}
Binaries == Versions \cup {Absent, Torn}

VARIABLES
    active,     \* $ACTIVE_PATH, the updater's $INSTALL_PATH
    backup,     \* $BACKUP_PATH
    marker,     \* the version in $ACTIVATION_FILE
    sup,        \* where the supervisor's loop is
    path,       \* $binary, which the agent gets as NODEPING_AGENT_ACTIVE_BINARY
    launched,   \* $launched_version
    staged,     \* ${ACTIVE_PATH}.rollback
    judged,     \* this pass of the loop has rolled back before its launch
    runs,       \* the version of the running agent, Absent when none runs
    timer,      \* the subshell that waits for the stability window
    upd,        \* where the updater is
    source,     \* its $ACTIVE_BINARY
    target,     \* the version it installs
    proven,     \* history: the image, and what was activated since it was installed
    disturbed   \* history: an interruption or request the design does not expect

files == <<active, backup, marker>>
supervisorVars == <<sup, path, launched, staged, judged>>
agentVars == <<runs, timer>>
updaterVars == <<upd, source, target>>
history == <<proven, disturbed>>
vars == <<files, supervisorVars, agentVars, updaterVars, history>>

Runnable(b) == b \in Versions

\* binary_version: empty for what is missing and for what does not run.
Version(b) == IF Runnable(b) THEN b ELSE Absent

Content(p) == IF p = "active" THEN active ELSE Image

SupGo(from, to) == sup = from /\ sup' = to
UpdGo(from, to) == upd = from /\ upd' = to

-----------------------------------------------------------------------------
(* The supervisor's loop, up to the launch.                                 *)

\* Mutant: being executable is enough, the version is not asked for.
SelectExecutable ==
    /\ SupGo("select", "read")
    /\ path' = IF active # Absent THEN "active" ELSE "fallback"
    /\ UNCHANGED <<files, launched, staged, judged, agentVars, updaterVars, history>>

\* select_binary
Select ==
    /\ SupGo("select", "read")
    /\ path' = IF Runnable(active) THEN "active" ELSE "fallback"
    /\ UNCHANGED <<files, launched, staged, judged, agentVars, updaterVars, history>>

\* launched_version="$(binary_version "$binary")"
ReadVersion ==
    /\ SupGo("read", IF judged THEN "launch" ELSE "judge")
    /\ launched' = Version(Content(path))
    /\ UNCHANGED <<files, path, staged, judged, agentVars, updaterVars, history>>

\* Mutant: any marker for another version is taken for a failed candidate.
JudgeRollsBack ==
    /\ sup = "judge"
    /\ sup' = IF marker \in {Absent, launched} THEN "launch" ELSE "rollback"
    /\ judged' = (marker \notin {Absent, launched})
    /\ UNCHANGED <<files, path, launched, staged, agentVars, updaterVars, history>>

\* A marker for another version than the one about to run: that version does
\* not run at all, is not installed any more, or was installed just now.
Judge ==
    /\ sup = "judge"
    /\ \/ /\ marker \in {Absent, launched}
          /\ sup' = "launch" /\ UNCHANGED judged
       \/ /\ marker \notin {Absent, launched}
          /\ \/ ~Runnable(active) /\ sup' = "rollback" /\ judged' = TRUE
             \/ Runnable(active) /\ active # marker /\ sup' = "discard" /\ judged' = TRUE
             \/ active = marker /\ sup' = "launch" /\ UNCHANGED judged
    /\ UNCHANGED <<files, path, launched, staged, agentVars, updaterVars, history>>

\* rm -f of a stale marker, whatever it names by now.
Discard ==
    /\ SupGo("discard", IF judged THEN "launch" ELSE "select")
    /\ marker' = Absent
    /\ UNCHANGED <<active, backup, path, launched, staged, judged, agentVars, updaterVars, history>>

\* Exit 126 without a version, else the agent and the timer are started.
Launch ==
    /\ sup = "launch"
    /\ judged' = FALSE
    /\ \/ launched = Absent /\ sup' = "stranded" /\ UNCHANGED agentVars
       \/ launched # Absent /\ sup' = "waiting" /\ runs' = Content(path) /\ timer' = "sleeping"
    /\ UNCHANGED <<files, path, launched, staged, updaterVars, history>>

-----------------------------------------------------------------------------
(* rollback_candidate.  Nothing looks at the exit status of cp: a copy that *)
(* failed half-way is moved into place all the same.                        *)

RollbackStages ==
    /\ SupGo("rollback", "swap")
    /\ Runnable(backup)
    /\ staged' \in {backup, Torn}
    /\ UNCHANGED <<files, path, launched, judged, agentVars, updaterVars, history>>

RollbackSwaps ==
    /\ SupGo("swap", "unmark")
    /\ active' = staged
    /\ staged' = Absent
    /\ UNCHANGED <<backup, marker, path, launched, judged, agentVars, updaterVars, history>>

RollbackRemoves ==
    /\ SupGo("rollback", "unmark")
    /\ ~Runnable(backup)
    /\ active' = Absent
    /\ UNCHANGED <<backup, marker, path, launched, staged, judged, agentVars, updaterVars, history>>

RollbackUnmarks ==
    /\ SupGo("unmark", "select")
    /\ marker' = Absent
    /\ UNCHANGED <<active, backup, path, launched, staged, judged, agentVars, updaterVars, history>>

-----------------------------------------------------------------------------
(* The stability window.  kill -0 succeeds for an agent that has died and   *)
(* was not yet waited for.                                                  *)

\* Mutant: the window is never seen to end.
TimerForgets ==
    /\ timer = "sleeping" /\ sup = "waiting"
    /\ timer' = "over"
    /\ UNCHANGED <<files, supervisorVars, runs, updaterVars, history>>

TimerChecks ==
    /\ timer = "sleeping" /\ sup = "waiting"
    /\ timer' = IF marker = launched THEN "removing" ELSE "over"
    /\ UNCHANGED <<files, supervisorVars, runs, updaterVars, history>>

\* rm -f of the marker, whatever it names by now.
TimerRemoves ==
    /\ timer = "removing"
    /\ timer' = "over"
    /\ marker' = Absent
    /\ proven' = proven \cup {launched}
    /\ UNCHANGED <<active, backup, supervisorVars, runs, updaterVars, disturbed>>

-----------------------------------------------------------------------------
(* The end of the agent and the rest of the loop.                           *)

\* It crashed, was killed, or left to activate an upgrade.  An updater it had
\* started goes on without it.
AgentExits ==
    /\ runs # Absent
    /\ runs' = Absent
    /\ disturbed' = (disturbed \/ upd \notin {"idle", "done"})
    /\ UNCHANGED <<files, supervisorVars, timer, updaterVars, proven>>

\* wait "$child_pid", and the timer is killed.
Reap ==
    /\ SupGo("waiting", "settle")
    /\ runs = Absent
    /\ timer' = "none"
    /\ UNCHANGED <<files, path, launched, staged, judged, runs, updaterVars, history>>

\* Mutant: the comparison with the installed version is the wrong way round.
SettleDiscardsCandidate ==
    /\ sup = "settle"
    /\ sup' = CASE marker = Absent -> "select"
                [] marker = launched -> "rollback"
                [] marker \notin {Absent, launched} ->
                     IF Version(active) = marker THEN "discard" ELSE "select"
    /\ UNCHANGED <<files, path, launched, staged, judged, agentVars, updaterVars, history>>

\* A marker for what just ended is a failed candidate; one for what is
\* installed is the next candidate; any other is stale.
Settle ==
    /\ sup = "settle"
    /\ sup' = CASE marker = Absent -> "select"
                [] marker = launched -> "rollback"
                [] marker \notin {Absent, launched} ->
                     IF Version(active) = marker THEN "select" ELSE "discard"
    /\ UNCHANGED <<files, path, launched, staged, judged, agentVars, updaterVars, history>>

-----------------------------------------------------------------------------
(* The updater.                                                             *)

\* No candidate is waiting or on probation.
Settled == {runs, active} \cap Releases \subseteq proven

(* An upgrade task: downgrades are refused, a binary that is already there  *)
(* is "up to date" and the updater succeeds without touching anything.      *)
UpdaterStarts(v) ==
    /\ sup = "waiting" /\ runs # Absent
    /\ upd = "idle"
    /\ v >= Version(Content(path))
    /\ upd' = IF Content(path) = v THEN "done" ELSE "backup"
    /\ source' = path
    /\ target' = v
    /\ disturbed' = (disturbed \/ ~Settled)
    /\ UNCHANGED <<files, supervisorVars, agentVars, proven>>

\* install "$backup_source" "$BACKUP_PATH" overwrites its destination in place.
BackupBegins ==
    /\ UpdGo("backup", "copying")
    /\ Content(source) # Absent
    /\ backup' = Torn
    /\ UNCHANGED <<active, marker, supervisorVars, agentVars, source, target, history>>

\* Mutant: what is backed up is the release, not the binary in use.
BackupOfTarget ==
    /\ UpdGo("copying", "install")
    /\ backup' = target
    /\ UNCHANGED <<active, marker, supervisorVars, agentVars, source, target, history>>

BackupEnds ==
    /\ UpdGo("copying", "install")
    /\ backup' = IF Content(source) = Absent THEN Torn ELSE Content(source)
    /\ UNCHANGED <<active, marker, supervisorVars, agentVars, source, target, history>>

\* Nothing executable to back up.
BackupSkipped ==
    /\ UpdGo("backup", "install")
    /\ Content(source) = Absent
    /\ UNCHANGED <<files, supervisorVars, agentVars, source, target, history>>

\* mv -f "$INSTALL_PATH.new" "$INSTALL_PATH"
Install ==
    /\ UpdGo("install", "mark")
    /\ active' = target
    /\ proven' = proven \ {target}
    /\ UNCHANGED <<backup, marker, supervisorVars, agentVars, source, target, disturbed>>

\* Mutant: the marker gets the version that runs, not the one installed.
MarkCurrent ==
    /\ UpdGo("mark", "done")
    /\ marker' = launched
    /\ UNCHANGED <<active, backup, supervisorVars, agentVars, source, target, history>>

\* mv -f "$activation_tmp" "$ACTIVATION_FILE"
Mark ==
    /\ UpdGo("mark", "done")
    /\ marker' = target
    /\ UNCHANGED <<active, backup, supervisorVars, agentVars, source, target, history>>

UpdaterEnds ==
    /\ UpdGo("done", "idle")
    /\ UNCHANGED <<files, supervisorVars, agentVars, source, target, history>>

\* The task's deadline, a cancel, a failed command: nothing is undone.
UpdaterKilled ==
    /\ upd \notin {"idle", "done"}
    /\ upd' = "idle"
    /\ disturbed' = (disturbed \/ upd = "mark")
    /\ UNCHANGED <<files, supervisorVars, agentVars, source, target, proven>>

\* The container stops, for whatever reason, and starts again on its files.
ContainerRestarts ==
    /\ sup' = "select" /\ judged' = FALSE /\ staged' = Absent
    /\ runs' = Absent /\ timer' = "none"
    /\ upd' = "idle"
    /\ disturbed' = (disturbed \/ upd = "mark")
    /\ UNCHANGED <<files, path, launched, source, target, proven>>

-----------------------------------------------------------------------------
Init ==
    /\ active = Absent /\ backup = Absent /\ marker = Absent
    /\ sup = "select" /\ path = "fallback" /\ launched = Absent
    /\ staged = Absent /\ judged = FALSE
    /\ runs = Absent /\ timer = "none"
    /\ upd = "idle" /\ source = "fallback" /\ target = Absent
    /\ proven = {Image} /\ disturbed = FALSE

Supervise ==
    \/ Select \/ ReadVersion \/ Judge \/ Discard \/ Launch
    \/ RollbackStages \/ RollbackSwaps \/ RollbackRemoves \/ RollbackUnmarks
    \/ Reap \/ Settle

Timer == TimerChecks \/ TimerRemoves

Update ==
    \/ BackupBegins \/ BackupEnds \/ BackupSkipped
    \/ Install \/ Mark \/ UpdaterEnds

Next ==
    \/ Supervise \/ Timer \/ Update
    \/ \E v \in Releases : UpdaterStarts(v)
    \/ AgentExits \/ UpdaterKilled \/ ContainerRestarts

Spec == Init /\ [][Next]_vars

\* Shell scripts go on to their next command, and sleep ends.
FairSpec == Spec /\ WF_vars(Supervise) /\ WF_vars(Timer) /\ WF_vars(Update)

-----------------------------------------------------------------------------
(* Types; staged and judged have a meaning in the middle of a pass only.    *)
TypeOK ==
    /\ active \in Binaries /\ backup \in Binaries
    /\ marker \in Releases \cup {Absent}
    /\ sup \in {"select", "read", "judge", "discard", "launch", "rollback", "swap",
                "unmark", "waiting", "settle", "stranded"}
    /\ path \in {"active", "fallback"} /\ source \in {"active", "fallback"}
    /\ launched \in Versions \cup {Absent}
    /\ staged \in Binaries
    /\ judged \in BOOLEAN
    /\ runs \in Versions \cup {Absent}
    /\ timer \in {"none", "sleeping", "removing", "over"}
    /\ upd \in {"idle", "backup", "copying", "install", "mark", "done"}
    /\ target \in Releases \cup {Absent}
    /\ proven \subseteq Versions
    /\ disturbed \in BOOLEAN

(* Whatever a killed updater, a failed copy or a restart left in the files, *)
(* the supervisor finds a binary that runs: it never ends with exit 126.    *)
NeverStranded == sup # "stranded"

(* A version that passed its stability window is not rolled back unless it  *)
(* was installed anew as a candidate: no restart in the middle of a         *)
(* rollback and no marker left behind makes the supervisor replace it.      *)
ActivatedStays ==
    [][(sup \in {"swap", "rollback"} /\ active' # active) =>
            active \notin proven \/ marker = active]_vars

(* README.md: a candidate that does not pass the stability window is        *)
(* replaced by nodeping-agent.previous.  That takes a marker: the           *)
(* supervisor launches a version that was not activated only with one.      *)
OnProbation == launched \in proven \/ marker = launched
CandidatesAreOnProbation ==
    [][(sup = "launch" /\ sup' = "waiting") => OnProbation]_vars

(* So it is as long as no updater is interrupted between its installation   *)
(* and its marker, and no upgrade starts before the last one is activated.  *)
ExpectedCandidatesAreOnProbation ==
    [][(sup = "launch" /\ sup' = "waiting") => OnProbation \/ disturbed]_vars

(* As long as that is so, a candidate is never installed without a backup   *)
(* that was itself activated, even if an earlier backup was torn.           *)
BackupIsProven ==
    (~disturbed /\ active \in Releases \ proven) => backup \in proven

(* Every probation ends: once upgrades and restarts cease, the marker goes, *)
(* or names what waits for the running agent to leave.                      *)
Quiet == <>[](upd = "idle") /\ <>[][~ContainerRestarts]_vars
ProbationEnds ==
    (Quiet /\ []~disturbed) =>
        <>[](marker = Absent \/ (runs # Absent /\ launched # marker))
=============================================================================
