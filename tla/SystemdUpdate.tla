---------------------------- MODULE SystemdUpdate ----------------------------
(***************************************************************************)
(* Updates of an agent that systemd runs: the agent leaves a request file  *)
(* or calls the script (agent_upgrade.go), a path unit, a timer or an      *)
(* operator starts update-nodeping-agent.sh, and every updater claims the  *)
(* request, takes the update lock, picks and verifies a release, installs  *)
(* it, restarts the service and undoes what does not become ready.         *)
(*                                                                         *)
(* A binary is its version, a version its place in Releases.  An updater   *)
(* may be killed between any two steps and the machine may reboot.         *)
(***************************************************************************)
EXTENDS Integers, Sequences, FiniteSets

CONSTANTS
    Releases,    \* the published versions in ascending precedence: sequences of
                 \* pre-release identifiers [numeric, value, text], <<>> for none
    Updaters,    \* processes that may run the script, which are their pids
    Sources,     \* the release sources in the order they are tried, "direct" last
    Policies,    \* the settings to explore: [downgrade, mode, key, from]
    Asked,       \* what a request or a caller may ask for: versions, Newest
    Installed,   \* what may be on disk at first, Absent for nothing
    SoundSets,   \* the sets of versions that may be the ones that work
    MaxRequests, \* bound: request files the agent writes
    MaxStarts,   \* bound: runs of the script
    MaxUpdaterKills     \* bound: updaters killed, and reboots

Builds == DOMAIN Releases
Absent == 0
Newest == -1
NoRequest == -2
CutShort == -3     \* on disk: a file cut short, which no version is

\* Precedence as Semantic Versioning states it (items 11.3 and 11.4), apart from
\* the way the code computes it: the releases are listed in this order.
Identifiers == [numeric : BOOLEAN, value : Nat, text : Nat]
IdentifierPrecedes(a, b) ==
    \/ a.numeric /\ (b.numeric => a.value < b.value)
    \/ ~a.numeric /\ ~b.numeric /\ a.text < b.text
Precedes(left, right) ==
    /\ left # <<>>
    /\ \/ right = <<>>
       \/ \E i \in DOMAIN right :
             /\ \A k \in 1 .. i - 1 : k \in DOMAIN left /\ left[k] = right[k]
             /\ i = Len(left) + 1 \/ (i \in DOMAIN left /\ IdentifierPrecedes(left[i], right[i]))

ASSUME ReleasesAscend ==
    /\ Releases \in Seq(Seq(Identifiers))
    /\ \A v, w \in Builds : v < w => Precedes(Releases[v], Releases[w])

ASSUME UpdateAssumption ==
    /\ 0 \notin Updaters /\ Len(Releases) > 0 /\ Sources # <<>>
    /\ Asked \subseteq Builds \cup {Newest} /\ Installed \subseteq Builds \cup {Absent}
    /\ SoundSets \subseteq SUBSET Builds
    /\ MaxRequests \in Nat /\ MaxStarts \in Nat /\ MaxUpdaterKills \in Nat

VARIABLES
    policy,     \* the environment file of the updater
    sound,      \* the versions whose service becomes and stays active
    request,    \* the update request file
    asked,      \* how many the agent has written
    starts,     \* how often the script has been started
    lock,       \* the lock directory: [held, pid], pid 0 without a pid file
    disk,       \* $INSTALL_PATH
    previous,   \* $BACKUP_PATH
    service,    \* the version of the running service, Absent when none is active
    upd,        \* updater -> its process (see NoUpdater)
    killed,
    exclusive,  \* history: no two updaters have ever owned the lock at once
    obeyed      \* history: systemctl did what it was told, in time

sysVars == <<policy, sound, request, asked, starts, lock, disk, previous, service, upd,
             killed, exclusive, obeyed>>

NoUpdater == [pc |-> "idle", owned |-> FALSE, target |-> Newest, current |-> Absent,
          event |-> "", wasUp |-> FALSE,
          copied |-> TRUE]      \* FALSE: the copy of its backup failed
Alive(u) == upd[u].pc \notin {"idle", "dead"}
Go(u, to) == upd' = [upd EXCEPT ![u].pc = to]
Quit(u) == upd' = [upd EXCEPT ![u] = NoUpdater]
At(u, pc) == upd[u].pc = pc

SystemdInit ==
    /\ policy \in Policies /\ sound \in SoundSets /\ disk \in Installed
    /\ service = IF disk \in sound THEN disk ELSE Absent
    /\ request = NoRequest /\ asked = 0 /\ starts = 0 /\ previous = Absent /\ killed = 0
    /\ lock = [held |-> FALSE, pid |-> 0]
    /\ upd = [u \in Updaters |-> NoUpdater]
    /\ exclusive = TRUE /\ obeyed = TRUE

filesOfUpdate == <<disk, previous>>
settings == <<policy, sound>>
world == <<settings, starts, killed>>

-----------------------------------------------------------------------------
(* semver_compare: build metadata and the leading numbers, which all the    *)
(* releases here share, are left out.                                       *)

Before(a, b) == IF a < b THEN -1 ELSE 1
\* mutant: identifiers are compared as text even when both are numbers
TextualIdentifiers(a, b) == Before(a.text, b.text)

CompareIdentifiers(a, b) ==
    IF a.numeric /\ b.numeric THEN Before(a.value, b.value)
    ELSE IF a.numeric THEN -1
    ELSE IF b.numeric THEN 1
    ELSE Before(a.text, b.text)

SemverCompare(v, w) ==
    LET left == Releases[v] right == Releases[w]
        differ == {i \in DOMAIN left \cap DOMAIN right : left[i] # right[i]}
        first == CHOOSE i \in differ : \A j \in differ : i <= j
    IN  IF left = right THEN 0
        ELSE IF left = <<>> THEN 1
        ELSE IF right = <<>> THEN -1
        ELSE IF differ = {} THEN Before(Len(left), Len(right))
        ELSE CompareIdentifiers(left[first], right[first])

(* signature_required_for_version. *)
SignatureRequired(v) ==
    \/ policy.mode = "required"
    \/ /\ policy.mode = "auto"
       /\ policy.key \/ (policy.from # Absent /\ SemverCompare(v, policy.from) >= 0)

(* download_verified_release_set: what a source may answer, and which       *)
(* answers are a complete verifiable set.  Only one source provides all.    *)
Answers == {"complete", "unsigned", "damaged", "other", "none"}
Verifies(signed, answer) == answer = "complete" \/ (~signed /\ answer = "unsigned")
Eligible(signed) == {i \in DOMAIN Sources : signed \/ Sources[i] = "direct"}
Downloads(signed, answers) == \E i \in Eligible(signed) : Verifies(signed, answers[i])

-----------------------------------------------------------------------------
(* The agent and the starters of the script. *)

(* requestFileUpgrade: a whole request replaces the one that is there. *)
Ask(v) ==
    /\ asked < MaxRequests /\ service # Absent
    /\ request' = v /\ asked' = asked + 1
    /\ UNCHANGED <<world, lock, filesOfUpdate, service, upd, exclusive, obeyed>>

(* The path unit, the timer, an operator, or scriptUpgrade with a version. *)
Start(u, wanted) ==
    /\ At(u, "idle") /\ starts < MaxStarts /\ starts' = starts + 1
    /\ upd' = [upd EXCEPT ![u] = [NoUpdater EXCEPT !.pc = "claim", !.target = wanted]]
    /\ UNCHANGED <<settings, killed, request, asked, lock, filesOfUpdate, service, exclusive, obeyed>>

(* consume_update_request reads the file, then removes it. *)
ClaimRequest(u) ==
    /\ At(u, "claim")
    /\ IF request = NoRequest THEN Go(u, "lock")
       ELSE upd' = [upd EXCEPT ![u].target = request, ![u].pc = "unlink"]
    /\ UNCHANGED <<world, request, asked, lock, filesOfUpdate, service, exclusive, obeyed>>

Unlink(u) ==
    /\ At(u, "unlink") /\ request' = NoRequest /\ Go(u, "lock")
    /\ UNCHANGED <<world, asked, lock, filesOfUpdate, service, exclusive, obeyed>>

(* The settings are checked before the lock: such an exit reports nothing. *)
Reject(u) ==
    /\ At(u, "lock") /\ Quit(u)
    /\ UNCHANGED <<world, request, asked, lock, filesOfUpdate, service, exclusive, obeyed>>

-----------------------------------------------------------------------------
(* acquire_update_lock and release_update_lock. *)

Owns(u, pc) ==
    /\ upd' = [upd EXCEPT ![u].owned = TRUE, ![u].pc = pc]
    /\ exclusive' = (exclusive /\ \A w \in Updaters : ~upd[w].owned)
LockOnly == UNCHANGED <<world, request, asked, filesOfUpdate, service, obeyed>>

MakeLock(u) ==
    /\ At(u, "lock")
    /\ IF lock.held THEN Go(u, "inspect") /\ UNCHANGED <<lock, exclusive>>
       ELSE lock' = [held |-> TRUE, pid |-> 0] /\ Owns(u, "sign")
    /\ LockOnly

(* A dead owner's pid may by now be that of another process. *)
InspectLock(u, reused) ==
    /\ At(u, "inspect")
    /\ IF lock.pid # 0 /\ (Alive(lock.pid) \/ reused) THEN Quit(u) ELSE Go(u, "rmpid")
    /\ UNCHANGED <<lock, exclusive>> /\ LockOnly

RemoveStalePid(u) ==
    /\ At(u, "rmpid") /\ lock' = [lock EXCEPT !.pid = 0] /\ Go(u, "rmdir")
    /\ UNCHANGED exclusive /\ LockOnly

RemoveStaleLock(u) ==
    /\ At(u, "rmdir") /\ Go(u, "mkdir")
    /\ lock' = [lock EXCEPT !.held = @ /\ lock.pid # 0]
    /\ UNCHANGED exclusive /\ LockOnly

MakeLockAgain(u) ==
    /\ At(u, "mkdir")
    /\ IF lock.held THEN Quit(u) /\ UNCHANGED <<lock, exclusive>>
       ELSE lock' = [held |-> TRUE, pid |-> 0] /\ Owns(u, "signagain")
    /\ LockOnly

(* The pid is written into a directory that may be gone: the first attempt  *)
(* does not notice, the second fails.                                       *)
SignLock(u) ==
    /\ \/ At(u, "sign") /\ Go(u, "choose")
       \/ At(u, "signagain")
          /\ IF lock.held THEN Go(u, "choose") ELSE Quit(u)
    /\ lock' = IF lock.held THEN [lock EXCEPT !.pid = u] ELSE lock
    /\ UNCHANGED exclusive /\ LockOnly

ReleasePid(u) ==
    /\ At(u, "exit")
    /\ IF lock.pid = u THEN lock' = [lock EXCEPT !.pid = 0] /\ Go(u, "release")
       ELSE Quit(u) /\ UNCHANGED lock
    /\ UNCHANGED exclusive /\ LockOnly

ReleaseLock(u) ==
    /\ At(u, "release")
    /\ lock' = [lock EXCEPT !.held = @ /\ lock.pid # 0]
    /\ Quit(u)
    /\ UNCHANGED exclusive /\ LockOnly

-----------------------------------------------------------------------------
(* The update.  Exit is the EXIT trap, which reports a failure that nothing *)
(* else has reported.                                                       *)

Exit(u, event) == upd' = [upd EXCEPT ![u].event = event, ![u].pc = "exit"]
ProcessOnly == UNCHANGED <<world, request, asked, lock, filesOfUpdate, service, exclusive, obeyed>>

(* current_agent_version: what does not run does not tell one. *)
Version(file) == IF file = CutShort THEN Absent ELSE file

(* The version on disk, the release asked for (the latest may be a stale    *)
(* answer), the ban on downgrades, and the key a signature needs.           *)
Choose(u) ==
    /\ At(u, "choose")
    /\ \E v \in IF upd[u].target = Newest THEN Builds ELSE {upd[u].target} :
          LET current == Version(disk)
              down == current # Absent /\ SemverCompare(v, current) = -1 /\ ~policy.downgrade
              keyless == SignatureRequired(v) /\ ~policy.key
          IN  upd' = [upd EXCEPT ![u].current = current, ![u].target = v,
                                 ![u].wasUp = service # Absent,
                                 ![u].pc = IF down \/ keyless THEN "exit" ELSE "download",
                                 ![u].event = IF down \/ keyless THEN "update_failed" ELSE ""]
    /\ ProcessOnly

(* Only an executable file is backed up, which a torn one may be or not.    *)
Download(u) ==
    /\ At(u, "download")
    /\ \E answers \in [DOMAIN Sources -> Answers] :
          IF ~Downloads(SignatureRequired(upd[u].target), answers) THEN Exit(u, "update_failed")
          ELSE IF disk = upd[u].target THEN Exit(u, "up_to_date")
          ELSE \/ disk # Absent /\ Go(u, "backup")
               \/ disk \in {Absent, CutShort} /\ Go(u, "install")
    /\ ProcessOnly

(* A command of the update fails: no network, no space, no minisign.  A     *)
(* backup that was cut short is made again before anything reads it.        *)
Abort(u) ==
    /\ upd[u].pc \in {"choose", "download", "backup", "install"}
    /\ upd' = [upd EXCEPT ![u].event = "update_failed", ![u].pc = "exit",
                          ![u].current = Version(disk), ![u].wasUp = service # Absent]
    /\ ProcessOnly

\* mutant: the backup is taken of what is about to be installed
BackupTooLate(u) ==
    /\ At(u, "backup") /\ previous' = upd[u].target /\ Go(u, "install")
    /\ UNCHANGED <<world, request, asked, lock, disk, service, exclusive, obeyed>>

Backup(u) ==
    /\ At(u, "backup") /\ previous' = disk /\ Go(u, "install")
    /\ UNCHANGED <<world, request, asked, lock, disk, service, exclusive, obeyed>>

Install(u) ==
    /\ At(u, "install") /\ disk' = upd[u].target /\ Go(u, "restart")
    /\ UNCHANGED <<world, request, asked, lock, previous, service, exclusive, obeyed>>

Runs(v) == IF v \in sound THEN v ELSE Absent

\* mutant: a running service is not restarted
StartsOnly(u, from, to) ==
    /\ At(u, from) /\ Go(u, to)
    /\ service' = (IF service = Absent THEN Runs(disk) ELSE service) /\ UNCHANGED obeyed
    /\ UNCHANGED <<world, request, asked, lock, filesOfUpdate, exclusive>>

(* systemctl restart, which may fail without touching the service. *)
Restart(u, from, to) ==
    /\ At(u, from) /\ Go(u, to)
    /\ \/ service' = Runs(disk) /\ UNCHANGED obeyed
       \/ obeyed' = FALSE /\ UNCHANGED service
    /\ UNCHANGED <<world, request, asked, lock, filesOfUpdate, exclusive>>

(* wait_service_ready: active, with the expected version on disk, for the   *)
(* stability window, before the timeout.                                    *)
Ready(u, from, expected, yes, no, patient) ==
    /\ At(u, from)
    /\ LET ready == service # Absent /\ (expected = Absent \/ disk = expected)
       IN  /\ upd' = [upd EXCEPT ![u].pc = IF ready /\ patient THEN yes[1] ELSE no[1],
                                 ![u].event = IF ready /\ patient THEN yes[2] ELSE no[2]]
           /\ obeyed' = (obeyed /\ (ready => patient))
    /\ UNCHANGED <<world, request, asked, lock, filesOfUpdate, service, exclusive>>

Succeeds(u, patient) ==
    Ready(u, "ready", upd[u].target, <<"exit", "update_succeeded">>, <<"undo", "update_failed">>,
          patient)

(* restart_with_rollback is called in an if, so errexit is off: when install *)
(* fails, mv still puts in place what there is of the copy, or nothing.      *)
Undo(u) ==
    /\ At(u, "undo")
    /\ \/ previous = Absent /\ Exit(u, "rollback_failed") /\ UNCHANGED disk
       \/ previous # Absent /\ disk' = previous /\ Go(u, "restart again")
       \/ /\ previous # Absent /\ disk' \in {disk, CutShort}
          /\ upd' = [upd EXCEPT ![u].copied = FALSE, ![u].pc = "restart again"]
    /\ UNCHANGED <<world, request, asked, lock, previous, service, exclusive, obeyed>>

Undone(u, patient) ==
    Ready(u, "ready again", upd[u].current, <<"exit", "rollback_succeeded">>,
          <<"exit", "rollback_failed">>, patient)

Kill(u) ==
    /\ killed < MaxUpdaterKills /\ Alive(u) /\ killed' = killed + 1
    /\ upd' = [upd EXCEPT ![u] = [NoUpdater EXCEPT !.pc = "dead"]]
    /\ UNCHANGED <<settings, starts, request, asked, lock, filesOfUpdate, service, exclusive, obeyed>>

(* Every process ends, the files stay, the service starts from them. *)
Reboot ==
    /\ killed < MaxUpdaterKills /\ killed' = killed + 1
    /\ upd' = [u \in Updaters |-> IF Alive(u) THEN [NoUpdater EXCEPT !.pc = "dead"] ELSE upd[u]]
    /\ service' = Runs(disk)
    /\ UNCHANGED <<settings, starts, request, asked, lock, filesOfUpdate, exclusive, obeyed>>

UpdaterStep(u) ==
    \/ \E v \in Asked : Start(u, v)
    \/ ClaimRequest(u) \/ Unlink(u) \/ Reject(u)
    \/ MakeLock(u) \/ \E reused \in BOOLEAN : InspectLock(u, reused)
    \/ RemoveStalePid(u) \/ RemoveStaleLock(u) \/ MakeLockAgain(u) \/ SignLock(u)
    \/ Choose(u) \/ Download(u) \/ Abort(u) \/ Backup(u) \/ Install(u)
    \/ Restart(u, "restart", "ready") \/ Undo(u) \/ Restart(u, "restart again", "ready again")
    \/ \E patient \in BOOLEAN : Succeeds(u, patient) \/ Undone(u, patient)
    \/ ReleasePid(u) \/ ReleaseLock(u)
    \/ Kill(u)

SystemdNext ==
    \/ \E v \in Asked : Ask(v)
    \/ \E u \in Updaters : UpdaterStep(u)
    \/ Reboot

SystemdSpec == SystemdInit /\ [][SystemdNext]_sysVars

-----------------------------------------------------------------------------
Ended(u) == At(u, "exit") /\ exclusive /\ obeyed

(* What an updater reports is what is there, on disk and in the service, as *)
(* long as the lock kept the others out and systemctl obeyed: readiness     *)
(* looks at the version on disk, not at the process (wait_service_ready).   *)
(* A rollback is reported as a success only on the version found at first;  *)
(* if the file found told none, on whatever version is on disk and runs.    *)
OutcomeIsTrue ==
    \A u \in Updaters : Ended(u) =>
        CASE upd[u].event = "update_succeeded" -> disk = upd[u].target /\ service = disk
          [] upd[u].event = "rollback_succeeded" ->
                service = disk /\ (upd[u].current # Absent => disk = upd[u].current)
          [] upd[u].event = "up_to_date" -> disk = upd[u].target
          [] upd[u].event = "update_failed" -> Version(disk) = upd[u].current
          [] OTHER -> TRUE

(* An update that fails, at whatever step, leaves a service that was up on  *)
(* a version that works, and the version that was on disk before it, unless *)
(* that version itself does not start or its backup could not be copied     *)
(* back (restart_with_rollback:691-719).                                    *)
FailedUpdateIsUndone ==
    \A u \in Updaters :
        (/\ Ended(u) /\ upd[u].event \notin {"update_succeeded", "up_to_date"}
         /\ upd[u].wasUp /\ upd[u].current \in sound /\ upd[u].copied)
           => service # Absent /\ disk = upd[u].current

(* Nobody installs a release that precedes the one on disk unless downgrades *)
(* are allowed, whatever the request, a stale answer about the latest        *)
(* release and the pre-release identifiers are (semver_compare:779-828).  A  *)
(* torn file has no version to precede.                                      *)
DowngradeNeedsConsent ==
    \A u \in Updaters :
        upd[u].pc \in {"backup", "install", "restart", "ready"} =>
            policy.downgrade \/ upd[u].target >= upd[u].current

(* acquire_update_lock refuses with "another Agent update is already        *)
(* running" (update-nodeping-agent.sh:90): two updaters never own the lock. *)
OneUpdaterAtATime == Cardinality({u \in Updaters : upd[u].owned}) <= 1
=============================================================================
