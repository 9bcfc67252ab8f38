----------------------------- MODULE DockerUpdate -----------------------------
(***************************************************************************)
(* Updates of an agent that docker compose runs (update-docker.sh).  The   *)
(* agent leaves a request file on a shared directory; a path unit, a timer *)
(* or an operator starts the script, which takes the host's update lock,   *)
(* moves the request aside, writes the image it wants into .env, pulls it, *)
(* recreates the container, and puts image, settings and compose file back *)
(* when the new container does not become ready.                           *)
(*                                                                         *)
(* An image is its version; a tag is a version or Rolling, which the       *)
(* registry may move.  An updater may be killed between any two commands.  *)
(***************************************************************************)
EXTENDS Integers, FiniteSets

CONSTANTS
    Images,        \* the versions that are published
    Scripts,       \* processes that may run the script
    Repositories,  \* the image repositories in the order they are tried
    Containers,    \* the containers that may run at first (see Deployed)
    WorkingSets,   \* the sets of versions that may be the ones that become ready
    RuntimeChoices,\* what the managed runtime directory may hold, Nothing or a version
    Wanted,        \* what a request may ask for: tags, Invalid
    AllowDowngrade,\* NODEPING_AGENT_ALLOW_DOWNGRADE
    MaxMails,      \* bound: request files the agent writes
    MaxScripts,    \* bound: runs of the script
    MaxDeaths      \* bound: updaters killed

Nothing == 0
Rolling == -1
Invalid == -2

Deployed(repo, tag, version) == [repo |-> repo, tag |-> tag, version |-> version, up |-> TRUE]

ASSUME DockerAssumption ==
    /\ \A c \in Containers : c = Deployed(c.repo, c.tag, c.version)
    /\ Images \subseteq Nat \ {0} /\ Wanted \subseteq Images \cup {Rolling, Invalid}
    /\ Repositories # <<>> /\ Nothing \notin Scripts
    /\ AllowDowngrade \in BOOLEAN /\ MaxMails \in Nat /\ MaxScripts \in Nat /\ MaxDeaths \in Nat

VARIABLES
    working,     \* the versions that become ready
    runtime,     \* the binary of the managed runtime directory, which the
                 \* container prefers to its own
    mail,        \* the request file: [id, tag], id Nothing when there is none
    processing,  \* the request file an updater has claimed
    failed,      \* the last request that failed
    mails,       \* how many the agent has written
    answered,    \* history: requests done, or replaced by a later one
    runs,        \* how often the script has been started
    dockerLock,  \* who made the lock directory
    dotenv,      \* the image that .env names: [repo, tag]
    composeFile, \* "own" or "synced"
    container,   \* [repo, tag, version, up]
    store,       \* repository and tag -> the version of the local image
    script,      \* the updaters (see NoScript)
    deaths

dockerVars == <<working, runtime, mail, processing, failed, mails, answered, runs, dockerLock,
                dotenv, composeFile, container, store, script, deaths>>

NoMail == [id |-> Nothing, tag |-> Rolling]
Ref(image) == [repo |-> image.repo, tag |-> image.tag]
Primary == Repositories[1]
NoScript == [pc |-> "idle", original |-> [repo |-> Primary, tag |-> Rolling], claimed |-> FALSE,
             current |-> Nothing, before |-> Deployed(Primary, Rolling, Nothing),
             compose |-> "own", source |-> 1, pulled |-> FALSE, restored |-> FALSE,
             succeeded |-> FALSE]

\* The container is healthy when the binary it runs is.
Binary(c) == IF runtime # Nothing THEN runtime ELSE c.version
IsReady(c) == c.version # Nothing /\ c.up /\ Binary(c) \in working
\* container_agent_version: docker exec needs a container that is up.
AgentVersion(c) == IF c.up THEN Binary(c) ELSE Nothing

DockerInit ==
    /\ working \in WorkingSets /\ runtime \in RuntimeChoices /\ container \in Containers
    /\ dotenv = Ref(container)
    /\ store = [image \in {Ref(container)} |-> container.version]
    /\ mail = NoMail /\ processing = NoMail /\ failed = NoMail /\ mails = 0 /\ answered = {}
    /\ dockerLock = Nothing /\ composeFile = "own" /\ runs = 0 /\ deaths = 0
    /\ script = [s \in Scripts |-> NoScript]

fixed == <<working, runtime, deaths>>
requests == <<mail, processing, failed, answered>>
deployment == <<dotenv, composeFile, container, store>>
Is(s, pc) == script[s].pc = pc
Step(s, fields) ==
    script' = [script EXCEPT ![s] = [f \in DOMAIN @ |-> IF f \in DOMAIN fields THEN fields[f]
                                                        ELSE @[f]]]
To(s, pc) == Step(s, [pc |-> pc])

-----------------------------------------------------------------------------
(* requestFileUpgrade: a whole request replaces the one that is there. *)
Mail(tag) ==
    /\ mails < MaxMails /\ mails' = mails + 1
    /\ mail' = [id |-> mails', tag |-> tag]
    /\ answered' = answered \cup {mail.id}
    /\ UNCHANGED <<fixed, runs, processing, failed, dockerLock, deployment, script>>

(* The image is read before the lock is taken, its tag afterwards. *)
StartScript(s) ==
    /\ Is(s, "idle") /\ runs < MaxScripts /\ runs' = runs + 1
    /\ script' = [script EXCEPT ![s] = [NoScript EXCEPT !.pc = "lock", !.original = dotenv]]
    /\ UNCHANGED <<fixed, mails, requests, dockerLock, deployment>>

(* acquire_update_lock waits, and gives up with the request untouched. *)
Acquire(s) ==
    /\ Is(s, "lock")
    /\ \/ dockerLock = Nothing /\ dockerLock' = s /\ To(s, "claim")
       \/ script' = [script EXCEPT ![s] = NoScript] /\ UNCHANGED dockerLock
    /\ UNCHANGED <<fixed, mails, runs, requests, deployment>>

ScriptOnly == UNCHANGED <<fixed, mails, runs, requests, dockerLock, deployment>>
RequestStep == UNCHANGED <<fixed, mails, runs, mail, dockerLock, deployment>>

\* mutant: the claim of a dead updater is left where the new one goes
ClaimOver(s) ==
    /\ Is(s, "claim")
    /\ LET original == [script[s].original EXCEPT !.tag = dotenv.tag]
       IN  Step(s, [pc |-> IF mail = NoMail THEN "inspect" ELSE "take", original |-> original])
    /\ UNCHANGED <<processing, failed, answered>> /\ RequestStep

(* consume_update_request: what a dead updater left goes to .failed. *)
Claim(s) ==
    /\ Is(s, "claim")
    /\ LET original == [script[s].original EXCEPT !.tag = dotenv.tag]
           to == IF mail = NoMail THEN "inspect" ELSE "take"
       IN  Step(s, [pc |-> to, original |-> original])
    /\ IF mail # NoMail /\ processing # NoMail
       THEN /\ failed' = processing /\ processing' = NoMail
            /\ answered' = answered \cup {failed.id}
       ELSE UNCHANGED <<processing, failed, answered>>
    /\ RequestStep

Take(s) ==
    /\ Is(s, "take") /\ processing' = mail /\ mail' = NoMail
    /\ Step(s, [pc |-> "target", claimed |-> TRUE])
    /\ UNCHANGED <<fixed, mails, runs, failed, answered, dockerLock, deployment>>

Target(s) ==
    /\ Is(s, "target")
    /\ IF processing.tag = Invalid THEN To(s, "exit") /\ UNCHANGED dotenv
       ELSE dotenv' = [dotenv EXCEPT !.tag = processing.tag] /\ To(s, "inspect")
    /\ UNCHANGED <<fixed, mails, runs, requests, dockerLock, composeFile, container, store>>

(* The container that is there, and its version; the directories of the     *)
(* agent may turn out to be unusable.                                       *)
Inspect(s) ==
    /\ Is(s, "inspect")
    /\ \/ Step(s, [pc |-> "sync", before |-> container, current |-> AgentVersion(container),
                   compose |-> composeFile])
       \/ To(s, "exit")
    /\ ScriptOnly

(* sync_default_compose, then select_image of the first repository. *)
Sync(s) ==
    /\ Is(s, "sync") /\ To(s, "pull")
    /\ composeFile' \in {composeFile, "synced"}
    /\ dotenv' = [dotenv EXCEPT !.repo = Primary]
    /\ UNCHANGED <<fixed, mails, runs, requests, dockerLock, container, store>>

Published(tag) == IF tag = Rolling THEN Images ELSE {tag}
Stored(image, version) == [i \in DOMAIN store \cup {image} |-> IF i = image THEN version ELSE store[i]]

ComposePull(s) ==
    /\ Is(s, "pull")
    /\ \E version \in Published(dotenv.tag) : store' = Stored(dotenv, version)
    /\ Step(s, [pc |-> "up", pulled |-> TRUE])
    /\ UNCHANGED <<fixed, mails, runs, requests, dockerLock, dotenv, composeFile, container>>

PullFails(s) ==
    /\ Is(s, "pull")
    /\ IF script[s].source = Cardinality(DOMAIN Repositories)
       THEN To(s, "restore compose") /\ UNCHANGED dotenv
       ELSE /\ dotenv' = [dotenv EXCEPT !.repo = Repositories[script[s].source + 1]]
            /\ Step(s, [source |-> script[s].source + 1])
    /\ UNCHANGED <<fixed, mails, runs, requests, dockerLock, composeFile, container, store>>

(* compose up: the container runs the local image, pulled if it is missing. *)
Recreate ==
    \E version \in IF dotenv \in DOMAIN store THEN {store[dotenv]} ELSE Published(dotenv.tag) :
        /\ container' = Deployed(dotenv.repo, dotenv.tag, version)
        /\ store' = Stored(dotenv, version)

Up(s) ==
    /\ Is(s, "up") /\ Recreate /\ To(s, "ready")
    /\ UNCHANGED <<fixed, mails, runs, requests, dockerLock, dotenv, composeFile>>

UpFails(s) ==
    /\ Is(s, "up") /\ To(s, "rollback")
    /\ container' \in {container, [container EXCEPT !.up = FALSE]}
    /\ UNCHANGED <<fixed, mails, runs, requests, dockerLock, dotenv, composeFile, store>>

(* wait_container_ready, the ban on downgrades, the removal of duplicates.  *)
Expected(s) ==
    IF runtime # Nothing /\ script[s].current # Nothing THEN {script[s].current}
    ELSE IF dotenv.tag = Rolling THEN Images ELSE {dotenv.tag}
Blocked(s) ==
    script[s].current # Nothing /\ AgentVersion(container) < script[s].current /\ ~AllowDowngrade

AwaitReady(s) ==
    /\ Is(s, "ready")
    /\ \/ /\ IsReady(container) /\ AgentVersion(container) \in Expected(s) /\ ~Blocked(s)
          /\ \/ Step(s, [pc |-> "exit", succeeded |-> TRUE])
             \/ To(s, "exit")        \* compose ps fails after the update
       \/ To(s, "rollback")          \* not ready, not in time, or not identified
    /\ ScriptOnly

-----------------------------------------------------------------------------
(* rollback_docker, and what a failed pull puts back (restore_previous_compose, *)
(* docker tag, restore_original_image, compose up).                         *)

RestoreCompose(s) ==
    /\ \/ Is(s, "rollback") /\ To(s, IF script[s].before.version = Nothing THEN "exit" ELSE "tag")
       \/ Is(s, "restore compose") /\ To(s, "restore image")
    /\ composeFile' = script[s].compose
    /\ UNCHANGED <<fixed, mails, runs, requests, dockerLock, dotenv, container, store>>

\* mutant: the tag is left on the image that has been pulled
KeepTag(s) ==
    /\ Is(s, "tag") /\ To(s, "restore image")
    /\ ScriptOnly

RestoreTag(s) ==
    /\ Is(s, "tag")
    /\ \/ store' = Stored(Ref(script[s].before), script[s].before.version) /\ To(s, "restore image")
       \/ To(s, "exit") /\ UNCHANGED store
    /\ UNCHANGED <<fixed, mails, runs, requests, dockerLock, dotenv, composeFile, container>>

RestoreRepository(s) ==
    /\ Is(s, "restore image") /\ To(s, "restore version")
    /\ dotenv' = [dotenv EXCEPT !.repo = script[s].original.repo]
    /\ UNCHANGED <<fixed, mails, runs, requests, dockerLock, composeFile, container, store>>

RestoreVersion(s) ==
    /\ Is(s, "restore version")
    /\ dotenv' = [dotenv EXCEPT !.tag = script[s].original.tag]
    /\ IF script[s].pulled THEN To(s, "up again") ELSE Step(s, [pc |-> "exit", restored |-> TRUE])
    /\ UNCHANGED <<fixed, mails, runs, requests, dockerLock, composeFile, container, store>>

UpAgain(s) ==
    /\ Is(s, "up again")
    /\ \/ Recreate /\ Step(s, [pc |-> "exit", restored |-> TRUE])
       \/ To(s, "exit") /\ UNCHANGED store
          /\ container' \in {container, [container EXCEPT !.up = FALSE]}
    /\ UNCHANGED <<fixed, mails, runs, requests, dockerLock, dotenv, composeFile>>

-----------------------------------------------------------------------------
(* The EXIT trap: finalize_update_request, then release_update_lock. *)
Finalize(s) ==
    /\ Is(s, "exit") /\ To(s, "release") /\ UNCHANGED mail
    /\ IF ~script[s].claimed THEN UNCHANGED <<processing, failed, answered>>
       ELSE /\ processing' = NoMail
            /\ failed' = (IF script[s].succeeded THEN failed ELSE processing)
            /\ answered' = answered \cup
                   {IF script[s].succeeded THEN processing.id ELSE failed.id}
    /\ RequestStep

Release(s) ==
    /\ Is(s, "release") /\ dockerLock' = Nothing
    /\ script' = [script EXCEPT ![s] = NoScript]
    /\ UNCHANGED <<fixed, mails, runs, requests, deployment>>

Die(s) ==
    /\ deaths < MaxDeaths /\ deaths' = deaths + 1 /\ script[s].pc \notin {"idle", "dead"}
    /\ script' = [script EXCEPT ![s] = [NoScript EXCEPT !.pc = "dead"]]
    /\ UNCHANGED <<working, runtime, mails, runs, requests, dockerLock, deployment>>

(* The message of acquire_update_lock: remove it when no updater runs. *)
RemoveLock ==
    /\ dockerLock # Nothing /\ \A s \in Scripts : script[s].pc \in {"idle", "dead"}
    /\ dockerLock' = Nothing
    /\ UNCHANGED <<fixed, mails, runs, requests, deployment, script>>

ScriptStep(s) ==
    \/ StartScript(s) \/ Acquire(s) \/ Claim(s) \/ Take(s) \/ Target(s) \/ Inspect(s) \/ Sync(s)
    \/ ComposePull(s) \/ PullFails(s) \/ Up(s) \/ UpFails(s) \/ AwaitReady(s)
    \/ RestoreCompose(s) \/ RestoreTag(s) \/ RestoreRepository(s) \/ RestoreVersion(s) \/ UpAgain(s)
    \/ Finalize(s) \/ Release(s) \/ Die(s)

DockerNext ==
    \/ \E tag \in Wanted : Mail(tag)
    \/ \E s \in Scripts : ScriptStep(s)
    \/ RemoveLock

DockerSpec == DockerInit /\ [][DockerNext]_dockerVars

-----------------------------------------------------------------------------
(* No request is lost: each is still asked for, being worked on, kept in    *)
(* .failed, done, or replaced by a later one, although updaters die with    *)
(* a claim in hand (consume_update_request:152-163, finalize:175-189).      *)
RequestsAreAnswered ==
    \A id \in 1 .. mails : id \in answered \cup {mail.id, processing.id, failed.id}

(* An update that is undone with docker's help ends on the container, the   *)
(* settings and the compose file it began with, if .env named the image of  *)
(* that container (rollback_docker:774-798).  The tag matters: the one of a *)
(* rolling release has been moved to the image that failed.                 *)
RollbackRestores ==
    \A s \in Scripts :
        LET u == script[s]
        IN  (Is(s, "exit") /\ u.restored /\ u.original = Ref(u.before)) =>
                /\ container = [u.before EXCEPT !.up = u.before.up \/ container.up]
                /\ dotenv = u.original /\ composeFile = u.compose
=============================================================================
