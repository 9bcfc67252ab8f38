# Verification of nodeping-agent

TLA+ specifications, TLC configurations and TLAPS proofs for the NodePing agent
(`src/`, Go and shell). Every definition is translated from the source; the map in
`PROJECT.json` names the lines each one stands for.

How to run, in this directory:

    tlc -workers 2 -config AgentRuntime.cfg MCAgentRuntime      # any cfg of section 2.6
    tlapm AgentRuntimeProofs.tla                                # any *Proofs.tla

## 1. Inventory

The agent registers with a control plane, keeps a server-sent-events (SSE) connection
open on which it receives *task* and *cancel* events, runs network probes, and posts
their results. Around it stand a supervisor that installs and rolls back new binaries,
and stores of DNS root material that the probes use.

### 1.1 The agent process (`cmd/nodeping-agent`)

| Component | State it keeps | Operations | Talks to |
|---|---|---|---|
| Task stream (`agent_task_stream.go`) | the connection, its context `streamCtx` | connect with backoff, handle task and cancel events, idle timeout, close | spawns a goroutine per delivery; calls `SetLimit`, `Acquire`, `Start`, `CancelTask` |
| Concurrency limiter (`task_concurrency_limiter.go`) | `limit`, `running`, the `changed` channel | `SetLimit`, `Acquire`, `Release` | goroutines of deliveries |
| Task executor (`agent_task_executor.go`) | `accepting`, `running`, tombstones `cancelled` and `completed`, a `WaitGroup` | `Start` and its deferred epilogue, `CancelTask`, `StopAccepting`, `Cancel`, `Wait` | posts "cancelled before execution" from a goroutine of its own |
| Execution and reporting (`agent_task_execute.go`) | one result | `executeAndReport`, `postAgentResultWithRetry` | control plane; `cfg.RestartRequested` |
| Upgrade dispatch (`agent_upgrade.go`) | a request file, or a child process | `runAgentUpgrade` per mode | the updater scripts |
| Process lifetime (`main.go`) | the context tree, `cfg.RestartRequested` | `run`: start loops, select, stop accepting, cancel loops, join, drain, cancel tasks, give up | all of the above |
| Registration, heartbeat, public IP (`agent_lifecycle.go`, ...) | node id, token, last reported IP | periodic posts | control plane, doctor cache |
| Doctor (`doctor*.go`) | snapshot cache of the dependency checks | refresh, read, invalidate | heartbeat |
| DNS observation (`tasks_dns_observation.go`, `internal/dnsengine`, `internal/dnsobs`) | operations, worker pool, process-wide gate, attempt budget | run a batch, cancel, retry over UDP, fall back to TCP | root material |
| Long probes (`tasks_long_probe.go`) | progress queue of one | `Emit`, `Close` | control plane |
| One-shot probes (`tasks_*.go`) | none | one outcome each | network |

What makes these correct:

* limiter: never more holders than the capacity admitted them under, no slot leaked or
  returned twice, nobody asleep while a slot is free;
* executor: an id runs at most once at a time and not again while it is remembered; a
  cancel reaches the running task or the delivery that has not arrived yet; the
  control plane is told the truth; nothing is added once shutdown waits;
* lifetime: a signal or a restart request always ends the process; only a recorded
  successful upgrade asks for a restart.

### 1.2 Installation and upgrade (`deploy/nodeping-agent`)

| Component | State it keeps | Operations |
|---|---|---|
| Container supervisor (`container-entrypoint.sh`) | current and previous binary, activation marker, stability timer | select a binary, start, prove stable, roll back |
| Agent updater (`update-nodeping-agent.sh`) | lock directory, request file, backups, marker | claim, download, verify, back up, install, restart with rollback |
| Docker updater (`update-docker.sh`) | request / `.processing` / result files, compose file, image tag, `.env` | claim, pull, swap, check, roll back |
| systemd units, installers | units and files | run once by an operator |

Correct when every crash leaves a binary that was running before or a new one that will
still be put on probation, when no request is lost or executed twice, and when two
updaters never work at once.

### 1.3 Stores (`internal/dnsroots`), dnstap (`internal/dnstapcollector`), system DNS

| Component | State it keeps | Operations |
|---|---|---|
| Hints store (`hints_store.go`, `hints_manifest.go`) | versioned material, `state.json` with active and previous | activate, recover, discover, roll back |
| Trust anchor (`anchor.go`, `unbound.go`) | live file, snapshots, state | RFC 5011 refresh, last-known-good, rollback |
| Root material loop (`dns_root_material.go`) | next attempt | calls both stores |
| dnstap collector (`collector.go`, `listener.go`, `pairing.go`) | one connection, limits, unmatched queries | accept once, frames, pairing |
| System DNS (`internal/systemdns`) | a snapshot per task, the rotation counter all tasks share | read resolv.conf, scutil or the Windows adapters; select servers and interfaces for a name |

Correct when a crash between two writes never revives older material, when every
dnstap event is accounted for exactly once, and when a name is asked at the servers that own it.

### 1.4 How they interact, and what is hard

Inside the process components share memory under mutexes, wake each other by closing
channels, and pass cancellation down a context tree: `ctx` (signals) above `loopCtx`
above `streamCtx` of each connection; task contexts hang from the executor's own
context, so that a lost connection does not stop a running task. Towards the control
plane posts may be recorded and their answer lost; events may be repeated. Upgrade
components share files only, and any of them may be killed between two writes.

Hard to test: the window between Acquire's check and its select; the two defers of a
task, which free the slot before the id; redeliveries that race both; cancels that come
before, during or after the task; tombstones that expire or are displaced; deliveries
still queued for a slot when shutdown begins; tasks that ignore cancellation; partial
failure of an upgrade, of its report, and of its rollback; updaters that die with a lock
or a request in hand; files written one after the other, any of which may be the last;
an engine and a contract that each derive, from different records, what the other must
agree with. `PROJECT.json` lists each one under `hazards`, at its line, with the
properties that cover it or the reason why none does.

## 2. What is modelled now

| Module | Stands for |
|---|---|
| `CountingSemaphore` | abstract: a semaphore whose capacity may change at any moment |
| `TaskConcurrencyLimiter` | `task_concurrency_limiter.go`; operators, one per critical section under `l.mu` |
| `AgentTaskExecutor` | `agent_task_executor.go`; operators, one per critical section under `e.mu` |
| `AgentRuntime` | extends both and composes them: task stream, goroutine per delivery, reports, `run()` |
| `ContainerUpgrade` | `container-entrypoint.sh` and the part of `update-nodeping-agent.sh` that writes the files they share |
| `SystemdUpdate` | `update-nodeping-agent.sh` under systemd, and the request `agent_upgrade.go` leaves for it |
| `DockerUpdate` | `update-docker.sh`, likewise |
| `RootHintsStore`, `TrustAnchorStore` | the two stores of `internal/dnsroots` |
| `DependencyCache` | the cached readiness of `doctor.go`; the collections and the loop of `dns_root_material.go` that replace the material, and the invalidation, which only the loop does |
| `AgentIdentity` | id and token files: `config.go`, `main.go`, `agent_lifecycle.go` |
| `DNSObservationContract` | what `internal/dnsobs/validate.go` accepts of attempts, evidence and batches; operators only |
| `DNSWireExchange` | extends it: one exchange of `internal/dnsengine`, its conversion, and the joining of a retry; operators only |
| `DNSObservationTask` | extends it: `tasks_dns_observation.go`, worker pool and gate |
| `Positions` | lists made of some elements of another one, for `DNSResponseData` and `SystemDNS`; operators only |
| `DNSResponseData` | what `dnsengine/parse.go` and `observation.go` keep of a response, against the alias rules of `validate.go` |
| `SystemDNS` | `internal/systemdns`, and the planning of system endpoints in `tasks_dns_observation.go` |
| `DnstapCollector`, `DnstapListener` | `internal/dnstapcollector` |
| `ProbeProgress` | `tasks_long_probe.go` |
| `MTRAggregate` | the aggregation of `tasks_mtr_probe.go` |
| `MCAgentRuntime`, `MCSystemdUpdate`, `MCDurableState`, `MCDNSObservation`, `MCSystemDNS`, `MCProbes` | instances for TLC |
| `AgentRuntimeProofs`, `ContainerUpgradeProofs`, `UpdateScriptProofs`, `DurableStateProofs`, `ProbeProofs`, `SystemDNSProofs`, `DNSObservationTaskProofs` | theorems |
| `ListLemmas` | induction, recursion and `Positions`, for the three modules that need them |

### 2.1 The agent process against the code

`Goroutines` are deliveries in flight. One element stands for the goroutine the stream
spawns and for the one `Start` spawns in its place, for the first ends when the second
begins. `pc[g]` runs

    idle -> acquiring <-> selecting          Acquire's loop; a context that is done: idle
         -> admitted -> refused -> idle      Start false: Release
                     -> executing -> reporting -> releasing -> unregistering -> idle

and an action takes `g` along each arrow. `releasing` and `unregistering` are the two
defers in the order Go runs them: slot first, id second. `ctxDone[g]` is `streamCtx` of the
delivery until `Start` accepts it, and `taskCtx` from then on. In `selecting` a done
context lets `Acquire` return without a slot; in `executing` it makes no difference to
the control flow, because whatever ends a task is a result the agent reports.

* *Channels.* `notifyLocked` closes `l.changed` and replaces it, and `Acquire` selects on
  the channel it captured under the lock. What matters of a captured channel is whether
  it is still the current one, so `parked` is the set of goroutines whose channel is
  still open and `Notify` empties it. Capturing and selecting are separate steps of
  the goroutine: a release in between is an ordinary interleaving.
* *Tombstones.* A map from ids to ages. Ages advance with `Tick` up to `TombstoneTTL`; an
  expired entry stays until a method sweeps, as in the code. The trim drops one of the
  oldest others; entries of one tick have no order in the model and any may go.
* *Empty id.* The code accepts a task without an id and never registers it: `NoID`.
  What is reported of such a task is not kept in `reported`.
* *Limits.* `max_concurrency` comes with each task event and is applied in the reader
  before the delivery's goroutine is spawned: `Deliver` does both.
* *Reports.* `Report(g, recorded, acknowledged)`: the control plane may record a result
  whose answer is lost. The restart is requested only on acknowledgement.
  `PostCancelReport` is the goroutine `CancelTask` spawns, which nobody waits for;
  `cancelReports` is a set of ids.
* *Upgrades.* Only container mode sets `restart_required` (`RequestsRestart`). In the other
  three modes an early failure panics (section 4).
* *Shutdown.* `main` has a value per statement of `run()` after its select. `MainJoinsLoops`
  waits for the stream loop; the other loops share no state with the tasks, run under the
  same context, and are assumed to end with it. `Wait` calls `StopAccepting` again, which is idempotent
  and not repeated. `MainCancelsTasks` and `MainGivesUp` are the two timers; when `run()`
  returns, or the process panics, every other goroutine stops with it (`Stopped`).

Left out on purpose: the contents of tasks and results; the `running` event posted
before execution, whose failure the code only logs; SSE framing, retries and backoff
durations; start-up (flags, state files, registration), which runs once and before any
concurrency.

History variables: `reported` (what the control plane holds of each task) and `memory`
(ticks since each id was last finished or cancelled, and which ids were settled in the
same way since). No action's guard reads them.

### 2.2 The container upgrade against the code

Four processes share the files `active`, `backup` and `marker`. The *supervisor* is the
loop of `container-entrypoint.sh`; `sup` is where it is:

    select -> read -> judge -> launch -> waiting -> settle -> select
                        |                             |
                        +-> discard                   +-> discard
                        +-> rollback -> swap -> unmark <-+

It selects a binary and reads its version in two steps, because an updater that lost its
agent may replace the binary in between (`launched` is then not what `runs`). `discard`, `swap`
and `unmark` are the single commands that change a file. After a rollback in `judge` the
binary is selected anew and launched without a second judgement (`judged`). The *timer* is
the subshell that checks the marker after the stability window and then removes it, in
two steps. The *agent* may exit at any time; its exit status does not matter to the
supervisor. The *updater* runs from the choice of a release, through the backup, which
`install` overwrites in place and which is torn until it is complete, to `Install` and
`Mark`, which are two renames.

A binary is its version, a number in the order of `semver_compare`. `Image` is the binary of
the image, taken to be older than every release; were it newer, the requests would be
refused as downgrades. `Torn` is a file that reports no version. Downloading, checksums and
signatures are the choice of `target`. `cp` may fail in the supervisor, which runs without
`set -e`: `RollbackStages` then moves a torn copy on. In the updater a failed command ends the
script, which is `UpdaterKilled`, as are the task's deadline and a cancel. `ContainerRestarts` is
any end of the container, graceful or not, and its restart on the same files.

The update lock is taken to work: no second updater starts while one is alive.
`SystemdUpdate` models the lock itself.

History variables: `proven` holds the image and every version the timer activated since it
was last installed; `disturbed` becomes true when an updater is interrupted between
`Install` and `Mark`, when its agent dies under it, or when an upgrade starts while an
earlier candidate is not activated. Section 4 shows what a disturbance does.

### 2.3 The updaters of a host against the code

`SystemdUpdate`. The agent leaves a *request* (`Ask`) or calls the script; a path unit, a
timer or an operator starts an updater (`Start`). `pc` of an updater follows the script:

    preflight (read request, unlink it, check settings)
      -> lock (mkdir) -> sign (write pid)        the directory exists: inspect, remove pid,
      -> choose -> download -> backup            remove directory, mkdir again
      -> install -> restart -> ready -> undo -> undone -> exit (release pid, release lock)

Every command that touches the lock is a step of its own, because the script is not alone.
A version is its place in `Releases`, whose elements are the pre-release identifiers
`SemverCompare` compares; what a download yields is a choice among what the proxy and the
source may answer (`Answers`), verified under the signature policy (`Verifies`).
`restart_with_rollback` runs with errexit off, because it is called in an `if`: when its `install`
fails (`Undo`), the `mv` after it still moves what there is of the copy, and the disk keeps the new
binary or gets a file `CutShort`, which tells no version and is backed up or not, as its
mode has it. `exclusive`, `obeyed` and `copied` are history: whether the lock has kept the others
out, whether systemctl has done what it was told, and whether an updater could copy its backup
back. Kills and reboots are bounded by `MaxUpdaterKills`.

`DockerUpdate`. A tag is a version or `Rolling`; the registry maps `Rolling` to an image that
may move between two pulls. `container`, `dotenv` and `composeFile` are what the host has,
`mail`, `processing` and `failed` the three request files, `script[s]` the locals of an
updater. The order of the reads is the code's: the image is read from `.env` before the
lock is taken and the tag after it. Left out: build mode; settings that the environment
overrides; an empty `NODEPING_AGENT_IMAGE`; a failing `cp` of the compose file. Bounds:
`MaxMails`, `MaxScripts`, `MaxDeaths`.

### 2.4 Durable state against the code

Both root material stores hold a file lock during an operation, read the disk, decide,
and then write whole files one at a time, each by write, sync and rename. An operation is
the *plan* its reads lead to, a sequence of writes, and one step per write. At any of
them the process may be killed or the write may fail; between operations a file may be
damaged (`Torn`, `Damaged`) or lost. `MaxFaults` and `MaxAnchorFaults` bound those. Versions
and anchors are numbers in the order of their hashes, which is the order that breaks ties
and in which directories are listed. Parsing and signature checks decide whether a
manifest is accepted; `unbound-anchor` is external and may leave any of `Anchors`, of which
`unbound-checkconf` accepts `Good`.

`DependencyCache` counts time in ticks. The material on disk has a *generation*, and every
operation that takes the stores' lock may begin another one (`MayReplace`). A collection runs
outside the cache's lock; it activates the delivered hints, reads the material and stores what
it saw later (`ActivateMaterial`, `ReadMaterial`, `StoreFill`). The refresh does likewise and then
invalidates the cache, the initial one only if it succeeded. Collections invalidate nothing,
neither that of a heartbeat nor the uncached ones (`OtherCollection`: the doctor task, a
dependency fix, the doctor command in a process of its own), so the property counts from the
moment material was replaced (`appeared`), by whomever; what it says of an invalidation is
a clause of its own.

`AgentIdentity` follows a start from `loadConfig` to the loops; its files are rewritten in place,
so truncation and write are two steps, and a kill (`Ends`) may come between any two. What the
environment sets is fixed over a behaviour (`setting`): no id, a legacy one or a UUID, an agent
token or none, a binding token or none. A configured UUID wins over the stored one
(`config.go:231-233`), so an agent that the server renamed is back under the configured id after its
next start; `AgentKeepsItsID` allows this and no other return. A registration may
name no id, and an answer without a token ends the process (`NoTokenReturned`).

### 2.5 Measurements against the code

*DNS observation.* `DNSObservationContract` has the contract's rules as predicates on an
observation: the attempts with their protocol, status, code and size; the attempt that
owns the evidence; times as the attempt they come from. `DNSWireExchange` builds every
exchange the engine can produce from a sequence of `Reply` values, one per physical attempt
(error, size class, TC bit, whether a valid prefix was read, body), through the UDP to
TCP fallback, and joins a retry to it. What a protocol can answer is its own: only a datagram or
HTTP hands on a message shorter than a header, only HTTP carries one over the limit, and only
DoQ reads a whole message and then fails because the stream does not end (`Unfinished`). `DNSObservationTask` runs them: feed, workers, gate,
budget, interruption by a cancel or the deadline, batch, report. `DNSResponseData` covers what the
first three abstract to "the evidence": a name is a sequence of labels, an answer a
sequence of records of size one; `Convert` keeps RRsets under the limit and derives chain
and outcome from everything, `Fits`, `Probe` and `Retain` are `FitObservationToBytes` with its
binary search, and `Accepts` is the contract on what is left. Additional and authority
sections and EDNS are evidence whose removal may or may not suffice.

*System DNS.* `SystemDNS` reads what the platform reports, one resolv.conf line (`ReadLine`),
scutil block (`ReadBlock`) or Windows adapter (`ReadAdapter`) per step, then plans one
operation of the task after the other (`PlanOperation`). `Select` is the code's: candidates,
refusal, stable sort (`Stable`, which inserts as `sort.SliceStable` does), each endpoint once, rotation
by a counter that other tasks advance in between. An address is its family, its class and a host; `wellFormed` stands for the checks
of single lines and properties. The property is stated over the configuration and uses none
of the selection's operators.

*dnstap.* `DnstapCollector` reads a stream frame by frame under the limits and pairs at the
end; a frame is its kind, key, times, query bytes, size and whether it decodes.
`DnstapListener` has an action per stretch between two lock operations of `Accept` and
`Close`; local processes may connect at any time, and another program of the same user may write
into the work directory (`Meddle`). The cleanup refuses what is no socket and may fail
(`CleanupEnds`), which `Close` reports (`closeErr`); only then may anything be left on disk.

*Progress and mtr.* `ProbeProgress` splits `Emit` into its three selects (`TrySend`, `DropQueued`,
`Resend`), which interleave with the reporter. `MTRAggregate` reads the lines of an mtr that
numbers its probes or of one that does not (`dialect`), in any order, lost or repeated. Only the replies decide which of the two it
is: the probe lines of one behaviour may be numbered or not, line by line.

### 2.6 Runs

| Run | Instance | Shows |
|---|---|---|
| `agent_runtime` | 3 goroutines, limit 1..2, one upgrade task and the empty id, requests 1 and 3 | types; slots counted exactly; no lost wakeup; no task added once `run()` waits; the limiter refines `CountingSemaphore` |
| `agent_tombstones` | 2 goroutines, 3 ids and the empty one, limit 2, two tombstones per map, TTL 2 | registry is the set of tasks at work; no second start of a remembered id |
| `agent_liveness` | 2 goroutines, one container upgrade, limit 1, fairness | shutdown always completes; no delivery hangs; restart only after a recorded upgrade |
| `container_upgrade` | 3 releases, every fault | the supervisor never ends without a binary; an activated version is not rolled back; undisturbed, candidates are launched on probation, have an activated backup, and their probation ends |
| `durable_state` | 3 hints versions and 2 faults; 3 anchors and 2 faults; 8 ticks; 4 ids and 3 kills; 2 updaters over 3 releases and 2 sources; 2 docker updaters over 2 images and 2 repositories | stores recover to intact and never older material; the cache forgets; the identity stays, unless server, host or a torn file change it; an updater reports what is true, undoes what fails if it can copy its backup back, refuses downgrades and loses no request |
| `probes` | every reply of one operation, a pool of two workers, two tasks at the gate; answers of 4 records; resolv.conf of 4 lines, 3 scutil blocks, 3 Windows adapters; 4 dnstap frames; 2 Accept and 2 Close; 4 samples; 5 mtr lines | what is measured is accepted by the contract; the pool never stalls; names go to the system servers that own them; dnstap is exact or says so; the latest progress is sent; counters are coherent |
| `agent_cancel_report`, `agent_upgrade_panic`, `container_probation`, `identity_migration`, `empty_response`, `update_lock` | smallest instances | findings, section 4 |

`durable_state` and `probes` put several components that share no variable into one instance:
`unit`, chosen in the initial state, names the one a behaviour runs while the others
rest, so that their state spaces add up. Each component's invariant is checked on the
behaviours of its unit; on the others it holds of the initial state.

Why the bounds are enough to meet the interesting cases. Three goroutines over a limit
of 1..2 give a holder, a sleeper and a third that takes the slot the sleeper was woken
for, and a limit that falls below the slots handed out; a request of 3 meets the cut of
`normalizeTaskConcurrencyLimit`. Three ids over two tombstones per map are
the smallest instance in which the trim has a choice between entries other than the one
just recorded. A TTL of 2 separates "just now", "some time ago" and "expired". Two goroutines with a limit of 1 are the smallest
queue. Three releases let a second upgrade follow a
failed or activated first one, over the image, over a torn binary and over a rollback.
Three hints versions, two of them published at the same time, give a current, a previous
and one more, with a tie; two faults are one more than the stores promise to survive, and
the properties say which. Releases `1.0.0-beta.2`, `1.0.0-beta.11` and `1.0.0` make numeric,
textual and absent identifiers meet. Two images and a rolling tag are enough for a tag
that moves under an updater. Three dnstap frames beyond the limit, two keys and a repeated query make
ambiguous pairings; a name under two DNAMEs, a loop of CNAMEs and a DNAME that lengthens
names, with chains cut at two hops and names at three labels, reach every branch of the
alias walk. Four lines fill the three slots of resolv.conf; three blocks are a default, a domain
and a closer one, with a server or without; three adapters are two that compete and the
loopback whose metric a third one's server needs.
No counter of the model grows without bound: `slots` is bounded by the
goroutines, ages by the TTL; server and clock may act for ever; all others have a constant named
`Max...`. Symmetry is used in runs without liveness only, over sets the specification never
tells apart (goroutines, updater processes).
`agent_tombstones` also has a view that drops `reported` and `cancelReports`: its properties
do not mention them and no other variable depends on them.
The runs of the agent and of the container do not switch deadlock checking off: a process
that ended stutters by `Terminated`. The others do: their operations come to an end, or to
a bound.

Every property of a passing run has a mutant, an operator next to the one it replaces
(`TakeSlotOffByOne`, `ReleaseSilently`, `TrimmedYoungest`, ...), with which TLC finds the
property violated.

### 2.7 Fairness

`FairSpec` of `ContainerUpgrade` assumes that a shell script goes on to its next command and
that `sleep` ends, and nothing of the agent: `ProbationEnds` says in its statement that
upgrades and restarts cease. `FairSpec` of `AgentRuntime` assumes what the Go runtime and the timers provide and no more: a goroutine
that can take a step takes one (`Admission`, `ReleaseSlot`, `Finish`); a post ends, because
each attempt has a deadline and the attempts are counted (`Report`); a reader whose
context is done returns, and its loop with it; `run()` moves on, and its two timers fire
(`config.go:116-121` bounds the drain between 15 s and 2 min). Nothing is assumed of the
control plane, of signals, of the connection, or of a task ending: `ShutdownCompletes`
holds although tasks may hang and the server may deliver for ever. `DeliveriesSettle`
has its assumptions in its statement: tasks end and deliveries stop. Without the second, a
sleeper may be overtaken for ever by new deliveries, for `Acquire` is not a queue.
The other modules state safety only and have no fairness.

## 3. What is proved

### 3.1 The agent process

`AgentRuntimeProofs.tla`, checked by TLAPS for every value of the constants that meets
the three named assumptions (`LimiterAssumption`, `ExecutorAssumption`,
`RuntimeAssumption`): finitely many goroutines, positive bounds, default limit within
the maximum, `NoID` not a task.

| Theorem | Property | Argument |
|---|---|---|
| `TypeCorrect` | `TypeOK` | inductive as it stands; the limit's range is the content of `NormalizeLimit` |
| `SlotsCorrect` | `SlotsAccounted` | lemma `SlotSteps`: every step keeps the holders and the counter, adds one of each, or removes one of each |
| `LimiterIsSemaphore` | `RefinesSemaphore` | the same classification: kept is a stutter or `Resize`, added is `Enter`, removed is `Leave` |
| `NoWakeupIsLost` | `NoLostWakeup` | a step that frees a slot or moves the limit empties `parked` |
| `RegistryCorrect` | `RegistryMatchesTasks` | only `Register` adds to `Started`, and it adds the id with it |
| `WaitRacesWithNoAdd` | `NoAddAfterWait` | strengthened with `AdmissionClosed`: past `stopAccepting`, `accepting` is false and stays so |
| `RememberedTasksStayDown` | `NoStartWhileRemembered` | `TombstonesRemember`: an id settled less than a TTL ago is in its table with the age it is remembered by, or was displaced by as many newer ones as the table holds |
| `RestartIsReported` | `RestartOnlyAfterReport` | under the extra hypothesis that the mode is `disabled` or `container`; elsewhere it is false (section 4) |

`SlotsAccounted` alone is not inductive: it needs the types of `pc` (a goroutine is at one
place) and the finiteness of `Goroutines`, for otherwise cardinalities say nothing.
`NoAddAfterWait` is an action property, and is false of arbitrary states: that Start may
not accept in `draining` follows from a fact established two statements of `run()`
earlier, which is what `AdmissionClosed` carries along.

### 3.2 The container upgrade

`ContainerUpgradeProofs.tla`, for any set of positive numbers as releases
(`ReleasesAssumption`).

| Theorem | Property |
|---|---|
| `UpgradeTypeCorrect` | `TypeOK` |
| `SupervisorSurvives` | `NeverStranded` |
| `BackupCorrect` | `BackupIsProven` |
| `CandidatesWatched` | `ExpectedCandidatesAreOnProbation` |
| `RollbackSparesActivated` | `ActivatedStays` |

None of them is inductive. `IInv` has a part that holds whatever happens (`SelectionRuns`: only
the supervisor itself can make the binary it selected unrunnable, and it does not between
selecting and waiting; this is also what makes `TypeOK` inductive, for `runs` is a version)
and one for undisturbed behaviours (`Orderly`): while an updater writes, the supervisor waits
for a live agent and no candidate is around (`UpdaterOrderly`); the marker names the
installed candidate, except in the middle of a rollback and of an installation
(`MarkerOrderly`); the backup is proven or not runnable (`BackupOrderly`). Each of the three parts
needs the other two. `ActivatedStays` is an action property; `RollbackDeserved` carries from the
judgement to the rename of the rollback that the binary about to be replaced is not one that
was activated.

### 3.3 The updaters of a host

| Theorem | Property | Inductive invariant |
|---|---|---|
| `ReportsAreTrue`, `FailuresAreUndone`, `DowngradesNeedConsent` (`UpdateScriptProofs`) | `OutcomeIsTrue`, `FailedUpdateIsUndone`, `DowngradeNeedsConsent` | `SysInv`: while `exclusive` holds, only the owner of the lock is between `choose` and `exit`; what it recorded of the installed binary, of its backup and of the service is what the disk and the service hold; the history flags cover what systemctl did not do (`obeyed`) and a backup that was not copied back (`copied`), after which nothing is claimed of the version on disk beyond what the updater reports |
| `RequestsAreKept` (`UpdateScriptProofs`) | `RequestsAreAnswered` | `LockIsExclusive`: who is past the lock owns it; `ClaimIsClear`: between the two renames of a claim there is something to take and nothing where it goes |
| `RollbacksRestore` (`UpdateScriptProofs`) | `RollbackRestores` | `WayBackInv`: once an updater has noted what it found, each of container, `.env` and compose file is what it noted or one of its remaining undo steps restores it |

`DowngradesNeedConsent` rests on `semver_compare`: `ReleasesAscend` assumes that `Releases` are listed
in the precedence of Semantic Versioning (`Precedes`), defined without the script's loop, and
the proof shows that `SemverCompare` agrees with it for every pair. Other assumptions:
`DockerAssumption` (no updater is called `Nothing`, there is a repository). The docker proofs
need nothing of what the registry or docker answer, and show why the property depends on the
lock: were two updaters past it, the second could rename its claim over that of the first.

### 3.4 Durable state

| Theorem | Property | Inductive invariant |
|---|---|---|
| `NamedHintsLoad`, `RefreshesGoForward`, `IntactHintsAreFound` (`DurableStateProofs`) | `StateNamesIntactHints`, `HintsNeverGoBack`, `IntactHintsAreServed` | `HintsInv`: for the operation under way, what its plan has left to write, with what is on disk, makes every version the state will name complete |
| `SelectedAnchorIsLive` (`DurableStateProofs`) | `LiveAnchorIsSelected` | `AnchorInv`: likewise, with one predicate per kind of file still to be written (`ValueLeft`, `MetaLeft`, `LiveLeft`, `StateLeft`), or the plan meets a damaged snapshot and gets no further than it (`Meets`) |
| `AnchorsSurvive` (`DurableStateProofs`) | `AnchorSurvivesOneFault` | `Survival`: until the first fault the anchor of an agent that has had one is both live and in the state, after it at least one of the two unless a snapshot file is damaged; no write repairs a damaged file or replaces it (`FitWrites`) |
| `CacheForgets` (`DurableStateProofs`) | `StaleReadinessExpires` | `FillsAreTimed`: a collection that saw older material began before the next generation appeared; `EntriesExpire`: what it stored expires a lifetime after that; `ReportsAreTimed`: no report of it is later; generations appear in the order of time, whoever replaces them |
| `IdentityStored`, `IdentityKept` (`DurableStateProofs`) | `RunningIdentityIsStored`, `AgentKeepsItsID` | `FilesFollow`: each file agrees with the configuration from the step that writes it on; `IDIsCarried`: the last id is on disk, except while its file is truncated; `GivenIsTaken`: a start of a host that configures a UUID runs under it until the server renames it |

The stores' invariants are about plans, not about kinds of operations: a plan may be cut
anywhere, so what counts is what its remainder still does. That makes one proof serve
refresh, recovery and rollback. `IntactHintsAreFound` needs that a finite set of intact versions has a
best one in the order the code sorts by, which is why `Versions` and `Anchors` are assumed
finite. `CacheAssumption`: a collection is cut off before a snapshot expires, and there is material
to begin with (the absence of any is a generation too);
`IdentityAssumption`: an id and a token can be issued.

### 3.5 Measurements

| Theorem | Property | Inductive invariant |
|---|---|---|
| `EvidenceIsOwned`, `ReportsAreHonest`, `BatchesAreAccepted`, `TasksNeverStick` (`DNSObservationTaskProofs`) | `EvidenceHasOneOwner`, `ReportTellsFailures`, `BatchIsAccepted`, `NobodyIsStuck` | `TaskInv`: every operation is with the feed, with one worker, or completed with an observation made from its own replies; a busy worker of a task whose context is done can end; permits of the gate are those its holders took |
| `ExchangesAreAlwaysObservable` (`DNSObservationTaskProofs`) | `ExchangesAreObservable` | `ExchangesOK`, next to `TaskInv`: no operation failed inside the agent; one that waits for its retry holds a first exchange (`EndedOnce`) whose retry is within its budget, one that waits for TCP holds a truncated UDP response (`Half`) |
| `ResponsesAreAlwaysReported` (`DNSObservationTaskProofs`) | `ResponsesAreReported` | `ResponseInv`: what is kept holds records of the answer only, and the answer does not contradict itself; the observation has the whole answer with the engine's chain (`Whole`), or no chain and says so (`Unchained`); the outcome is that of everything received |
| `CompleteMeansWhole`, `ExactIsForced` (`ProbeProofs`) | `CompleteIsWhole`, `ExactPairingIsForced` | `TapInv`: the events kept are those of the frames read, in their order, and a frame is missing only if the result says so; that a pairing is forced follows from the counts of candidates, whatever the order |
| `CountsCohere` (`ProbeProofs`) | `MTRCountsAreCoherent` | `MTRInv`: the probe numbers of a hop and of its paths are sets in which an answer has a question; sums over a finite map are cardinalities of disjoint unions |
| `NamesAlwaysGoToTheirServers` (`SystemDNSProofs`) | `NamesGoToTheirServers` | `SystemInv`: until the discovery ends, the resolvers are exactly those the entries read so far offer (`EntriesRead`), after it those of all entries (`AllRead`); every name in the plan has what it is owed (`Owed`) |
| `OneIsServed` (`ProbeProofs`) | `OneConnectionIsServed` | `OneAccepts`, `OneCloses`: one caller of each is past its first lock, and the flags say how far |
| `LatestIsTaken` (`ProbeProofs`) | `LatestUpdateIsTaken` | `QueueIsNewest`: what is queued is newer than what was taken and older than the sample being emitted; `LatestIsKept`; `PostsFollow` |

The argument of `ExchangesAreAlwaysObservable` has three parts. An exchange, with or without its
retry, ends in one of five ways (`Evident`: answered, unreadable, a header alone, nothing, or
the truncated UDP response that TCP did not replace) after one of five transcripts
(`Physical`); `EndedAlone`, `EndedTwice`, `EndedAfterRetry`, `EndedAfterTCPRetry` and `PromotedEnded`
show that of every path through the engine and the two ways to join a retry. `Shaped` and
`Attributed` reduce the transcripts to one form and name the attempt the evidence
belongs to. From these alone `EndedConverts` shows that `ToObservation` refuses nothing and
`ObservationWired` with `WiredIsAccepted` that the contract refuses nothing, also when the end of
the task replaces the retry. The theorem is about `RareReplies = {}`. Neither of
the two can be added: `"empty"` is the finding `empty_response`, and `"late"` is a TCP answer
shorter than a header, with the TC bit, read as the deadline passes: the attempt
is a timeout with a TC bit, which `validateTerminalAttemptError` does not accept after a fallback.

The argument of `ResponsesAreAlwaysReported` has two parts. A list of whole RRsets is a part of the
answer, and a part does not contradict itself either unless one DNAME lies below another
(`PartsAgree`): of two owners above one name, one is below the other (`AboveIsOrdered`), so the closest
DNAME of the part is the closest of the answer. And the two walks along the aliases agree
while no name is too long: what was walked stays (`WalkGrows`), so every name either side
appends is one of the finished chain (`SameWalks`); they can differ only in what would follow the last name
(`ChainsAgree`), which is the second exception. The outcome needs that a chain begins with the
name asked for, and that there is one as soon as there is a first alias (`FirstHop`).

The argument of `NamesAlwaysGoToTheirServers` has three parts. `Tells` says what the resolvers
found so far have to do with the entries read: each is the first of its endpoint in the list one
entry offers, all of these are there, and in the order of the entries; `AddResolvers` keeps
that (`TellsNext`). `Sifted` says what the selection keeps of the resolvers it considers: every
endpoint once, at a place that precedes its others, if the comparison is a total order
(`StableIsSorted`, `DistinctIsSifted`); moved back by the rotation it is the plan (`OrderTells`).
And per platform the two together are what the configuration alone says (`LinuxIsOwed`,
`DarwinIsOwed`, `WindowsIsOwed`): the preferred routes are those of the owners (`PreferredOwns`), also
without the routes that have no server, because the name is not refused (`PreferredAmong`);
`lessDarwin` is total, and `lessWindows` is when every adapter has one metric
(`DarwinIsTotal`, `WindowsIsTotal`); the best route the agent finds is the cheapest there is (`CheapestIsBest`).

Assumptions: `SystemDNSAssumption` (the shape of a configuration: lists of entries and routes,
at most one order per scutil block, finitely many servers of a block, metrics and indices that
are natural numbers), `ResponseAssumption` (names are sequences of labels, records of three types, the five
groups of response codes, a chain may have a hop), `ProtocolsAssumption` (UDP and TCP are among the protocols), `RequestsAssumption` (with
the range of `maxAttempts` that `NormalizeLimits` enforces), `FramesAssumption`,
`DialectsAssumption` (an mtr numbers all the replies it reports or none), the shape and finiteness of what else is enumerated, `MaxStream` a natural
number, `SampleCountAssumption` (the range the task validation allows).

Several of these need induction over data, which the provers cannot use as the library states
it, with an operator as a parameter. The proofs use it in the form of sets: the set
of indices at which a claim fails, if not empty, has a least element (`WFMin` with the order
of the natural numbers), and that one is refuted (`RecursionExists`, `UpTo`, `GreatestExists`, `SmallestSubset`).

### 3.6 What is only model-checked

* Liveness (`ShutdownCompletes`, `DeliveriesSettle`, `ProbationEnds`), because TLAPS does not
  reason about fairness and `ENABLED`.
* The runs that expect a violation show counterexamples; there is nothing to prove.

Every invariant and every action property of a passing run is stated by a theorem.

## 4. Findings

* **A failed upgrade kills the agent** (`agent_upgrade_panic`). Outside container mode the
  upgrade helpers return `nil, err` on early failures, and `runAgentUpgrade` writes
  `result["agent_upgrade"]` before it looks at the error (`agent_upgrade.go:46` and
  following). The write panics, nothing recovers, and the process dies with its other
  tasks and without a report, while `README.md:201` has the agent leave after a reported
  success and `main_test.go:796` requires a failed upgrade not to take it down.
* **"Cancelled before execution" of a task that ran** (`agent_cancel_report`). `CancelTask`
  consults `running` and `cancelled` but not `completed`. A cancel that arrives after the task
  finished is reported with the message of `agent_task_executor.go:113`, next to the
  result the control plane already holds.
* **An interrupted update escapes probation** (`container_probation`). The candidate is moved
  into place before its marker is written (`update-nodeping-agent.sh:1177`, `1188`). If
  the updater is killed in between, by the deadline of its task or with the container, the
  supervisor later launches the candidate as if it had been activated, and a crashing one
  again and again, while `README.md:201` promises that `nodeping-agent.previous` is restored. A
  retry finds the binary up to date and restarts the agent into it.
* **A migrated id is written before the server knows it** (`identity_migration`). With a legacy
  id and a stored token `loadConfig` makes up a UUID, and `prepareAgentState` writes it
  (`main.go:149`) before any registration. `README.md:14` says that it is written after the
  registration succeeded.
* **An empty response is an internal error** (`empty_response`). A datagram of zero bytes, or
  a length prefix of zero, is a response that fails to parse, but its size of 0 makes the
  conversion treat it as no response (`observation.go:523`); what is left is not an observation
  the contract accepts, and the operation fails as an internal error.
* **Two updaters can own the lock** (`update_lock`). The pid is written after the directory is
  made (`update-nodeping-agent.sh:78-80`). An updater that looks in between takes the lock for
  a dead one, removes it and makes its own (`:95-96`).

Others were met while modelling and are excluded by name in the property concerned:

* `FitObservationToBytes` keeps RRsets in wire order. If an answer has one DNAME below
  another, a crop may keep the outer one and the CNAME that follows from the inner one; the
  contract calls that conflicting evidence and the observation becomes an error, against
  the comment at `observation.go:839` ("until the normalized observation fits"). The exception
  is `NestedDNAMEs` in `ResponsesAreReported`.
* A DNAME may lengthen a name beyond 255 octets. `buildAliasChain` (`parse.go:1034`) stops there and
  marks the chain as truncated; `validate.go:1101` derives the chain again and takes the
  name that does not fit for an error, so the whole observation is refused. The exception is
  `EndsBeforeLongName`.
* `lessWindows` is not an order when the servers of one adapter have routes of different metrics. Take
  an adapter that lists a server of metric 50 before one of 10, and another adapter with one
  of 30: the three precede each other in a circle, and which of them comes first depends on the
  order in which the adapters were discovered, against the comment at `selection.go:266` ("Across adapters,
  prefer the complete metric of the route that will dial the server"). The exception is
  `AdaptersAreUniform` in `NamesGoToTheirServers`.
* `update-docker.sh` reads the image before its lock and leaves the requested tag in `.env` when
  it dies. The next updater may then restore a pair that never ran. `RollbackRestores`
  speaks of updates whose `original` names the container they found.
* A rollback whose copy of the backup fails puts an incomplete file in place or keeps the new
  binary. If the binary found at first told no version, readiness expects none either, and
  a new binary that comes up at the second attempt is reported as `rollback_succeeded`, "service restored
  previous binary" (`update-nodeping-agent.sh:711`). `OutcomeIsTrue` vouches for the version only if
  there was one, and `FailedUpdateIsUndone` speaks of updates that could copy their backup (`copied`).

## 5. Plan

The modules, runs and theorems above are complete. What could be stated next are promises the
repository does not make today, each about a hazard that the models contain and no property covers:

| | What | How |
|---|---|---|
| 1 | A marker written while the stability timer removes the last one keeps its candidate on probation | a property of `ContainerUpgrade` over the behaviours now marked disturbed, once `container-entrypoint.sh:110` compares and removes in one step |
| 2 | A request that arrives during a systemd update is answered | `RequestsAreAnswered` for `SystemdUpdate`, once `update-nodeping-agent.sh:990` takes the lock first |
| 3 | A rollback restores what ran, whoever updated before | `RollbackRestores` without its condition on `original`, once `update-docker.sh:298` reads `.env` under the lock |

## 6. Not modelled, and why

* Installers and units run once, by an operator, and have no concurrency of their own.
* Heartbeat, public-IP and latest-version loops are independent periodic posts; the atomic
  replacement of the two hint files they write is left out with them.
* One-shot probes other than mtr are network I/O and text parsing; each is one
  nondeterministic outcome of `Execute`.
* Of `dnsobs` the canonical forms of RDATA and the fingerprints are conversions of single
  values without control; of `dnsengine` the construction of queries and the parsing of bytes.
* Build and release scripts are developer tooling; `third_party` is not this project's code.

`PROJECT.json` lists each component with its status.
