---------------------------- MODULE ProbeProgress ----------------------------
(***************************************************************************)
(* A long probe and its progress emitter (tasks_long_probe.go; the emitter *)
(* of tasks_mtr_probe.go is the same without its lock).  The probe loop    *)
(* hands every sample to a queue of one place, from which a reporter posts *)
(* events as fast as the control plane takes them.  An update is the       *)
(* number of samples it covers.                                            *)
(***************************************************************************)
EXTENDS Naturals, Sequences

CONSTANT SampleCount          \* sample_count after its clamp to 2 .. 5000

ASSUME SampleCountAssumption == SampleCount \in 2 .. 5000

VARIABLES
    probeCtx,     \* the context of the task: "live" or "dead"
    probePc,      \* where the task goroutine is
    samples,      \* whether each sample so far succeeded
    updates,      \* the channel: at most one update
    updatesOpen,  \* the channel is not closed
    reportCtx,    \* the context of the reporter, cancelled by Close
    reporter,     \* "idle", "posting" or "done"
    gathered,        \* updates the reporter has received
    posted,       \* updates the control plane has acknowledged
    summary       \* the result of the probe: [completed, failures, early]

probeVars == <<probeCtx, probePc, samples, updates, updatesOpen, reportCtx, reporter,
               gathered, posted, summary>>

NoSummary == [completed |-> 0, failures |-> 0, early |-> FALSE]
SummaryOf(s, early) ==
    [completed |-> Len(s), failures |-> Len(SelectSeq(s, LAMBDA ok : ~ok)), early |-> early]

ProbeInit ==
    /\ probeCtx = "live" /\ probePc = "probe" /\ samples = <<>>
    /\ updates = <<>> /\ updatesOpen = TRUE /\ reportCtx = "live"
    /\ reporter = "idle" /\ gathered = <<>> /\ posted = <<>> /\ summary = NoSummary

CancelProbe ==
    /\ probeCtx = "live" /\ probePc # "ended" /\ probeCtx' = "dead"
    /\ UNCHANGED <<probePc, samples, updates, updatesOpen, reportCtx, reporter, gathered,
                   posted, summary>>

-----------------------------------------------------------------------------
(* The task goroutine. *)

Sample(ok) ==
    /\ probePc = "probe" /\ (ok => probeCtx = "live")
    /\ samples' = Append(samples, ok) /\ probePc' = "send"
    /\ UNCHANGED <<probeCtx, updates, updatesOpen, reportCtx, reporter, gathered, posted, summary>>

(* The loop goes on after Emit, or ends with its last sample. *)
AfterEmit ==
    IF Len(samples) = SampleCount
    THEN probePc' = "close" /\ summary' = SummaryOf(samples, FALSE)
    ELSE probePc' = "wait" /\ UNCHANGED summary

\* mutant: an update that finds the queue full is dropped
KeepsQueued ==
    /\ probePc = "send" /\ AfterEmit
    /\ updates' = IF updates = <<>> THEN <<Len(samples)>> ELSE updates
    /\ UNCHANGED <<probeCtx, samples, updatesOpen, reportCtx, reporter, gathered, posted>>

(* Emit: send, or else take the queued update away and send again.  Each    *)
(* select is a step of its own, the reporter may run between them.          *)
TrySend ==
    /\ probePc = "send"
    /\ IF updates = <<>> THEN updates' = <<Len(samples)>> /\ AfterEmit
       ELSE probePc' = "drop" /\ UNCHANGED <<updates, summary>>
    /\ UNCHANGED <<probeCtx, samples, updatesOpen, reportCtx, reporter, gathered, posted>>

DropQueued ==
    /\ probePc = "drop" /\ updates' = <<>> /\ probePc' = "resend"
    /\ UNCHANGED <<probeCtx, samples, updatesOpen, reportCtx, reporter, gathered, posted, summary>>

Resend ==
    /\ probePc = "resend" /\ AfterEmit
    /\ updates' = IF updates = <<>> THEN <<Len(samples)>> ELSE updates
    /\ UNCHANGED <<probeCtx, samples, updatesOpen, reportCtx, reporter, gathered, posted>>

(* waitLongProbeInterval: the timer, or the end of the context. *)
IntervalPasses ==
    /\ probePc = "wait" /\ probePc' = "probe"
    /\ UNCHANGED <<probeCtx, samples, updates, updatesOpen, reportCtx, reporter, gathered,
                   posted, summary>>

StopEarly ==
    /\ probePc = "wait" /\ probeCtx = "dead"
    /\ probePc' = "close" /\ summary' = SummaryOf(samples, TRUE)
    /\ UNCHANGED <<probeCtx, samples, updates, updatesOpen, reportCtx, reporter, gathered, posted>>

(* Close: the channel first, then the context of the reporter, then at most *)
(* a second for it to end.                                                  *)
CloseUpdates ==
    /\ probePc = "close" /\ updatesOpen' = FALSE /\ probePc' = "cancel"
    /\ UNCHANGED <<probeCtx, samples, updates, reportCtx, reporter, gathered, posted, summary>>

CancelReporter ==
    /\ probePc = "cancel" /\ reportCtx' = "dead" /\ probePc' = "join"
    /\ UNCHANGED <<probeCtx, samples, updates, updatesOpen, reporter, gathered, posted, summary>>

(* done is closed, or the second is over. *)
JoinReporter ==
    /\ probePc = "join" /\ probePc' = "ended"
    /\ UNCHANGED <<probeCtx, samples, updates, updatesOpen, reportCtx, reporter, gathered,
                   posted, summary>>

-----------------------------------------------------------------------------
(* The reporter goroutine. *)

Receive ==
    /\ reporter = "idle" /\ updates # <<>>
    /\ gathered' = Append(gathered, Head(updates)) /\ updates' = <<>> /\ reporter' = "posting"
    /\ UNCHANGED <<probeCtx, probePc, samples, updatesOpen, reportCtx, posted, summary>>

(* The post is answered, or fails, at the latest after three seconds. *)
Post(ok) ==
    /\ reporter = "posting" /\ reporter' = "idle"
    /\ ok => (probeCtx = "live" /\ reportCtx = "live")
    /\ posted' = IF ok THEN Append(posted, gathered[Len(gathered)]) ELSE posted
    /\ UNCHANGED <<probeCtx, probePc, samples, updates, updatesOpen, reportCtx, gathered, summary>>

ReporterEnds ==
    /\ reporter = "idle" /\ updates = <<>> /\ ~updatesOpen /\ reporter' = "done"
    /\ UNCHANGED <<probeCtx, probePc, samples, updates, updatesOpen, reportCtx, gathered,
                   posted, summary>>

ProbeNext ==
    \/ CancelProbe \/ TrySend \/ DropQueued \/ Resend \/ IntervalPasses \/ StopEarly
    \/ CloseUpdates \/ CancelReporter \/ JoinReporter \/ Receive \/ ReporterEnds
    \/ \E ok \in BOOLEAN : Sample(ok) \/ Post(ok)

ProbeSpec == ProbeInit /\ [][ProbeNext]_probeVars

(* Progress that is dropped was superseded: when the reporter has nothing   *)
(* left to do and no Emit is under way, it has received the update of the   *)
(* last sample; and what the control plane sees never goes back, whatever   *)
(* way Emit and the reporter interleave (Emit:188-213).                     *)
LatestUpdateIsTaken ==
    /\ \A i, j \in DOMAIN gathered : i < j => gathered[i] < gathered[j]
    /\ \A i, j \in DOMAIN posted : i < j => posted[i] < posted[j]
    /\ (/\ samples # <<>> /\ probePc \notin {"send", "drop", "resend"}
        /\ updates = <<>> /\ reporter # "posting")
          => gathered # <<>> /\ gathered[Len(gathered)] = Len(samples)
=============================================================================
