----------------------------- MODULE MTRAggregate -----------------------------
(***************************************************************************)
(* The mtr probe (tasks_mtr_probe.go): raw output is aggregated line by    *)
(* line into counters per hop and per path of a hop, every completed cycle *)
(* is emitted, and when the raw mode yields nothing a plain report takes   *)
(* its place.  Latencies, the diagnostic text and the parsing of the       *)
(* report are left out.                                                    *)
(***************************************************************************)
EXTENDS Naturals, Sequences, FiniteSets, FiniteSetsExt

CONSTANTS
    MaxHops, ReportCycles,
    RawDialects,     \* the sets of raw lines to explore, each a set of events
                     \* [kind, hop, seq, path]: an mtr numbers its replies or does not
    MaxRawLines      \* bound: lines of one run

ASSUME MTRAssumption == MaxHops \in 1 .. 64 /\ ReportCycles \in 1 .. 100

(* An mtr numbers every reply it reports or, an old one, none of them: the  *)
(* parser takes both, and mtr, which is not part of this code, is one of    *)
(* the two for the whole run.  Its probes are numbered or not, line by line.*)
ASSUME DialectsAssumption ==
    \A d \in RawDialects :
       LET replies == {e \in d : e.kind = "p"}
       IN  (\A e \in replies : e.seq # 0) \/ (\A e \in replies : e.seq = 0)

VARIABLES
    dialect,       \* the lines of the mtr this behaviour runs
    hops,          \* hop -> its statistics, for the hops seen
    completedCount,
    lastEmitted,
    emitted,       \* completedCount of every summary handed to emit, in order
    lines,         \* lines read so far
    transmitted,   \* rawTransmits > 0
    mtrResult      \* [summary, err, stopped] when the probe has ended

mtrVars == <<dialect, hops, completedCount, lastEmitted, emitted, lines, transmitted,
            mtrResult>>

(* Sequence numbers are positive, 0 is an event without one.  A path is     *)
(* written as an address in canonical form or not, or as a host name.       *)
Canonical(path) == path.address
NoPath == "unknown"
NewHop == [sent |-> 0, received |-> 0, sentSeq |-> {}, replySeq |-> {},
           current |-> "", paths |-> [p \in {} |-> 0]]

(* hopStats: nothing beyond max_hops is counted. *)
Counted(hop) == hop \in 1 .. MaxHops
StatsOf(hop) == IF hop \in DOMAIN hops THEN hops[hop] ELSE NewHop
SetHop(hop, stats) ==
    hops' = [h \in DOMAIN hops \cup {hop} |-> IF h = hop THEN stats ELSE hops[h]]
SentCount(hop) == IF hop \in DOMAIN hops THEN hops[hop].sent ELSE 0
With(paths, p, n) == [q \in DOMAIN paths \cup {p} |-> IF q = p THEN n ELSE paths[q]]
Smaller(a, b) == IF a <= b THEN a ELSE b

MTRInit ==
    /\ dialect \in RawDialects
    /\ hops = [h \in {} |-> NewHop] /\ completedCount = 0 /\ lastEmitted = 0
    /\ emitted = <<>> /\ lines = 0 /\ transmitted = FALSE
    /\ mtrResult = [summary |-> "", err |-> "", stopped |-> FALSE]

Reading == mtrResult.summary = "" /\ lines < MaxRawLines
NextLine == lines' = lines + 1 /\ UNCHANGED <<dialect, mtrResult>>

(* An 'x' line: a new probe of hop 1 means that the cycles before it are    *)
(* complete; a sequence number that was seen already is no new probe.       *)
Transmit(hop, seq) ==
    LET stats == StatsOf(hop)
        known == seq # 0 /\ hop \in DOMAIN hops /\ seq \in stats.sentSeq
        emits == ~known /\ hop = 1 /\ SentCount(1) > lastEmitted
        count == Smaller(SentCount(1), ReportCycles)
    IN  /\ Reading /\ NextLine
        /\ IF emits
           THEN /\ completedCount' = count /\ lastEmitted' = count
                /\ emitted' = Append(emitted, count)
           ELSE UNCHANGED <<completedCount, lastEmitted, emitted>>
        /\ transmitted' = (transmitted \/ (~known /\ Counted(hop)))
        /\ IF known \/ ~Counted(hop) THEN UNCHANGED hops
           ELSE SetHop(hop, [stats EXCEPT !.sent = @ + 1,
                                          !.sentSeq = IF seq = 0 THEN @ ELSE @ \cup {seq}])

(* An 'h' line: the path of the replies that follow.  An address that is    *)
(* not in canonical form starts its path anew.                              *)
SetPath(hop, path) ==
    LET stats == StatsOf(hop)
        key == Canonical(path)
        kept == key \in DOMAIN stats.paths /\ path.written = key
    IN  /\ Reading /\ NextLine /\ UNCHANGED <<completedCount, lastEmitted, emitted, transmitted>>
        /\ IF ~Counted(hop) THEN UNCHANGED hops
           ELSE SetHop(hop, [stats EXCEPT !.current = key,
                                !.paths = IF kept THEN @ ELSE With(@, key, 0)])

\* mutant: a reply whose probe was not seen adds no probe
UncountedReply(hop, seq) ==
    LET stats == StatsOf(hop)
        key == IF stats.current = "" THEN NoPath ELSE stats.current
    IN  /\ Reading /\ NextLine /\ UNCHANGED <<completedCount, lastEmitted, emitted, transmitted>>
        /\ IF ~Counted(hop) \/ (seq # 0 /\ seq \in stats.replySeq) THEN UNCHANGED hops
           ELSE SetHop(hop, [stats EXCEPT !.received = @ + 1,
                                !.replySeq = IF seq = 0 THEN @ ELSE @ \cup {seq},
                                !.paths = With(@, key, 1)])

(* A 'p' line: a reply is counted once, and stands for its probe when the   *)
(* probe was not seen.                                                      *)
ReplyLine(hop, seq) ==
    LET stats == StatsOf(hop)
        seen == hop \in DOMAIN hops
        duplicate == seq # 0 /\ seq \in stats.replySeq
        unsent == IF seq # 0 THEN seq \notin stats.sentSeq ELSE stats.sent <= stats.received
        key == IF stats.current = "" THEN NoPath ELSE stats.current
        before == IF key \in DOMAIN stats.paths THEN stats.paths[key] ELSE 0
    IN  /\ Reading /\ NextLine /\ UNCHANGED <<completedCount, lastEmitted, emitted, transmitted>>
        /\ IF ~Counted(hop) \/ duplicate THEN UNCHANGED hops
           ELSE SetHop(hop,
                  [stats EXCEPT !.sent = IF unsent THEN @ + 1 ELSE @,
                                !.sentSeq = IF seq = 0 THEN @ ELSE @ \cup {seq},
                                !.received = @ + 1,
                                !.replySeq = IF seq = 0 THEN @ ELSE @ \cup {seq},
                                !.paths = With(@, key, before + 1)])

Ends(summary, err, stopped) ==
    mtrResult' = [summary |-> summary, err |-> err, stopped |-> stopped]

(* The raw output ends: scanOK, cmdOK and ctxOK tell how, reportOK whether  *)
(* the report that replaces an empty raw run succeeds.                      *)
RawEnds(scanOK, cmdOK, ctxOK, reportOK) ==
    LET useful == scanOK /\ transmitted /\ SentCount(1) > 0
        count == Smaller(SentCount(1), ReportCycles)
    IN  /\ mtrResult.summary = ""
        /\ IF useful
           THEN /\ completedCount' = count
                /\ emitted' = IF count > lastEmitted THEN Append(emitted, count) ELSE emitted
                /\ IF ~ctxOK THEN Ends("raw", "context", TRUE)
                   ELSE IF ~cmdOK THEN Ends("raw", "command", TRUE)
                   ELSE IF SentCount(1) < ReportCycles THEN Ends("raw", "short", TRUE)
                   ELSE Ends("raw", "", FALSE)
           ELSE /\ UNCHANGED <<completedCount, emitted>>
                /\ IF ~ctxOK THEN Ends("none", "context", FALSE)
                   ELSE IF reportOK THEN Ends("report", "", FALSE)
                   ELSE Ends("none", "failed", FALSE)
        /\ UNCHANGED <<dialect, hops, lastEmitted, lines, transmitted>>

MTRNext ==
    \/ \E e \in dialect :
          \/ e.kind = "x" /\ Transmit(e.hop, e.seq)
          \/ e.kind = "h" /\ SetPath(e.hop, e.path)
          \/ e.kind = "p" /\ ReplyLine(e.hop, e.seq)
    \/ \E scanOK, cmdOK, ctxOK, reportOK \in BOOLEAN : RawEnds(scanOK, cmdOK, ctxOK, reportOK)

MTRSpec == MTRInit /\ [][MTRNext]_mtrVars

(* Lines that are lost, repeated or out of order never make a hop answer    *)
(* more than it was asked, nor its paths more than the hop; progress only   *)
(* grows and stays within the requested cycles; and only a run that probed  *)
(* every cycle ends without an error and without being marked as stopped    *)
(* (runMTRRaw, addReply:496-533).                                           *)
MTRCountsAreCoherent ==
    /\ \A h \in DOMAIN hops :
          /\ hops[h].received <= hops[h].sent
          /\ MapThenSumSet(LAMBDA p : hops[h].paths[p], DOMAIN hops[h].paths) <= hops[h].received
    /\ \A i, j \in DOMAIN emitted : i <= j => emitted[i] <= emitted[j] /\ emitted[j] <= ReportCycles
    /\ mtrResult.summary = "raw" =>
          /\ mtrResult.stopped = (mtrResult.err # "")
          /\ mtrResult.err = "" => completedCount = ReportCycles
          /\ emitted # <<>> /\ emitted[Len(emitted)] = completedCount
=============================================================================
