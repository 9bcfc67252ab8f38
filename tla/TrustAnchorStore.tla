-------------------------- MODULE TrustAnchorStore --------------------------
(* The RFC 5011 trust anchor store of internal/dnsroots/anchor.go.            *)
(*                                                                            *)
(* An anchor is a snapshot (a value file and a metadata file, immutable and   *)
(* named by hash), the live copy that unbound-anchor maintains, and the state *)
(* that points at the current and the previous snapshot.  As in              *)
(* RootHintsStore an operation holds manager.lock, reads the disk and then    *)
(* writes its plan one file at a time, and may be interrupted at each write.  *)
(* Anchors are numbers in the order of their hash; a pointer carries the time *)
(* its snapshot was created, which must agree with the metadata file.         *)
EXTENDS Integers, FiniteSets, Sequences

CONSTANTS Anchors,         \* contents unbound-anchor may leave in a file
          Good,            \* those that unbound-checkconf accepts
          MaxAnchorFaults  \* bound: damaged or lost files, failing validators

ASSUME AnchorAssumption ==
  /\ Anchors \subseteq Nat \ {0} /\ IsFiniteSet(Anchors)
  /\ Good \subseteq Anchors
  /\ MaxAnchorFaults \in Nat

VARIABLES
  value,         \* snapshots/<sha>/root.key, per anchor: absent, intact, damaged
  meta,          \* snapshots/<sha>/snapshot.json: its creation time, 0 if absent
  live,          \* rfc5011/root.key: the anchor it holds, 0 if it has none
  anchorState,   \* the pointers of state.json; NoState when it cannot be read
  anchorOp,      \* the operation that holds the lock and its writes to come
  settled,       \* the last operation succeeded and nothing happened since
  established,   \* history: some operation has succeeded
  anchorFaults   \* faults so far

anchorVars == <<value, meta, live, anchorState, anchorOp, settled,
                established, anchorFaults>>

NoAnchor == 0
Damaged  == -1
NoPointer == [sha |-> NoAnchor, at |-> 0]
NoState   == [current |-> NoPointer, previous |-> NoPointer]
Idle == [kind |-> "free", writes |-> <<>>, result |-> NoAnchor]
-----------------------------------------------------------------------------
\* The moment an operation runs at: later than every time on the disk.
Now == LET times == {meta[a] : a \in Anchors}
                    \cup {anchorState.current.at, anchorState.previous.at, 0}
       IN  1 + CHOOSE t \in times : \A u \in times : u <= t

(* loadAnchorPointer: metadata equal to the pointer, an intact value, and a   *)
(* validator that accepts it.  ok is the set of anchors the validator accepts *)
(* during the operation: it runs a command, which may fail or time out.       *)
Loads(p, ok) ==
  p.at > 0 /\ meta[p.sha] = p.at /\ value[p.sha] = "intact" /\ p.sha \in ok

Later(p, q) == p.at > q.at \/ (p.at = q.at /\ p.sha > q.sha)
Latest(S) == IF S = {} THEN NoPointer ELSE CHOOSE p \in S : \A q \in S \ {p} : Later(p, q)

\* discoverAnchorState: the two latest snapshots that load.
DiscoverAnchorState(ok) ==
  LET usable == {p \in {[sha |-> a, at |-> meta[a]] : a \in Anchors} : Loads(p, ok)}
      first  == Latest(usable)
  IN  [current |-> first, previous |-> Latest(usable \ {first})]

Put(file, content) == <<[file |-> file, content |-> content]>>
HasState == anchorState # NoState

\* loadOrDiscoverAnchorState; "lost": the rebuilt state could not be saved.
LoadOrDiscoverAnchor(ok, lost) ==
  LET found == DiscoverAnchorState(ok)
  IN  IF HasState THEN [state |-> anchorState, writes |-> <<>>]
      ELSE IF found = NoState \/ lost THEN [state |-> NoState, writes |-> <<>>]
      ELSE [state |-> found, writes |-> Put("rebuild", found)]

\* anchorBaseline: the live anchor if it is valid, else a snapshot that loads.
Baseline(s, ok) ==
  IF live \in ok
  THEN [pointer |-> IF s.current.sha = live THEN s.current ELSE [sha |-> live, at |-> 0],
        live |-> TRUE]
  ELSE IF Loads(s.current, ok) THEN [pointer |-> s.current, live |-> FALSE]
  ELSE IF Loads(s.previous, ok) THEN [pointer |-> s.previous, live |-> FALSE]
  ELSE [pointer |-> NoPointer, live |-> FALSE]

PutValue(a) == CASE value[a] = "intact"  -> <<>>
                 [] value[a] = "absent"  -> Put("value", a)
                 [] value[a] = "damaged" -> Put("collision", a)
PutMeta(a, at) == CASE meta[a] > 0       -> <<>>
                    [] meta[a] = 0       -> Put("meta", [sha |-> a, at |-> at])
                    [] meta[a] = Damaged -> Put("collision", a)

\* Mutant: readable metadata is taken to mean that the value is there too.
SnapshotWritesOnce(a, at) == IF meta[a] > 0 THEN <<>> ELSE PutValue(a) \o PutMeta(a, at)

\* The value file, then its metadata; either write finds an intact file, puts
\* a missing one in place, or refuses to replace a damaged one.
SnapshotWrites(a, at) == PutValue(a) \o PutMeta(a, at)

(* publishAnchorSnapshot: metadata that reads keeps its time; lost metadata   *)
(* takes the time of the pointer already held, or the present if none is.     *)
Publish(a, heldAt) ==
  LET at == IF meta[a] > 0 THEN meta[a] ELSE IF heldAt > 0 THEN heldAt ELSE Now
  IN  [writes |-> SnapshotWrites(a, at), pointer |-> [sha |-> a, at |-> at]]

Operation(kind, writes, result) == [kind |-> kind, writes |-> writes, result |-> result]

\* Mutant: an exit code of 0 or 1 is taken for a valid candidate.
AcceptedUnchecked(candidate, ok) == candidate # NoAnchor

\* The validator's verdict on the candidate that unbound-anchor leaves behind.
Accepted(candidate, ok) == candidate \in ok

\* RefreshAnchor; the updater leaves candidate in the prefilled file, or fails.
RefreshAnchor(candidate, ok, lost) ==
  LET found == LoadOrDiscoverAnchor(ok, lost)
      s     == found.state
      base  == Baseline(s, ok)
      kept  == Publish(base.pointer.sha, base.pointer.at)
      fresh == Publish(candidate, 0)
      push  == [current |-> kept.pointer, previous |-> s.current]
  IN  IF Accepted(candidate, ok)
      THEN Operation("refresh",
             found.writes \o fresh.writes \o Put("live", candidate)
             \o Put("state", [current |-> fresh.pointer,
                              previous |-> IF s.current.sha = candidate THEN s.previous
                                           ELSE s.current]),
             candidate)
      ELSE IF base.pointer = NoPointer THEN Operation("refresh", found.writes, NoAnchor)
      ELSE Operation("refresh",
             found.writes \o kept.writes
             \o (IF base.live THEN <<>> ELSE Put("live", base.pointer.sha))
             \o (IF s.current.sha = kept.pointer.sha THEN <<>> ELSE Put("state", push)),
             base.pointer.sha)

\* currentAnchorLocked: current, else previous, else a valid live copy.
CurrentAnchor(ok, lost) ==
  LET found   == LoadOrDiscoverAnchor(ok, lost)
      s       == found.state
      adopted == Publish(live, 0)
  IN  IF Loads(s.current, ok)
      THEN Operation("current",
             found.writes \o (IF live = s.current.sha THEN <<>> ELSE Put("live", s.current.sha)),
             s.current.sha)
      ELSE IF Loads(s.previous, ok)
      THEN Operation("current",
             found.writes \o Put("live", s.previous.sha)
             \o Put("state", [current |-> s.previous, previous |-> NoPointer]),
             s.previous.sha)
      ELSE IF live \in ok
      THEN Operation("current",
             found.writes \o adopted.writes
             \o Put("state", [current |-> adopted.pointer, previous |-> NoPointer]),
             live)
      ELSE Operation("current", found.writes, NoAnchor)

\* RollbackAnchor: the previous snapshot goes live and the two change places.
RollbackAnchor(ok, lost) ==
  LET found == LoadOrDiscoverAnchor(ok, lost)
      s     == found.state
  IN  IF s.current # NoPointer /\ Loads(s.previous, ok)
      THEN Operation("rollback",
             found.writes \o Put("live", s.previous.sha)
             \o Put("state", [current |-> s.previous, previous |-> s.current]),
             s.previous.sha)
      ELSE Operation("rollback", found.writes, NoAnchor)
-----------------------------------------------------------------------------
AnchorInit ==
  /\ value = [a \in Anchors |-> "absent"]
  /\ meta = [a \in Anchors |-> 0]
  /\ live = NoAnchor
  /\ anchorState = NoState
  /\ anchorOp = Idle
  /\ settled = FALSE
  /\ established = FALSE
  /\ anchorFaults = 0

(* withLock: an operation takes the lock and reads the disk.  Usually the     *)
(* validator accepts exactly the good anchors; as a fault it rejects some.    *)
BeginAnchor ==
  /\ anchorOp = Idle
  /\ \E rejected \in SUBSET Good, lost \in BOOLEAN :
       LET ok == Good \ rejected
           cost == (IF rejected = {} THEN 0 ELSE 1) + (IF lost THEN 1 ELSE 0)
       IN  /\ lost => ~HasState
           /\ anchorFaults + cost <= MaxAnchorFaults
           /\ anchorFaults' = anchorFaults + cost
           /\ \/ \E candidate \in Anchors \cup {NoAnchor} :
                   anchorOp' = RefreshAnchor(candidate, ok, lost)
              \/ anchorOp' = CurrentAnchor(ok, lost)
              \/ anchorOp' = RollbackAnchor(ok, lost)
  /\ settled' = FALSE
  /\ UNCHANGED <<value, meta, live, anchorState, established>>

\* writeFileAtomic: the next file of the plan is in place.
WriteAnchor ==
  /\ anchorOp.writes # <<>>
  /\ LET w == Head(anchorOp.writes)
     IN  /\ w.file # "collision"
         /\ value' = IF w.file = "value" THEN [value EXCEPT ![w.content] = "intact"] ELSE value
         /\ meta' = IF w.file = "meta" THEN [meta EXCEPT ![w.content.sha] = w.content.at] ELSE meta
         /\ live' = IF w.file = "live" THEN w.content ELSE live
         /\ anchorState' = IF w.file \in {"state", "rebuild"} THEN w.content ELSE anchorState
  /\ anchorOp' = [anchorOp EXCEPT !.writes = Tail(@)]
  /\ UNCHANGED <<settled, established, anchorFaults>>

\* The operation returns: a snapshot, or an error.
ReturnAnchor ==
  /\ anchorOp # Idle
  /\ anchorOp.writes = <<>>
  /\ settled' = (anchorOp.result # NoAnchor)
  /\ established' = (established \/ settled')
  /\ anchorOp' = Idle
  /\ UNCHANGED <<value, meta, live, anchorState, anchorFaults>>

\* A write fails or meets a damaged file, or the process is killed there.
InterruptAnchor ==
  /\ anchorOp.writes # <<>>
  /\ anchorOp' = Idle
  /\ UNCHANGED <<value, meta, live, anchorState, settled, established, anchorFaults>>

\* A file is damaged, or lost with a directory entry that was never synced.
AnchorFault ==
  /\ anchorOp = Idle /\ anchorFaults < MaxAnchorFaults
  /\ anchorFaults' = anchorFaults + 1
  /\ settled' = FALSE
  /\ \/ /\ \E a \in Anchors, c \in {"absent", "damaged"} :
             value[a] = "intact" /\ value' = [value EXCEPT ![a] = c]
        /\ UNCHANGED <<meta, live, anchorState>>
     \/ /\ \E a \in Anchors, c \in {0, Damaged} :
             meta[a] > 0 /\ meta' = [meta EXCEPT ![a] = c]
        /\ UNCHANGED <<value, live, anchorState>>
     \/ live > 0 /\ live' \in {NoAnchor, Damaged} /\ UNCHANGED <<value, meta, anchorState>>
     \/ HasState /\ anchorState' = NoState /\ UNCHANGED <<value, meta, live>>
  /\ UNCHANGED <<anchorOp, established>>

AnchorNext == BeginAnchor \/ WriteAnchor \/ ReturnAnchor \/ InterruptAnchor \/ AnchorFault

AnchorSpec == AnchorInit /\ [][AnchorNext]_anchorVars
-----------------------------------------------------------------------------
(* When an operation has succeeded the live anchor is the anchor state.json   *)
(* names and its snapshot loads, although live file, snapshot and state are   *)
(* written one after the other and any earlier operation may have been cut    *)
(* short between them.                                                        *)
LiveAnchorIsSelected ==
  settled => /\ live = anchorState.current.sha
             /\ value[live] = "intact"
             /\ anchorFaults = 0 => Loads(anchorState.current, Good)

\* An operation whose plan meets no damaged file and has a snapshot to return.
Serves(op) ==
  op.result # NoAnchor /\ \A i \in DOMAIN op.writes : op.writes[i].file # "collision"

(* Once an anchor has been in use, a single fault (one file lost, or one      *)
(* operation whose validator rejects or cannot run) never leaves the agent    *)
(* without one.  A damaged snapshot file is survived only through the other   *)
(* snapshot: publishAnchorSnapshot refuses to replace the damaged file, even  *)
(* while the live copy of the same anchor is valid.                           *)
AnchorSurvivesOneFault ==
  anchorOp = Idle /\ established /\ anchorFaults <= 1 =>
    \/ Serves(CurrentAnchor(Good, FALSE))
    \/ /\ \E a \in Anchors : value[a] = "damaged" \/ meta[a] = Damaged
       /\ ~Loads(anchorState.previous, Good)
=============================================================================
