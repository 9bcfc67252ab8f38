--------------------------- MODULE RootHintsStore ---------------------------
(* The signed root hints store of internal/dnsroots/hints_store.go and the    *)
(* refresh that feeds it (cmd/nodeping-agent/dns_root_material.go).           *)
(*                                                                            *)
(* A version of the hints is a manifest file and a blob file, both immutable  *)
(* and named by hash; state.json names the current and the previous version.  *)
(* An operation holds the manager's file lock, reads the disk, and then       *)
(* writes files one at a time: it is modelled by the plan of writes its reads *)
(* lead to and by one step per write, at any of which the process may be      *)
(* killed or the write may fail.  Versions are numbers in the order of their  *)
(* manifest hash, the order that breaks ties between equal publication times. *)
EXTENDS Naturals, FiniteSets, Sequences

CONSTANTS Versions,     \* the versions the operator may install
          PublishedAt,  \* the signed publication time of each version
          MaxFaults     \* bound: files damaged or lost, state writes lost

ASSUME HintsAssumption ==
  /\ Versions \subseteq Nat \ {0} /\ IsFiniteSet(Versions)
  /\ PublishedAt \in [Versions -> Nat]
  /\ MaxFaults \in Nat

VARIABLES
  manifest,       \* manifests/<sha>.json, per version: absent, intact or damaged
  blob,           \* blobs/<sha>/named.root, likewise
  hintsState,     \* the pair state.json names; Empty when it cannot be read
  configured,     \* what the configured manifest and hints paths hold now
  hintsOp,        \* the operation that holds manager.lock, its writes to come
  fallback,       \* the agent's refresh failed to activate, CurrentHints is next
  selected,       \* the version state.json last named as current
  materialFaults, \* faults that hit a manifest or a blob
  hintsFaults     \* all faults so far

hintsVars == <<manifest, blob, hintsState, configured, hintsOp, fallback,
               selected, materialFaults, hintsFaults>>

None == 0
Condition == {"absent", "intact", "damaged"}
Empty == [current |-> None, previous |-> None]
Pointers == [current : Versions, previous : Versions \cup {None}]
Torn == None         \* the configured manifest and hints do not belong together
Free == [kind |-> "free", writes |-> <<>>, result |-> None]
-----------------------------------------------------------------------------
(* VerifyHintsManifest and loadHintsPointer: a version loads iff both of its  *)
(* files still hold the bytes their names promise.                            *)
Loadable(v) == v # None /\ manifest[v] = "intact" /\ blob[v] = "intact"

\* Mutant: the candidates are sorted oldest first.
Older(v, w) == \/ PublishedAt[v] < PublishedAt[w]
               \/ PublishedAt[v] = PublishedAt[w] /\ v > w

\* The order of discoverHintsState's sort.
Newer(v, w) == \/ PublishedAt[v] > PublishedAt[w]
               \/ PublishedAt[v] = PublishedAt[w] /\ v > w
NewestOf(S) == IF S = {} THEN None ELSE CHOOSE v \in S : \A w \in S \ {v} : Newer(v, w)

\* discoverHintsState: the two newest versions whose material verifies.
DiscoverHintsState ==
  LET usable == {v \in Versions : Loadable(v)}
      first  == NewestOf(usable)
  IN  [current |-> first, previous |-> NewestOf(usable \ {first})]

Readable == hintsState.current # None        \* loadHintsState succeeds
WriteState(s) == <<[file |-> "state", value |-> s]>>

(* loadOrDiscoverHintsState: a readable state.json stands; otherwise the      *)
(* state is rebuilt from the material and saved.  When that save fails ("lost")*)
(* the caller goes on with an empty state.                                    *)
LoadOrDiscover(lost) ==
  IF Readable THEN [state |-> hintsState, writes |-> <<>>]
  ELSE IF DiscoverHintsState.current = None \/ lost THEN [state |-> Empty, writes |-> <<>>]
  ELSE [state |-> DiscoverHintsState, 
        writes |-> <<[file |-> "rebuild", value |-> DiscoverHintsState]>>]

\* writeImmutableFile: an intact copy is kept, a damaged one is an error.
WriteImmutable(file, v, condition) ==
  CASE condition = "intact"  -> <<>>
    [] condition = "absent"  -> <<[file |-> file, value |-> v]>>
    [] condition = "damaged" -> <<[file |-> "collision", value |-> v]>>

Plan(kind, writes, result) == [kind |-> kind, writes |-> writes, result |-> result]

\* Mutant: a manifest on disk is taken to mean that its blob is there too.
PersistOnce(v) ==
  IF manifest[v] = "intact" THEN <<>>
  ELSE WriteImmutable("manifest", v, manifest[v]) \o WriteImmutable("blob", v, blob[v])

\* persistHintsMaterial: the manifest first, then the blob it describes.
PersistHintsMaterial(v) ==
  WriteImmutable("manifest", v, manifest[v]) \o WriteImmutable("blob", v, blob[v])

\* ActivateHints of the configured version; result None is an error.
ActivatePlan(lost) ==
  LET v == configured
      found == LoadOrDiscover(lost)
      old == found.state.current
      new == [current |-> v, previous |-> IF old = v THEN found.state.previous ELSE old]
  IN  IF v = Torn THEN Plan("activate", <<>>, None)
      ELSE IF Loadable(old) /\ old = v THEN Plan("activate", found.writes, v)
      ELSE IF Loadable(old) /\ PublishedAt[v] <= PublishedAt[old]
           THEN Plan("activate", found.writes, None)
      ELSE Plan("activate",
                found.writes \o PersistHintsMaterial(v) \o WriteState(new), v)

\* Mutant: the material is not searched again when both named versions fail.
CurrentPlanNoRediscovery(kind, lost) ==
  LET found == LoadOrDiscover(lost)
      previous == found.state.previous
  IN  IF Loadable(found.state.current) THEN Plan(kind, found.writes, found.state.current)
      ELSE IF Loadable(previous)
           THEN Plan(kind,
                     found.writes \o WriteState([current |-> previous, previous |-> None]),
                     previous)
      ELSE Plan(kind, found.writes, None)

\* currentHintsLocked: current, else previous, else whatever verifies.
CurrentPlan(kind, lost) ==
  LET found == LoadOrDiscover(lost)
      previous == found.state.previous
  IN  IF Loadable(found.state.current) THEN Plan(kind, found.writes, found.state.current)
      ELSE IF Loadable(previous)
           THEN Plan(kind,
                     found.writes \o WriteState([current |-> previous, previous |-> None]),
                     previous)
      ELSE IF DiscoverHintsState.current # None
           THEN Plan(kind, found.writes \o WriteState(DiscoverHintsState),
                     DiscoverHintsState.current)
      ELSE Plan(kind, found.writes, None)

\* RollbackHints: both versions must load; they change places.
RollbackPlan(lost) ==
  LET found == LoadOrDiscover(lost)
      s == found.state
  IN  IF Loadable(s.current) /\ Loadable(s.previous)
      THEN Plan("rollback",
                found.writes \o WriteState([current |-> s.previous, previous |-> s.current]),
                s.previous)
      ELSE Plan("rollback", found.writes, None)
-----------------------------------------------------------------------------
HintsInit ==
  /\ manifest = [v \in Versions |-> "absent"]
  /\ blob = [v \in Versions |-> "absent"]
  /\ hintsState = Empty
  /\ configured \in Versions
  /\ hintsOp = Free
  /\ fallback = FALSE
  /\ selected = None
  /\ materialFaults = 0
  /\ hintsFaults = 0

\* The operator's delivery replaces the configured pair; for a while the two
\* files belong to different versions.
Deliver ==
  /\ \E v \in Versions \cup {Torn} : v # configured /\ configured' = v
  /\ UNCHANGED <<manifest, blob, hintsState, hintsOp, fallback, selected,
                 materialFaults, hintsFaults>>

(* withLock: an operation takes the lock and reads everything it will use.    *)
(* The agent's refresh activates, and reads the current version when that     *)
(* failed; any process (agent --doctor) may read between the two.             *)
Begin ==
  /\ hintsOp = Free
  /\ \E lost \in BOOLEAN :
       /\ lost => ~Readable /\ hintsFaults < MaxFaults
       /\ hintsFaults' = IF lost THEN hintsFaults + 1 ELSE hintsFaults
       /\ \/ ~fallback /\ hintsOp' = ActivatePlan(lost)
          \/ fallback /\ hintsOp' = CurrentPlan("fallback", lost)
          \/ hintsOp' = CurrentPlan("read", lost)
          \/ hintsOp' = RollbackPlan(lost)
  /\ UNCHANGED <<manifest, blob, hintsState, configured, fallback, selected, materialFaults>>

\* writeFileAtomic: the next file of the plan is in place.
WriteHints ==
  /\ hintsOp.writes # <<>>
  /\ LET w == Head(hintsOp.writes)
         names == w.file \in {"state", "rebuild"}
     IN  /\ w.file # "collision"
         /\ manifest' = IF w.file = "manifest" THEN [manifest EXCEPT ![w.value] = "intact"] ELSE manifest
         /\ blob' = IF w.file = "blob" THEN [blob EXCEPT ![w.value] = "intact"] ELSE blob
         /\ hintsState' = IF names THEN w.value ELSE hintsState
         /\ selected' = IF names THEN w.value.current ELSE selected
  /\ hintsOp' = [hintsOp EXCEPT !.writes = Tail(@)]
  /\ UNCHANGED <<configured, fallback, materialFaults, hintsFaults>>

\* activateConfiguredRootHints: what a refresh does after this operation.
After(failed) ==
  CASE hintsOp.kind = "activate" -> failed
    [] hintsOp.kind = "fallback" -> FALSE
    [] OTHER                     -> fallback

\* The operation returns its snapshot, or the error it met without a write.
ReturnHints ==
  /\ hintsOp # Free
  /\ hintsOp.writes = <<>>
  /\ fallback' = After(hintsOp.result = None)
  /\ hintsOp' = Free
  /\ UNCHANGED <<manifest, blob, hintsState, configured, selected, materialFaults, hintsFaults>>

\* A write fails, or a damaged file is in its way: the operation returns the
\* error.  (A failed "rebuild" does not end it: that is "lost" above.)
WriteHintsFails ==
  /\ hintsOp.writes # <<>>
  /\ Head(hintsOp.writes).file # "rebuild"
  /\ fallback' = After(TRUE)
  /\ hintsOp' = Free
  /\ UNCHANGED <<manifest, blob, hintsState, configured, selected, materialFaults, hintsFaults>>

\* The process is killed between two writes; the kernel drops its lock.
KilledInHints ==
  /\ hintsOp # Free
  /\ hintsOp' = Free
  /\ fallback' = FALSE
  /\ UNCHANGED <<manifest, blob, hintsState, configured, selected, materialFaults, hintsFaults>>

\* A material file is damaged, or lost with a directory entry never synced.
MaterialFault ==
  /\ hintsOp = Free /\ hintsFaults < MaxFaults
  /\ \E v \in Versions, c \in {"absent", "damaged"} :
       \/ manifest[v] = "intact" /\ manifest' = [manifest EXCEPT ![v] = c] /\ UNCHANGED blob
       \/ blob[v] = "intact" /\ blob' = [blob EXCEPT ![v] = c] /\ UNCHANGED manifest
  /\ materialFaults' = materialFaults + 1
  /\ hintsFaults' = hintsFaults + 1
  /\ UNCHANGED <<hintsState, configured, hintsOp, fallback, selected>>

\* state.json is damaged or lost.
StateFault ==
  /\ hintsOp = Free /\ hintsFaults < MaxFaults
  /\ Readable /\ hintsState' = Empty
  /\ hintsFaults' = hintsFaults + 1
  /\ UNCHANGED <<manifest, blob, configured, hintsOp, fallback, selected, materialFaults>>

HintsNext ==
  \/ Deliver \/ Begin \/ WriteHints \/ ReturnHints \/ WriteHintsFails
  \/ KilledInHints \/ MaterialFault \/ StateFault

HintsSpec == HintsInit /\ [][HintsNext]_hintsVars
-----------------------------------------------------------------------------
(* state.json never names material that is not on the disk in full: a version *)
(* is persisted before it is named, so a kill at any write of an activation, a *)
(* recovery or a rollback leaves a store that loads (persistHintsMaterial     *)
(* before writeHintsState).  Only a fault in the material itself breaks it.   *)
StateNamesIntactHints ==
  materialFaults = 0 =>
    /\ hintsState.current # None => Loadable(hintsState.current)
    /\ hintsState.previous # None => Loadable(hintsState.previous)

(* A refresh never selects older hints than the selected ones, whatever the   *)
(* order of deliveries, kills, and losses of state.json: replayed manifests   *)
(* are refused and a rebuilt state starts from the newest material.  Rollback *)
(* is the one exception, as are material that was damaged and a rebuilt state *)
(* that could not be saved (ActivateHints ignores that error).                *)
HintsNeverGoBack ==
  [][selected # None /\ selected' # selected /\ hintsOp.kind # "rollback" /\ hintsFaults <= 1
     => \/ PublishedAt[selected'] >= PublishedAt[selected]
        \/ materialFaults > 0]_hintsVars

(* As long as one version is intact a read returns an intact version, and so  *)
(* does the state that this read leaves behind, whatever state.json names.    *)
IntactHintsAreServed ==
  LET plan == CurrentPlan("read", FALSE)
  IN  hintsOp = Free /\ (\E v \in Versions : Loadable(v)) =>
        /\ Loadable(plan.result)
        /\ IF plan.writes = <<>> THEN hintsState.current = plan.result
           ELSE plan.writes[Len(plan.writes)].value.current = plan.result
=============================================================================
