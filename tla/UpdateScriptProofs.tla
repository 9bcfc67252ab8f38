------------------------- MODULE UpdateScriptProofs -------------------------
(***************************************************************************)
(* Proofs about the scripts that update an agent: SystemdUpdate, for any   *)
(* releases, and DockerUpdate, for any images and repositories; both for   *)
(* any number of updaters, of which any may be killed anywhere.            *)
(***************************************************************************)
EXTENDS SystemdUpdate, DockerUpdate, TLAPS

-----------------------------------------------------------------------------
(* update-nodeping-agent.sh.                                                *)
Outside == {"idle", "dead", "claim", "unlink", "lock", "inspect", "rmpid", "rmdir", "mkdir"}
Locked == {"sign", "signagain", "choose", "release"}
Working == {"download", "backup", "install", "restart", "ready", "undo", "restart again",
            "ready again", "exit"}
Decided == {"download", "backup", "install", "restart", "ready", "undo"}
Events == {"", "update_succeeded", "up_to_date", "update_failed", "rollback_succeeded",
           "rollback_failed"}

Known == Builds \cup {Absent}
Present == Known \cup {CutShort}
Processes == [pc : Outside \cup Locked \cup Working, owned : BOOLEAN,
              target : Builds \cup {Newest}, current : Known, event : Events,
              wasUp : BOOLEAN, copied : BOOLEAN]

SysTypeOK ==
    /\ sound \subseteq Builds
    /\ request \in Builds \cup {Newest, NoRequest}
    /\ disk \in Present /\ previous \in Present /\ service \in Present
    /\ exclusive \in BOOLEAN /\ obeyed \in BOOLEAN
    /\ upd \in [Updaters -> Processes]

(* The backup is of something, and nothing removes what is installed.       *)
NeverUninstalled == disk = Absent => previous = Absent

(* What each updater knows of itself, whatever the others do.               *)
Sane(u) ==
    /\ upd[u].pc \notin Outside => upd[u].owned
    /\ upd[u].pc \in Decided => upd[u].target \in Builds
    /\ upd[u].pc \in Decided \ {"undo"} =>
            policy.downgrade \/ upd[u].target >= upd[u].current
    /\ upd[u].pc = "backup" => disk # Absent

(* What is true of the machine when an updater reports.                     *)
TellsTruth(u) ==
    /\ upd[u].event # ""
    /\ upd[u].event = "update_succeeded" =>
            disk = upd[u].target /\ (obeyed => service = disk)
    /\ upd[u].event = "rollback_succeeded" =>
            /\ upd[u].current # Absent => disk = upd[u].current
            /\ service # Absent /\ (obeyed => service = disk)
    /\ upd[u].event = "up_to_date" => disk = upd[u].target
    /\ upd[u].event = "update_failed" =>
            Version(disk) = upd[u].current /\ (upd[u].wasUp => service # Absent)
    /\ upd[u].event = "rollback_failed" =>
            (obeyed /\ upd[u].copied => upd[u].current \notin sound)

(* What an updater that holds the lock alone knows of the machine.          *)
InControl(u) ==
    /\ upd[u].pc \in {"download", "backup", "install"} =>
            Version(disk) = upd[u].current /\ (upd[u].wasUp => service # Absent)
    /\ upd[u].pc \in {"install", "restart", "ready", "undo"} =>
            (upd[u].current # Absent => previous = upd[u].current)
    /\ upd[u].pc \in {"restart", "ready", "undo"} => disk = upd[u].target
    /\ upd[u].pc \in {"restart again", "ready again"} =>
            (upd[u].copied /\ upd[u].current # Absent => disk = upd[u].current)
    /\ upd[u].pc \in {"ready", "ready again"} => (obeyed => service = Runs(disk))
    /\ upd[u].pc = "exit" => TellsTruth(u)

OneOwner == \A u, w \in Updaters : upd[u].owned /\ upd[w].owned => u = w

SysInv ==
    /\ SysTypeOK /\ NeverUninstalled
    /\ \A u \in Updaters : Sane(u)
    /\ exclusive => OneOwner /\ \A u \in Updaters : InControl(u)

-----------------------------------------------------------------------------
LEMMA BuildsArePositive ==
    Builds \subseteq Nat /\ Absent \notin Builds /\ CutShort \notin Builds /\ CutShort # Absent
BY ReleasesAscend DEF Builds, Absent, CutShort

(* semver_compare decides the precedence of Semantic Versioning: a release  *)
(* that precedes another is found to be the lesser one.                     *)
LEMMA CompareFollowsPrecedence ==
    ASSUME NEW v \in Builds, NEW w \in Builds, v < w
    PROVE  SemverCompare(v, w) = -1
<1> DEFINE left == Releases[v]
           right == Releases[w]
           differ == {i \in DOMAIN left \cap DOMAIN right : left[i] # right[i]}
           first == CHOOSE i \in differ : \A j \in differ : i <= j
<1>1. Precedes(left, right)
  BY ReleasesAscend
<1>2. left \in Seq(Identifiers) /\ right \in Seq(Identifiers)
  BY ReleasesAscend DEF Builds, Identifiers
<1>3. CASE right = <<>>
  BY <1>1, <1>3 DEF Precedes, SemverCompare
<1>4. CASE right # <<>>
  <2>1. left # <<>>
    BY <1>1 DEF Precedes
  <2>2. PICK i \in DOMAIN right :
           /\ \A k \in 1 .. i - 1 : k \in DOMAIN left /\ left[k] = right[k]
           /\ i = Len(left) + 1 \/ (i \in DOMAIN left /\ IdentifierPrecedes(left[i], right[i]))
    BY <1>1, <1>4 DEF Precedes
  <2>3. DOMAIN left = 1 .. Len(left) /\ DOMAIN right = 1 .. Len(right)
        /\ Len(left) \in Nat /\ Len(right) \in Nat
    BY <1>2
  <2>4. CASE i = Len(left) + 1
    <3>1. differ = {}
      BY <2>2, <2>3, <2>4
    <3>2. left # right /\ Len(left) < Len(right)
      BY <2>2, <2>3, <2>4
    <3> QED
      <4>1. SemverCompare(v, w) = Before(Len(left), Len(right))
        BY <1>4, <2>1, <3>1, <3>2 DEF SemverCompare
      <4> QED
        BY <4>1, <3>2, <2>3 DEF Before
  <2>5. CASE i \in DOMAIN left /\ IdentifierPrecedes(left[i], right[i])
    <3>1. left[i] \in Identifiers /\ right[i] \in Identifiers
      BY <1>2, <2>3, <2>5
    <3>2. left[i] # right[i]
      BY <2>5, <3>1 DEF IdentifierPrecedes, Identifiers
    <3>3. i \in differ /\ \A j \in differ : i <= j
      BY <2>2, <2>3, <2>5, <3>2
    <3>4. first = i
      BY <2>3, <3>3
    <3>5. CompareIdentifiers(left[i], right[i]) = -1
      BY <2>5, <3>1 DEF IdentifierPrecedes, Identifiers, CompareIdentifiers, Before
    <3>6. left # right /\ differ # {}
      BY <3>2, <3>3
    <3> HIDE DEF differ
    <3> QED
      BY <1>4, <2>1, <3>4, <3>5, <3>6 DEF SemverCompare, differ
  <2> QED
    BY <2>2, <2>4, <2>5
<1> QED
  BY <1>3, <1>4

-----------------------------------------------------------------------------
\* The process of u becomes r, the others go on.
Becomes(u, r) ==
    /\ r \in Processes /\ upd' \in [Updaters -> Processes]
    /\ upd'[u] = r /\ \A w \in Updaters \ {u} : upd'[w] = upd[w]

LEMMA UpdateBecomes ==
    ASSUME SysTypeOK, NEW u \in Updaters, NEW r \in Processes, upd' = [upd EXCEPT ![u] = r]
    PROVE  Becomes(u, r)
BY DEF SysTypeOK, Becomes

LEMMA GoBecomes ==
    ASSUME SysTypeOK, NEW u \in Updaters, NEW to \in Outside \cup Locked \cup Working, Go(u, to)
    PROVE  Becomes(u, [upd[u] EXCEPT !.pc = to])
<1>1. upd[u] \in Processes
  BY DEF SysTypeOK
<1>2. [upd[u] EXCEPT !.pc = to] \in Processes
  BY <1>1 DEF Processes
<1>3. upd' = [upd EXCEPT ![u] = [upd[u] EXCEPT !.pc = to]]
  BY DEF Go
<1> QED
  BY <1>2, <1>3, UpdateBecomes

LEMMA ExitBecomes ==
    ASSUME SysTypeOK, NEW u \in Updaters, NEW to \in Working, NEW event \in Events,
           upd' = [upd EXCEPT ![u].pc = to, ![u].event = event]
    PROVE  Becomes(u, [upd[u] EXCEPT !.pc = to, !.event = event])
<1>1. upd[u] \in Processes
  BY DEF SysTypeOK
<1>2. [upd[u] EXCEPT !.pc = to, !.event = event] \in Processes
  BY <1>1 DEF Processes
<1>3. upd' = [upd EXCEPT ![u] = [upd[u] EXCEPT !.pc = to, !.event = event]]
  OBVIOUS
<1> QED
  BY <1>2, <1>3, UpdateBecomes

LEMMA NobodyIsAProcess == NoUpdater \in Processes
BY DEF NoUpdater, Processes, Outside, Events, Known, Absent

LEMMA QuitBecomes ==
    ASSUME SysTypeOK, NEW u \in Updaters, Quit(u)
    PROVE  Becomes(u, NoUpdater)
BY NobodyIsAProcess, UpdateBecomes DEF Quit

(* Before its work and after it, an updater leaves the machine alone.       *)
LEMMA QuietKeeps ==
    ASSUME SysInv, NEW u \in Updaters, NEW r, Becomes(u, r),
           r.pc \in Outside \cup Locked, r.pc \in Locked => r.owned,
           exclusive' \in BOOLEAN, exclusive' => exclusive,
           r.owned => upd[u].owned \/ (exclusive' => \A w \in Updaters : ~upd[w].owned),
           request' \in Builds \cup {Newest, NoRequest},
           UNCHANGED <<settings, filesOfUpdate, service, obeyed>>
    PROVE  SysInv'
<1>1. SysTypeOK' /\ NeverUninstalled'
  BY DEF SysInv, SysTypeOK, NeverUninstalled, Becomes, settings, filesOfUpdate
<1>2. Sane(u)' /\ InControl(u)'
  BY DEF Becomes, Sane, InControl, Outside, Locked, Working, Decided
<1>3. ASSUME NEW w \in Updaters, w # u
      PROVE  Sane(w)' /\ (InControl(w) => InControl(w)')
  <2>1. upd'[w] = upd[w]
    BY <1>3 DEF Becomes
  <2>2. Sane(w)'
    BY <2>1 DEF SysInv, Sane, settings, filesOfUpdate
  <2>3. InControl(w) => InControl(w)'
    BY <2>1 DEF InControl, TellsTruth, Runs, settings, filesOfUpdate
  <2> QED
    BY <2>2, <2>3
<1>4. exclusive' => OneOwner'
  BY DEF SysInv, OneOwner, Becomes
<1>5. exclusive' => exclusive
  OBVIOUS
<1> QED
  BY <1>1, <1>2, <1>3, <1>4, <1>5 DEF SysInv

(* One that works keeps the lock, and no other is at work with it.          *)
LEMMA WorkKeeps ==
    ASSUME SysInv, NEW u \in Updaters, NEW r, Becomes(u, r),
           upd[u].owned, r.owned, UNCHANGED <<settings, exclusive, request>>,
           disk' \in Present, previous' \in Present, service' \in Present, obeyed' \in BOOLEAN,
           NeverUninstalled', disk' = Absent => disk = Absent, Sane(u)',
           exclusive => InControl(u)'
    PROVE  SysInv'
<1>1. SysTypeOK'
  BY DEF SysInv, SysTypeOK, Becomes, settings
<1>2. ASSUME NEW w \in Updaters, w # u
      PROVE  Sane(w)' /\ (exclusive => InControl(w)')
  <2>1. upd'[w] = upd[w]
    BY <1>2 DEF Becomes
  <2>2. Sane(w)'
    BY <2>1 DEF SysInv, Sane, settings
  <2>3. exclusive => ~upd[w].owned
    BY <1>2 DEF SysInv, OneOwner
  <2>4. exclusive => upd[w].pc \in Outside
    BY <2>3 DEF SysInv, Sane
  <2>5. exclusive => InControl(w)'
    BY <2>1, <2>4 DEF InControl, Outside
  <2> QED
    BY <2>2, <2>5
<1>3. exclusive => OneOwner'
  BY DEF SysInv, OneOwner, Becomes
<1> QED
  BY <1>1, <1>2, <1>3 DEF SysInv

-----------------------------------------------------------------------------
LEMMA UpdatesBegin == SystemdInit => SysInv
<1> SUFFICES ASSUME SystemdInit
             PROVE  SysInv
  OBVIOUS
<1>1. upd = [u \in Updaters |-> NoUpdater]
  BY DEF SystemdInit
<1>2. upd \in [Updaters -> Processes]
  BY <1>1, NobodyIsAProcess
<1>3. \A u \in Updaters : upd[u].pc = "idle" /\ ~upd[u].owned
  BY <1>1 DEF NoUpdater
<1>4. SysTypeOK /\ NeverUninstalled
  <2>1. sound \subseteq Builds /\ disk \in Present
    BY UpdateAssumption DEF SystemdInit, Present, Known
  <2>2. service \in Present /\ previous \in Present
    BY <2>1 DEF SystemdInit, Present, Known
  <2> QED
    BY <1>2, <2>1, <2>2 DEF SystemdInit, SysTypeOK, NeverUninstalled
<1>5. \A u \in Updaters : Sane(u) /\ InControl(u)
  BY <1>3 DEF Sane, InControl, Outside, Decided
<1> QED
  BY <1>3, <1>4, <1>5 DEF SysInv, OneOwner

LEMMA AskKeeps == ASSUME SysInv, NEW v \in Asked, Ask(v) PROVE SysInv'
<1>1. UNCHANGED <<settings, upd, exclusive, obeyed, filesOfUpdate, service>>
      /\ request' \in Builds \cup {Newest, NoRequest}
  BY UpdateAssumption DEF Ask, world
<1>2. SysTypeOK' /\ NeverUninstalled'
  BY <1>1 DEF SysInv, SysTypeOK, NeverUninstalled, settings, filesOfUpdate
<1>3. \A u \in Updaters : (Sane(u) => Sane(u)') /\ (InControl(u) => InControl(u)')
  <2> TAKE u \in Updaters
  <2>1. upd'[u] = upd[u]
    BY <1>1
  <2>2. Sane(u) => Sane(u)'
    BY <1>1, <2>1 DEF Sane, settings, filesOfUpdate
  <2>3. InControl(u) => InControl(u)'
    BY <1>1, <2>1 DEF InControl, TellsTruth, Runs, settings, filesOfUpdate
  <2> QED
    BY <2>2, <2>3
<1>4. OneOwner => OneOwner'
  BY <1>1 DEF OneOwner
<1> QED
  BY <1>1, <1>2, <1>3, <1>4 DEF SysInv

LEMMA RebootKeeps == ASSUME SysInv, Reboot PROVE SysInv'
<1> DEFINE r == [NoUpdater EXCEPT !.pc = "dead"]
<1>1. r \in Processes /\ r.pc = "dead" /\ ~r.owned
  BY DEF NoUpdater, Processes, Outside, Events, Known, Absent
<1> HIDE DEF r
<1>2. upd' = [u \in Updaters |-> IF Alive(u) THEN r ELSE upd[u]]
  BY DEF Reboot, r
<1>3. upd' \in [Updaters -> Processes]
  BY <1>1, <1>2 DEF SysInv, SysTypeOK
<1>4. \A u \in Updaters : upd'[u].pc \in {"idle", "dead"} /\ (upd'[u].owned => upd[u].owned)
  BY <1>1, <1>2 DEF Alive
<1>5. UNCHANGED <<settings, request, filesOfUpdate, exclusive, obeyed>> /\ service' = Runs(disk)
  BY DEF Reboot
<1>6. SysTypeOK' /\ NeverUninstalled'
  BY <1>3, <1>5 DEF SysInv, SysTypeOK, NeverUninstalled, settings, filesOfUpdate, Runs, Present, Known
<1>7. \A u \in Updaters : Sane(u)' /\ InControl(u)'
  BY <1>4 DEF Sane, InControl, Outside, Decided
<1>8. OneOwner => OneOwner'
  BY <1>4 DEF OneOwner
<1> QED
  BY <1>5, <1>6, <1>7, <1>8 DEF SysInv

-----------------------------------------------------------------------------
(* Before the lock, at the lock, and after the work.                        *)
LEMMA StartKeeps ==
    ASSUME SysInv, NEW u \in Updaters, NEW v \in Asked, Start(u, v) PROVE SysInv'
<1> DEFINE r == [NoUpdater EXCEPT !.pc = "claim", !.target = v]
<1>1. r \in Processes /\ r.pc = "claim" /\ ~r.owned
  BY UpdateAssumption DEF NoUpdater, Processes, Outside, Events, Known, Absent
<1> HIDE DEF r
<1>2. upd' = [upd EXCEPT ![u] = r]
  BY DEF Start, r
<1>3. Becomes(u, r)
  BY <1>1, <1>2, UpdateBecomes DEF SysInv
<1>4. r.pc \in Outside /\ r.pc \notin Locked
  BY <1>1 DEF Outside, Locked
<1>5. /\ exclusive' \in BOOLEAN /\ (exclusive' => exclusive)
      /\ request' \in Builds \cup {Newest, NoRequest}
      /\ UNCHANGED <<settings, filesOfUpdate, service, obeyed>>
  BY DEF Start, SysInv, SysTypeOK
<1> QED
  BY <1>1, <1>3, <1>4, <1>5, QuietKeeps

LEMMA KillKeeps == ASSUME SysInv, NEW u \in Updaters, Kill(u) PROVE SysInv'
<1> DEFINE r == [NoUpdater EXCEPT !.pc = "dead"]
<1>1. r \in Processes /\ r.pc = "dead" /\ ~r.owned
  BY DEF NoUpdater, Processes, Outside, Events, Known, Absent
<1> HIDE DEF r
<1>2. upd' = [upd EXCEPT ![u] = r]
  BY DEF Kill, r
<1>3. Becomes(u, r)
  BY <1>1, <1>2, UpdateBecomes DEF SysInv
<1>4. r.pc \in Outside /\ r.pc \notin Locked
  BY <1>1 DEF Outside, Locked
<1>5. /\ exclusive' \in BOOLEAN /\ (exclusive' => exclusive)
      /\ request' \in Builds \cup {Newest, NoRequest}
      /\ UNCHANGED <<settings, filesOfUpdate, service, obeyed>>
  BY DEF Kill, SysInv, SysTypeOK
<1> QED
  BY <1>1, <1>3, <1>4, <1>5, QuietKeeps

(* Each of these steps moves the updater on or ends it, and takes the lock  *)
(* for it at most where it says so.                                         *)
LEMMA GoKeeps ==
    ASSUME SysInv, NEW u \in Updaters, NEW to \in Outside \cup Locked, Go(u, to),
           to \in Locked => upd[u].owned,
           request' \in Builds \cup {Newest, NoRequest},
           UNCHANGED <<settings, filesOfUpdate, service, obeyed, exclusive>>
    PROVE  SysInv'
<1> DEFINE r == [upd[u] EXCEPT !.pc = to]
<1>1. Becomes(u, r)
  BY GoBecomes DEF SysInv
<1>2. upd[u] \in Processes
  BY DEF SysInv, SysTypeOK
<1>3. r.pc = to /\ r.owned = upd[u].owned
  BY <1>2 DEF Processes
<1>4. exclusive' \in BOOLEAN /\ (exclusive' => exclusive)
  BY DEF SysInv, SysTypeOK
<1> HIDE DEF r
<1> QED
  BY <1>1, <1>3, <1>4, QuietKeeps

LEMMA QuitKeeps ==
    ASSUME SysInv, NEW u \in Updaters, Quit(u),
           request' \in Builds \cup {Newest, NoRequest},
           UNCHANGED <<settings, filesOfUpdate, service, obeyed, exclusive>>
    PROVE  SysInv'
<1>1. Becomes(u, NoUpdater)
  BY QuitBecomes DEF SysInv
<1>2. NoUpdater.pc = "idle" /\ ~NoUpdater.owned
  BY DEF NoUpdater
<1>3. NoUpdater.pc \in Outside \cup Locked /\ NoUpdater.pc \notin Locked
  BY <1>2 DEF Outside, Locked
<1>4. exclusive' \in BOOLEAN /\ (exclusive' => exclusive)
  BY DEF SysInv, SysTypeOK
<1> QED
  BY <1>1, <1>2, <1>3, <1>4, QuietKeeps

LEMMA OwnsKeeps ==
    ASSUME SysInv, NEW u \in Updaters, NEW to \in {"sign", "signagain"}, Owns(u, to), LockOnly
    PROVE  SysInv'
<1> DEFINE r == [upd[u] EXCEPT !.owned = TRUE, !.pc = to]
<1>1. upd[u] \in Processes
  BY DEF SysInv, SysTypeOK
<1>2. r \in Processes /\ r.pc = to /\ r.owned
  BY <1>1 DEF Processes, Locked
<1>3. upd' = [upd EXCEPT ![u] = r]
  BY DEF Owns
<1> HIDE DEF r
<1>4. Becomes(u, r)
  BY <1>2, <1>3, UpdateBecomes DEF SysInv
<1>5. /\ exclusive' \in BOOLEAN /\ (exclusive' => exclusive)
      /\ (exclusive' => \A w \in Updaters : ~upd[w].owned)
      /\ request' \in Builds \cup {Newest, NoRequest}
      /\ UNCHANGED <<settings, filesOfUpdate, service, obeyed>>
  BY DEF Owns, LockOnly, world, SysInv, SysTypeOK
<1>6. r.pc \in Locked
  BY <1>2 DEF Locked
<1> QED
  BY <1>2, <1>4, <1>5, <1>6, QuietKeeps

LEMMA LockKeeps ==
    ASSUME SysInv, NEW u \in Updaters,
           \/ ClaimRequest(u) \/ Unlink(u) \/ Reject(u) \/ MakeLock(u)
           \/ \E reused \in BOOLEAN : InspectLock(u, reused)
           \/ RemoveStalePid(u) \/ RemoveStaleLock(u) \/ MakeLockAgain(u) \/ SignLock(u)
           \/ ReleasePid(u) \/ ReleaseLock(u)
    PROVE  SysInv'
<1>1. request \in Builds \cup {Newest, NoRequest} /\ upd[u] \in Processes
  BY DEF SysInv, SysTypeOK
<1>2. upd[u].pc \in Locked \cup Working => upd[u].owned
  BY DEF SysInv, Sane, Outside, Locked, Working
<1>3. CASE ClaimRequest(u)
  <2>1. UNCHANGED <<settings, filesOfUpdate, service, obeyed, exclusive, request>>
    BY <1>3 DEF ClaimRequest, world
  <2>2. CASE request = NoRequest
    <3>1. Go(u, "lock") /\ "lock" \in Outside /\ "lock" \notin Locked
      BY <1>3, <2>2 DEF ClaimRequest, Outside, Locked
    <3> QED
      BY <1>1, <2>1, <3>1, GoKeeps
  <2>3. CASE request # NoRequest
    <3> DEFINE r == [upd[u] EXCEPT !.target = request, !.pc = "unlink"]
    <3>1. r \in Processes /\ r.pc = "unlink" /\ r.owned = upd[u].owned
      BY <1>1, <2>3 DEF Processes, Outside
    <3>2. upd' = [upd EXCEPT ![u] = r]
      BY <1>3, <2>3 DEF ClaimRequest
    <3> HIDE DEF r
    <3>3. Becomes(u, r)
      BY <3>1, <3>2, UpdateBecomes DEF SysInv
    <3>4. r.pc \in Outside /\ r.pc \notin Locked
      BY <3>1 DEF Outside, Locked
    <3>5. exclusive' \in BOOLEAN /\ (exclusive' => exclusive)
      BY <2>1 DEF SysInv, SysTypeOK
    <3> QED
      BY <1>1, <2>1, <3>1, <3>3, <3>4, <3>5, QuietKeeps
  <2> QED
    BY <2>2, <2>3
<1>4. CASE Unlink(u)
  <2>1. Go(u, "lock") /\ "lock" \in Outside /\ "lock" \notin Locked
    BY <1>4 DEF Unlink, Outside, Locked
  <2>2. /\ UNCHANGED <<settings, filesOfUpdate, service, obeyed, exclusive>>
        /\ request' \in Builds \cup {Newest, NoRequest}
    BY <1>4 DEF Unlink, world
  <2> QED
    BY <2>1, <2>2, GoKeeps
<1>5. CASE Reject(u)
  BY <1>1, <1>5, QuitKeeps DEF Reject, world
<1>6. CASE MakeLock(u)
  <2>1. CASE lock.held
    <3>1. Go(u, "inspect") /\ "inspect" \in Outside /\ "inspect" \notin Locked
      BY <1>6, <2>1 DEF MakeLock, Outside, Locked
    <3> QED
      BY <1>1, <1>6, <2>1, <3>1, GoKeeps DEF MakeLock, LockOnly, world
  <2>2. CASE ~lock.held
    BY <1>6, <2>2, OwnsKeeps DEF MakeLock
  <2> QED
    BY <2>1, <2>2
<1>7. CASE \E reused \in BOOLEAN : InspectLock(u, reused)
  <2>1. /\ UNCHANGED <<settings, filesOfUpdate, service, obeyed, exclusive, request>>
        /\ Quit(u) \/ Go(u, "rmpid")
    BY <1>7 DEF InspectLock, LockOnly, world
  <2>2. "rmpid" \in Outside /\ "rmpid" \notin Locked
    BY DEF Outside, Locked
  <2> QED
    BY <1>1, <2>1, <2>2, GoKeeps, QuitKeeps
<1>8. CASE RemoveStalePid(u)
  <2>1. Go(u, "rmdir") /\ "rmdir" \in Outside /\ "rmdir" \notin Locked
    BY <1>8 DEF RemoveStalePid, Outside, Locked
  <2> QED
    BY <1>1, <1>8, <2>1, GoKeeps DEF RemoveStalePid, LockOnly, world
<1>9. CASE RemoveStaleLock(u)
  <2>1. Go(u, "mkdir") /\ "mkdir" \in Outside /\ "mkdir" \notin Locked
    BY <1>9 DEF RemoveStaleLock, Outside, Locked
  <2> QED
    BY <1>1, <1>9, <2>1, GoKeeps DEF RemoveStaleLock, LockOnly, world
<1>10. CASE MakeLockAgain(u)
  <2>1. CASE lock.held
    BY <1>1, <1>10, <2>1, QuitKeeps DEF MakeLockAgain, LockOnly, world
  <2>2. CASE ~lock.held
    BY <1>10, <2>2, OwnsKeeps DEF MakeLockAgain
  <2> QED
    BY <2>1, <2>2
<1>11. CASE SignLock(u)
  <2>1. /\ UNCHANGED <<settings, filesOfUpdate, service, obeyed, exclusive, request>>
        /\ Quit(u) \/ (Go(u, "choose") /\ upd[u].pc \in {"sign", "signagain"})
    BY <1>11 DEF SignLock, At, LockOnly, world
  <2>2. "choose" \in Locked /\ {"sign", "signagain"} \subseteq Locked
    BY DEF Locked
  <2> QED
    BY <1>1, <1>2, <2>1, <2>2, GoKeeps, QuitKeeps
<1>12. CASE ReleasePid(u)
  <2>1. /\ UNCHANGED <<settings, filesOfUpdate, service, obeyed, exclusive, request>>
        /\ Quit(u) \/ Go(u, "release")
        /\ upd[u].pc = "exit"
    BY <1>12 DEF ReleasePid, At, LockOnly, world
  <2>2. "release" \in Locked /\ "exit" \in Working
    BY DEF Locked, Working
  <2> QED
    BY <1>1, <1>2, <2>1, <2>2, GoKeeps, QuitKeeps
<1>13. CASE ReleaseLock(u)
  BY <1>1, <1>13, QuitKeeps DEF ReleaseLock, LockOnly, world
<1> QED
  BY <1>3, <1>4, <1>5, <1>6, <1>7, <1>8, <1>9, <1>10, <1>11, <1>12, <1>13

-----------------------------------------------------------------------------
(* The update itself.  A step of it is Moved when the rest of the process   *)
(* stays, and Told when it also says what it ended with.                    *)
Kept(u) ==
    /\ Becomes(u, upd'[u]) /\ upd[u].owned /\ upd'[u].owned
    /\ upd'[u].target = upd[u].target /\ upd'[u].current = upd[u].current
    /\ upd'[u].wasUp = upd[u].wasUp /\ upd'[u].copied = upd[u].copied
Moved(u, to) == Kept(u) /\ upd'[u].pc = to /\ upd'[u].event = upd[u].event
Told(u, to, event) == Kept(u) /\ upd'[u].pc = to /\ upd'[u].event = event

LEMMA GoMoves ==
    ASSUME SysInv, NEW u \in Updaters, upd[u].pc \in Working, NEW to \in Working, Go(u, to)
    PROVE  Moved(u, to)
<1> DEFINE r == [upd[u] EXCEPT !.pc = to]
<1>1. Becomes(u, r)
  BY GoBecomes DEF SysInv
<1>2. upd[u] \in Processes /\ upd[u].owned
  BY DEF SysInv, SysTypeOK, Sane, Working, Outside
<1>3. /\ r.pc = to /\ r.owned = upd[u].owned /\ r.target = upd[u].target
      /\ r.current = upd[u].current /\ r.event = upd[u].event /\ r.wasUp = upd[u].wasUp
      /\ r.copied = upd[u].copied
  BY <1>2 DEF Processes
<1> HIDE DEF r
<1>4. upd'[u] = r
  BY <1>1 DEF Becomes
<1> QED
  BY <1>1, <1>2, <1>3, <1>4 DEF Moved, Kept

LEMMA ExitTells ==
    ASSUME SysInv, NEW u \in Updaters, upd[u].pc \in Working,
           NEW to \in Working, NEW event \in Events,
           upd' = [upd EXCEPT ![u].pc = to, ![u].event = event]
    PROVE  Told(u, to, event)
<1> DEFINE r == [upd[u] EXCEPT !.pc = to, !.event = event]
<1>1. Becomes(u, r)
  BY ExitBecomes DEF SysInv
<1>2. upd[u] \in Processes /\ upd[u].owned
  BY DEF SysInv, SysTypeOK, Sane, Working, Outside
<1>3. /\ r.pc = to /\ r.owned = upd[u].owned /\ r.target = upd[u].target
      /\ r.current = upd[u].current /\ r.event = event /\ r.wasUp = upd[u].wasUp
      /\ r.copied = upd[u].copied
  BY <1>2 DEF Processes
<1> HIDE DEF r
<1>4. upd'[u] = r
  BY <1>1 DEF Becomes
<1> QED
  BY <1>1, <1>2, <1>3, <1>4 DEF Told, Kept

\* The machine is left alone: the next step of the process is all there is.
Steady == UNCHANGED <<settings, request, exclusive, filesOfUpdate, service, obeyed>>

LEMMA SteadyKeeps ==
    ASSUME SysInv, NEW u \in Updaters, Kept(u), Steady, Sane(u)', exclusive => InControl(u)'
    PROVE  SysInv'
<1>1. /\ UNCHANGED <<settings, exclusive, request>>
      /\ disk' \in Present /\ previous' \in Present /\ service' \in Present
      /\ obeyed' \in BOOLEAN /\ NeverUninstalled' /\ (disk' = Absent => disk = Absent)
  BY DEF Steady, filesOfUpdate, SysInv, SysTypeOK, NeverUninstalled
<1> QED
  BY <1>1, WorkKeeps DEF Kept

LEMMA DownloadKeeps == ASSUME SysInv, NEW u \in Updaters, Download(u) PROVE SysInv'
<1>1. Steady /\ upd[u].pc = "download" /\ "download" \in Working
  BY DEF Download, At, ProcessOnly, world, Steady, Working
<1>2. \/ Exit(u, "update_failed")
      \/ Exit(u, "up_to_date") /\ disk = upd[u].target
      \/ Go(u, "install") /\ disk \in {Absent, CutShort}
      \/ Go(u, "backup") /\ disk # Absent
  BY DEF Download
<1>3. Sane(u) /\ (exclusive => InControl(u)) /\ (disk = Absent => previous = Absent)
  BY DEF SysInv, NeverUninstalled
<1>4. /\ disk' = disk /\ previous' = previous /\ service' = service /\ policy' = policy
  BY <1>1 DEF Steady, settings, filesOfUpdate
<1>5. CASE Exit(u, "update_failed")
  <2>1. Told(u, "exit", "update_failed")
    BY <1>1, <1>5, ExitTells DEF Exit, Working, Events
  <2>2. Sane(u)' /\ (exclusive => InControl(u)')
    BY <1>1, <1>3, <1>4, <2>1
       DEF Told, Kept, Sane, InControl, TellsTruth, Outside, Decided
  <2> QED
    BY <1>1, <2>1, <2>2, SteadyKeeps DEF Told
<1>6. CASE Exit(u, "up_to_date") /\ disk = upd[u].target
  <2>1. Told(u, "exit", "up_to_date")
    BY <1>1, <1>6, ExitTells DEF Exit, Working, Events
  <2>2. Sane(u)' /\ (exclusive => InControl(u)')
    BY <1>1, <1>3, <1>4, <1>6, <2>1
       DEF Told, Kept, Sane, InControl, TellsTruth, Outside, Decided
  <2> QED
    BY <1>1, <2>1, <2>2, SteadyKeeps DEF Told
<1>7. CASE Go(u, "install") /\ disk \in {Absent, CutShort}
  <2>1. Moved(u, "install")
    BY <1>1, <1>7, GoMoves DEF Working
  <2>2. Sane(u)' /\ (exclusive => InControl(u)')
    BY <1>1, <1>3, <1>4, <1>7, <2>1
       DEF Moved, Kept, Sane, InControl, Outside, Decided, Version
  <2> QED
    BY <1>1, <2>1, <2>2, SteadyKeeps DEF Moved
<1>8. CASE Go(u, "backup") /\ disk # Absent
  <2>1. Moved(u, "backup")
    BY <1>1, <1>8, GoMoves DEF Working
  <2>2. Sane(u)' /\ (exclusive => InControl(u)')
    BY <1>1, <1>3, <1>4, <1>8, <2>1 DEF Moved, Kept, Sane, InControl, Outside, Decided
  <2> QED
    BY <1>1, <2>1, <2>2, SteadyKeeps DEF Moved
<1> QED
  BY <1>2, <1>5, <1>6, <1>7, <1>8

(* The release chosen is no older than what is on disk: that is where       *)
(* semver_compare and the ban on downgrades come in.                        *)
LEMMA ChooseKeeps == ASSUME SysInv, NEW u \in Updaters, Choose(u) PROVE SysInv'
<1>1. Steady /\ upd[u].pc = "choose" /\ upd[u].owned
  BY DEF Choose, At, ProcessOnly, world, Steady, SysInv, Sane, Outside
<1>2. upd[u] \in Processes /\ disk \in Present /\ service \in Present
  BY DEF SysInv, SysTypeOK
<1> DEFINE current == Version(disk)
           down(v) == current # Absent /\ SemverCompare(v, current) = -1 /\ ~policy.downgrade
           keyless(v) == SignatureRequired(v) /\ ~policy.key
           no(v) == down(v) \/ keyless(v)
           r(v) == [upd[u] EXCEPT !.current = current, !.target = v, !.wasUp = service # Absent,
                                  !.pc = IF no(v) THEN "exit" ELSE "download",
                                  !.event = IF no(v) THEN "update_failed" ELSE ""]
<1>3. PICK v \in IF upd[u].target = Newest THEN Builds ELSE {upd[u].target} :
          upd' = [upd EXCEPT ![u].current = current, ![u].target = v,
                             ![u].wasUp = service # Absent,
                             ![u].pc = IF no(v) THEN "exit" ELSE "download",
                             ![u].event = IF no(v) THEN "update_failed" ELSE ""]
  BY DEF Choose
<1>4. upd' = [upd EXCEPT ![u] = r(v)]
  BY <1>3
<1>5. v \in Builds
  BY <1>2, <1>3 DEF Processes
<1> current \in Known
  BY <1>2 DEF Version, Present, Known
<1>6. r(v) \in Processes
  BY <1>2, <1>5 DEF Processes, Working, Events
<1>7. /\ r(v).owned = upd[u].owned /\ r(v).current = current /\ r(v).target = v
      /\ r(v).wasUp = (service # Absent)
      /\ r(v).pc = IF no(v) THEN "exit" ELSE "download"
      /\ r(v).event = IF no(v) THEN "update_failed" ELSE ""
  BY <1>2 DEF Processes
<1> HIDE DEF r
<1>8. Becomes(u, r(v))
  BY <1>4, <1>6, UpdateBecomes DEF SysInv
<1>9. ~no(v) => policy.downgrade \/ v >= current
  <2> SUFFICES ASSUME ~down(v), ~policy.downgrade, current # Absent
               PROVE  v >= current
    BY <1>5, ReleasesAscend DEF Absent, Builds
  <2>1. current \in Builds
    BY DEF Known
  <2>2. ~(v < current)
    BY <1>5, <2>1, CompareFollowsPrecedence
  <2>3. v \in Nat /\ current \in Nat
    BY <1>5, <2>1, ReleasesAscend DEF Builds
  <2> QED
    BY <2>2, <2>3
<1>10. Version(disk)' = current /\ service' = service /\ policy' = policy
  BY <1>1 DEF Steady, settings, filesOfUpdate
<1> HIDE DEF no, current
<1>11. Sane(u)'
  <2>1. CASE no(v)
    BY <1>1, <1>7, <1>8, <2>1 DEF Becomes, Sane, Decided
  <2>2. CASE ~no(v)
    BY <1>1, <1>5, <1>7, <1>8, <1>9, <1>10, <2>2 DEF Becomes, Sane, Decided
  <2> QED
    BY <2>1, <2>2
<1>12. InControl(u)'
  <2>1. CASE no(v)
    BY <1>7, <1>8, <1>10, <2>1 DEF Becomes, InControl, TellsTruth
  <2>2. CASE ~no(v)
    BY <1>7, <1>8, <1>10, <2>2 DEF Becomes, InControl
  <2> QED
    BY <2>1, <2>2
<1>13. /\ UNCHANGED <<settings, exclusive, request>>
       /\ disk' \in Present /\ previous' \in Present /\ service' \in Present
       /\ obeyed' \in BOOLEAN /\ NeverUninstalled' /\ (disk' = Absent => disk = Absent)
  BY <1>1 DEF Steady, filesOfUpdate, SysInv, SysTypeOK, NeverUninstalled
<1> QED
  BY <1>1, <1>7, <1>8, <1>11, <1>12, <1>13, WorkKeeps

LEMMA AbortKeeps == ASSUME SysInv, NEW u \in Updaters, Abort(u) PROVE SysInv'
<1>1. Steady /\ upd[u].owned
  BY DEF Abort, ProcessOnly, world, Steady, SysInv, Sane, Outside
<1>2. upd[u] \in Processes /\ disk \in Present /\ service \in Present
  BY DEF SysInv, SysTypeOK
<1> DEFINE r == [upd[u] EXCEPT !.event = "update_failed", !.pc = "exit",
                               !.current = Version(disk), !.wasUp = service # Absent]
<1>3. upd' = [upd EXCEPT ![u] = r]
  BY DEF Abort
<1> Version(disk) \in Known
  BY <1>2 DEF Version, Present, Known
<1>4. r \in Processes
  BY <1>2 DEF Processes, Working, Events
<1>5. /\ r.owned = upd[u].owned /\ r.current = Version(disk) /\ r.wasUp = (service # Absent)
      /\ r.pc = "exit" /\ r.event = "update_failed"
  BY <1>2 DEF Processes
<1> HIDE DEF r
<1>6. Becomes(u, r)
  BY <1>3, <1>4, UpdateBecomes DEF SysInv
<1>7. Version(disk)' = Version(disk) /\ service' = service /\ policy' = policy
  BY <1>1 DEF Steady, settings, filesOfUpdate
<1>8. Sane(u)' /\ InControl(u)'
  BY <1>1, <1>5, <1>6, <1>7 DEF Becomes, Sane, InControl, TellsTruth, Decided
<1>9. /\ UNCHANGED <<settings, exclusive, request>>
      /\ disk' \in Present /\ previous' \in Present /\ service' \in Present
      /\ obeyed' \in BOOLEAN /\ NeverUninstalled' /\ (disk' = Absent => disk = Absent)
  BY <1>1 DEF Steady, filesOfUpdate, SysInv, SysTypeOK, NeverUninstalled
<1> QED
  BY <1>1, <1>5, <1>6, <1>8, <1>9, WorkKeeps

LEMMA BackupKeeps == ASSUME SysInv, NEW u \in Updaters, Backup(u) PROVE SysInv'
<1>1. /\ UNCHANGED <<settings, exclusive, request>> /\ previous' = disk
      /\ disk' = disk /\ service' = service /\ obeyed' = obeyed /\ upd[u].pc = "backup"
  BY DEF Backup, At, world
<1>2. Moved(u, "install")
  BY <1>1, GoMoves DEF Backup, Working
<1>3. Sane(u) /\ (exclusive => InControl(u)) /\ SysTypeOK
  BY DEF SysInv
<1>4. Sane(u)' /\ (exclusive => InControl(u)')
  BY <1>1, <1>2, <1>3 DEF Moved, Kept, Sane, InControl, Decided, settings, Version
<1>5. /\ disk' \in Present /\ previous' \in Present /\ service' \in Present
      /\ obeyed' \in BOOLEAN /\ NeverUninstalled' /\ (disk' = Absent => disk = Absent)
  BY <1>1, <1>3 DEF SysTypeOK, NeverUninstalled
<1> QED
  BY <1>1, <1>2, <1>4, <1>5, WorkKeeps DEF Moved, Kept

LEMMA InstallKeeps == ASSUME SysInv, NEW u \in Updaters, Install(u) PROVE SysInv'
<1>1. /\ UNCHANGED <<settings, exclusive, request>> /\ disk' = upd[u].target
      /\ previous' = previous /\ service' = service /\ obeyed' = obeyed
      /\ upd[u].pc = "install"
  BY DEF Install, At, world
<1>2. Moved(u, "restart")
  BY <1>1, GoMoves DEF Install, Working
<1>3. Sane(u) /\ (exclusive => InControl(u)) /\ SysTypeOK
  BY DEF SysInv
<1>4. upd[u].target \in Present /\ upd[u].target # Absent
  BY <1>1, <1>3, BuildsArePositive DEF Sane, Decided, Present, Known
<1>5. Sane(u)' /\ (exclusive => InControl(u)')
  BY <1>1, <1>2, <1>3 DEF Moved, Kept, Sane, InControl, Decided, settings
<1>6. /\ disk' \in Present /\ previous' \in Present /\ service' \in Present
      /\ obeyed' \in BOOLEAN /\ NeverUninstalled' /\ (disk' = Absent => disk = Absent)
  BY <1>1, <1>3, <1>4 DEF SysTypeOK, NeverUninstalled
<1> QED
  BY <1>1, <1>2, <1>5, <1>6, WorkKeeps DEF Moved, Kept

LEMMA RestartKeeps ==
    ASSUME SysInv, NEW u \in Updaters,
           Restart(u, "restart", "ready") \/ Restart(u, "restart again", "ready again")
    PROVE  SysInv'
<1>1. /\ UNCHANGED <<settings, exclusive, request>>
      /\ disk' = disk /\ previous' = previous
      /\ \/ service' = Runs(disk) /\ obeyed' = obeyed
         \/ obeyed' = FALSE /\ service' = service
  BY DEF Restart, world, filesOfUpdate
<1>2. Sane(u) /\ (exclusive => InControl(u)) /\ SysTypeOK /\ NeverUninstalled
  BY DEF SysInv
<1>3. Runs(disk)' = Runs(disk) /\ Runs(disk) \in Present
  BY <1>1, <1>2 DEF Runs, settings, SysTypeOK, Present, Known
<1>4. /\ disk' \in Present /\ previous' \in Present /\ service' \in Present
      /\ obeyed' \in BOOLEAN /\ NeverUninstalled' /\ (disk' = Absent => disk = Absent)
  BY <1>1, <1>2, <1>3 DEF SysTypeOK, NeverUninstalled
<1>5. obeyed' => service' = Runs(disk)'
  BY <1>1, <1>3
<1>6. CASE Restart(u, "restart", "ready")
  <2>1. upd[u].pc = "restart" /\ Moved(u, "ready")
    BY <1>6, GoMoves DEF Restart, At, Working
  <2>2. Sane(u)' /\ (exclusive => InControl(u)')
    BY <1>1, <1>2, <1>5, <2>1 DEF Moved, Kept, Sane, InControl, Decided, settings
  <2> QED
    BY <1>1, <1>4, <2>1, <2>2, WorkKeeps DEF Moved, Kept
<1>7. CASE Restart(u, "restart again", "ready again")
  <2>1. upd[u].pc = "restart again" /\ Moved(u, "ready again")
    BY <1>7, GoMoves DEF Restart, At, Working
  <2>2. Sane(u)' /\ (exclusive => InControl(u)')
    BY <1>1, <1>2, <1>5, <2>1 DEF Moved, Kept, Sane, InControl, Decided, settings
  <2> QED
    BY <1>1, <1>4, <2>1, <2>2, WorkKeeps DEF Moved, Kept
<1> QED
  BY <1>6, <1>7

(* Readiness is true of what is on disk and runs, and when it is missed in  *)
(* spite of patience nothing runs.                                          *)
LEMMA SucceedsKeeps ==
    ASSUME SysInv, NEW u \in Updaters, NEW patient \in BOOLEAN, Succeeds(u, patient)
    PROVE  SysInv'
<1> DEFINE ready == service # Absent /\ (upd[u].target = Absent \/ disk = upd[u].target)
<1>1. /\ UNCHANGED <<settings, exclusive, request>>
      /\ disk' = disk /\ previous' = previous /\ service' = service
      /\ obeyed' = (obeyed /\ (ready => patient)) /\ upd[u].pc = "ready"
  BY DEF Succeeds, Ready, At, world, filesOfUpdate
<1>2. Sane(u) /\ (exclusive => InControl(u)) /\ SysTypeOK /\ NeverUninstalled
  BY DEF SysInv
<1>3. \/ ready /\ Told(u, "exit", "update_succeeded")
      \/ ~(ready /\ patient) /\ Told(u, "undo", "update_failed")
  <2>1. CASE ready /\ patient
    <3>1. upd' = [upd EXCEPT ![u].pc = "exit", ![u].event = "update_succeeded"]
      BY <2>1 DEF Succeeds, Ready
    <3> QED
      BY <1>1, <2>1, <3>1, ExitTells DEF Working, Events
  <2>2. CASE ~(ready /\ patient)
    <3>1. upd' = [upd EXCEPT ![u].pc = "undo", ![u].event = "update_failed"]
      BY <2>2 DEF Succeeds, Ready
    <3> QED
      BY <1>1, <2>2, <3>1, ExitTells DEF Working, Events
  <2> QED
    BY <2>1, <2>2
<1>4. upd[u].target \in Builds /\ upd[u].target # Absent
  BY <1>1, <1>2, BuildsArePositive DEF Sane, Decided
<1>5. Runs(disk)' = Runs(disk) /\ (Runs(disk) # Absent => Runs(disk) = disk)
  BY <1>1 DEF Runs, settings
<1>6. Sane(u)'
  BY <1>1, <1>2, <1>3 DEF Told, Kept, Sane, Decided, settings
<1>7. exclusive => InControl(u)'
  BY <1>1, <1>2, <1>3, <1>4, <1>5 DEF Told, Kept, InControl, TellsTruth
<1>8. /\ disk' \in Present /\ previous' \in Present /\ service' \in Present
      /\ obeyed' \in BOOLEAN /\ NeverUninstalled' /\ (disk' = Absent => disk = Absent)
  BY <1>1, <1>2 DEF SysTypeOK, NeverUninstalled
<1> QED
  BY <1>1, <1>3, <1>6, <1>7, <1>8, WorkKeeps DEF Told, Kept

LEMMA UndoneKeeps ==
    ASSUME SysInv, NEW u \in Updaters, NEW patient \in BOOLEAN, Undone(u, patient)
    PROVE  SysInv'
<1> DEFINE ready == service # Absent /\ (upd[u].current = Absent \/ disk = upd[u].current)
<1>1. /\ UNCHANGED <<settings, exclusive, request>>
      /\ disk' = disk /\ previous' = previous /\ service' = service
      /\ obeyed' = (obeyed /\ (ready => patient)) /\ upd[u].pc = "ready again"
  BY DEF Undone, Ready, At, world, filesOfUpdate
<1>2. Sane(u) /\ (exclusive => InControl(u)) /\ SysTypeOK /\ NeverUninstalled
  BY DEF SysInv
<1>3. \/ ready /\ Told(u, "exit", "rollback_succeeded")
      \/ ~(ready /\ patient) /\ Told(u, "exit", "rollback_failed")
  <2>1. CASE ready /\ patient
    <3>1. upd' = [upd EXCEPT ![u].pc = "exit", ![u].event = "rollback_succeeded"]
      BY <2>1 DEF Undone, Ready
    <3> QED
      BY <1>1, <2>1, <3>1, ExitTells DEF Working, Events
  <2>2. CASE ~(ready /\ patient)
    <3>1. upd' = [upd EXCEPT ![u].pc = "exit", ![u].event = "rollback_failed"]
      BY <2>2 DEF Undone, Ready
    <3> QED
      BY <1>1, <2>2, <3>1, ExitTells DEF Working, Events
  <2> QED
    BY <2>1, <2>2
<1>4. sound' = sound /\ sound \subseteq Builds /\ Absent \notin Builds
  BY <1>1, <1>2, BuildsArePositive DEF settings, SysTypeOK
<1>5. Runs(disk) = IF disk \in sound THEN disk ELSE Absent
  BY DEF Runs
<1>6. Sane(u)'
  BY <1>1, <1>2, <1>3 DEF Told, Kept, Sane, Decided, settings
<1>7. exclusive => InControl(u)'
  BY <1>1, <1>2, <1>3, <1>4, <1>5 DEF Told, Kept, InControl, TellsTruth
<1>8. /\ disk' \in Present /\ previous' \in Present /\ service' \in Present
      /\ obeyed' \in BOOLEAN /\ NeverUninstalled' /\ (disk' = Absent => disk = Absent)
  BY <1>1, <1>2 DEF SysTypeOK, NeverUninstalled
<1> QED
  BY <1>1, <1>3, <1>6, <1>7, <1>8, WorkKeeps DEF Told, Kept

LEMMA UndoKeeps == ASSUME SysInv, NEW u \in Updaters, Undo(u) PROVE SysInv'
<1>1. /\ UNCHANGED <<settings, exclusive, request>>
      /\ previous' = previous /\ service' = service /\ obeyed' = obeyed /\ upd[u].pc = "undo"
  BY DEF Undo, At, world
<1>2. Sane(u) /\ (exclusive => InControl(u)) /\ SysTypeOK /\ NeverUninstalled
  BY DEF SysInv
<1>3. CASE previous = Absent /\ Exit(u, "rollback_failed") /\ UNCHANGED disk
  <2>1. Told(u, "exit", "rollback_failed") /\ disk' = disk
    BY <1>1, <1>3, ExitTells DEF Exit, Working, Events
  <2>2. sound' = sound /\ Absent \notin sound
    BY <1>1, <1>2, BuildsArePositive DEF settings, SysTypeOK
  <2>3. Sane(u)' /\ (exclusive => InControl(u)')
    BY <1>1, <1>2, <1>3, <2>1, <2>2
       DEF Told, Kept, Sane, InControl, TellsTruth, Decided, settings
  <2>4. /\ disk' \in Present /\ previous' \in Present /\ service' \in Present
        /\ obeyed' \in BOOLEAN /\ NeverUninstalled' /\ (disk' = Absent => disk = Absent)
    BY <1>1, <1>2, <2>1 DEF SysTypeOK, NeverUninstalled
  <2> QED
    BY <1>1, <2>1, <2>3, <2>4, WorkKeeps DEF Told, Kept
<1>4. CASE previous # Absent /\ disk' = previous /\ Go(u, "restart again")
  <2>1. Moved(u, "restart again") /\ disk' = previous
    BY <1>1, <1>4, GoMoves DEF Working
  <2>2. Sane(u)' /\ (exclusive => InControl(u)')
    BY <1>1, <1>2, <1>4, <2>1 DEF Moved, Kept, Sane, InControl, Decided, settings
  <2>3. /\ disk' \in Present /\ previous' \in Present /\ service' \in Present
        /\ obeyed' \in BOOLEAN /\ NeverUninstalled' /\ (disk' = Absent => disk = Absent)
    BY <1>1, <1>2, <1>4, <2>1 DEF SysTypeOK, NeverUninstalled
  <2> QED
    BY <1>1, <2>1, <2>2, <2>3, WorkKeeps DEF Moved, Kept
<1>5. CASE /\ previous # Absent /\ disk' \in {disk, CutShort}
           /\ upd' = [upd EXCEPT ![u].copied = FALSE, ![u].pc = "restart again"]
  <2> DEFINE r == [upd[u] EXCEPT !.copied = FALSE, !.pc = "restart again"]
  <2>1. upd[u] \in Processes /\ upd[u].owned
    BY <1>1, <1>2 DEF SysTypeOK, Sane, Outside
  <2>2. r \in Processes /\ r.pc = "restart again" /\ r.owned /\ ~r.copied
    BY <2>1 DEF Processes, Working
  <2>3. upd' = [upd EXCEPT ![u] = r]
    BY <1>5
  <2> HIDE DEF r
  <2>4. Becomes(u, r)
    BY <1>2, <2>2, <2>3, UpdateBecomes
  <2>5. Sane(u)' /\ InControl(u)'
    BY <2>2, <2>4 DEF Becomes, Sane, InControl, Outside, Decided, Runs
  <2>6. /\ disk' \in Present /\ previous' \in Present /\ service' \in Present
        /\ obeyed' \in BOOLEAN /\ NeverUninstalled' /\ (disk' = Absent => disk = Absent)
    BY <1>1, <1>2, <1>5, BuildsArePositive DEF SysTypeOK, NeverUninstalled, Present
  <2> QED
    BY <1>1, <2>1, <2>2, <2>4, <2>5, <2>6, WorkKeeps
<1> QED
  BY <1>3, <1>4, <1>5 DEF Undo

-----------------------------------------------------------------------------
LEMMA SysStep == SysInv /\ [SystemdNext]_sysVars => SysInv'
<1> SUFFICES ASSUME SysInv, [SystemdNext]_sysVars
             PROVE  SysInv'
  OBVIOUS
<1>1. CASE \E v \in Asked : Ask(v)
  BY <1>1, AskKeeps
<1>2. ASSUME NEW u \in Updaters, UpdaterStep(u)
      PROVE  SysInv'
  BY <1>2, StartKeeps, LockKeeps, ChooseKeeps, DownloadKeeps, AbortKeeps, BackupKeeps,
     InstallKeeps, RestartKeeps, UndoKeeps, SucceedsKeeps, UndoneKeeps, KillKeeps
     DEF UpdaterStep
<1>3. CASE Reboot
  BY <1>3, RebootKeeps
<1>4. CASE UNCHANGED sysVars
  BY <1>4 DEF sysVars, SysInv, SysTypeOK, NeverUninstalled, Sane, OneOwner, InControl,
              TellsTruth, Runs
<1> QED
  BY <1>1, <1>2, <1>3, <1>4 DEF SystemdNext

LEMMA UpdatesStaySane == SystemdSpec => []SysInv
BY UpdatesBegin, SysStep, PTL DEF SystemdSpec

(* Whatever the releases, the number of updaters and the point at which     *)
(* they are killed: as long as the lock kept the others out and systemctl   *)
(* obeyed, what an updater reports is what is on disk and in the service.   *)
THEOREM ReportsAreTrue == SystemdSpec => []OutcomeIsTrue
<1>1. SysInv => OutcomeIsTrue
  BY DEF SysInv, OutcomeIsTrue, Ended, At, InControl, TellsTruth
<1> QED
  BY <1>1, UpdatesStaySane, PTL

(* A failed update leaves the service up on the version it found, unless    *)
(* that version itself does not start or its backup could not be copied     *)
(* back (restart_with_rollback).                                            *)
THEOREM FailuresAreUndone == SystemdSpec => []FailedUpdateIsUndone
<1>1. SysInv => FailedUpdateIsUndone
  <2> SUFFICES ASSUME SysInv, NEW u \in Updaters, Ended(u),
                      upd[u].event \notin {"update_succeeded", "up_to_date"},
                      upd[u].wasUp, upd[u].current \in sound, upd[u].copied
               PROVE  service # Absent /\ disk = upd[u].current
    BY DEF FailedUpdateIsUndone
  <2>1. TellsTruth(u) /\ obeyed /\ upd[u].current # Absent
    BY BuildsArePositive DEF SysInv, SysTypeOK, Ended, At, InControl
  <2>2. upd[u].event \in Events
    BY DEF SysInv, SysTypeOK, Processes
  <2> QED
    BY <2>1, <2>2 DEF TellsTruth, Events, Version
<1> QED
  BY <1>1, UpdatesStaySane, PTL

(* No updater, alone or not, installs a release that precedes the one it    *)
(* found, unless downgrades are allowed: precedence is that of Semantic     *)
(* Versioning, for releases with any pre-release identifiers.               *)
THEOREM DowngradesNeedConsent == SystemdSpec => []DowngradeNeedsConsent
<1>1. SysInv => DowngradeNeedsConsent
  BY DEF SysInv, DowngradeNeedsConsent, Sane, Decided
<1> QED
  BY <1>1, UpdatesStaySane, PTL

-----------------------------------------------------------------------------
(* update-docker.sh.                                                        *)
\* A record that says where its updater is.
IsScript(r) == r = [f \in DOMAIN r |-> r[f]] /\ "pc" \in DOMAIN r

Requests == [id : Nat, tag : Images \cup {Rolling, Invalid}]

DockerTypeOK ==
    /\ mails \in Nat /\ mail \in Requests /\ processing \in Requests /\ failed \in Requests
    /\ DOMAIN script = Scripts /\ script = [s \in Scripts |-> script[s]]
    /\ \A s \in Scripts : IsScript(script[s])

(* Who is past the lock owns it.                                            *)
LockIsExclusive ==
    \A s \in Scripts : script[s].pc \notin {"idle", "dead", "lock"} => dockerLock = s

(* Between the two renames of the claim there is a request to take and      *)
(* nothing where it goes.                                                   *)
ClaimIsClear ==
    \A s \in Scripts : script[s].pc = "take" => mail # NoMail /\ processing = NoMail

DockerInv == DockerTypeOK /\ LockIsExclusive /\ ClaimIsClear /\ RequestsAreAnswered

-----------------------------------------------------------------------------
\* The updater s goes to `to`, the others stay where they are.
Moves(s, to) ==
    /\ DOMAIN script' = Scripts /\ script' = [t \in Scripts |-> script'[t]]
    /\ \A t \in Scripts : IsScript(script'[t])
    /\ \A t \in Scripts \ {s} : script'[t] = script[t]
    /\ script'[s].pc = to

LEMMA StepMoves ==
    ASSUME DockerTypeOK, NEW s \in Scripts, NEW fields, Step(s, fields)
    PROVE  Moves(s, IF "pc" \in DOMAIN fields THEN fields["pc"] ELSE script[s].pc)
<1> DEFINE r == [f \in DOMAIN script[s] |-> IF f \in DOMAIN fields THEN fields[f]
                                           ELSE script[s][f]]
<1>1. script' = [script EXCEPT ![s] = r]
  BY DEF Step
<1>2. "pc" \in DOMAIN script[s]
  BY DEF DockerTypeOK, IsScript
<1>3. IsScript(r)
  BY <1>2 DEF IsScript
<1>4. r.pc = IF "pc" \in DOMAIN fields THEN fields["pc"] ELSE script[s].pc
  BY <1>2
<1> HIDE DEF r
<1>5. /\ DOMAIN script' = Scripts /\ script' = [t \in Scripts |-> script'[t]]
      /\ script'[s] = r /\ \A t \in Scripts \ {s} : script'[t] = script[t]
  BY <1>1 DEF DockerTypeOK
<1> QED
  BY <1>3, <1>4, <1>5 DEF DockerTypeOK, Moves

LEMMA ResetMoves ==
    ASSUME DockerTypeOK, NEW s \in Scripts, NEW r, IsScript(r),
           script' = [script EXCEPT ![s] = r]
    PROVE  Moves(s, r.pc)
<1>1. /\ DOMAIN script' = Scripts /\ script' = [t \in Scripts |-> script'[t]]
      /\ script'[s] = r /\ \A t \in Scripts \ {s} : script'[t] = script[t]
  BY DEF DockerTypeOK
<1> QED
  BY <1>1 DEF DockerTypeOK, Moves

LEMMA Blank == IsScript(NoScript) /\ NoScript.pc = "idle"
BY DEF NoScript, IsScript

(* What an updater does between claim and exit leaves lock and requests     *)
(* alone.                                                                   *)
LEMMA QuietStepKeeps ==
    ASSUME DockerInv, NEW s \in Scripts, NEW to, Moves(s, to), to # "take",
           script[s].pc \notin {"idle", "dead", "lock"},
           UNCHANGED <<mails, requests, dockerLock>>
    PROVE  DockerInv'
BY DEF DockerInv, DockerTypeOK, LockIsExclusive, ClaimIsClear, RequestsAreAnswered, Moves, requests

-----------------------------------------------------------------------------
LEMMA DockerStarts == DockerInit => DockerInv
<1> SUFFICES ASSUME DockerInit
             PROVE  DockerInv
  OBVIOUS
<1>1. NoMail \in Requests /\ mails = 0
  BY DEF DockerInit, NoMail, Requests, Nothing
<1>2. \A s \in Scripts : script[s].pc = "idle" /\ IsScript(script[s])
  BY Blank DEF DockerInit
<1> QED
  BY <1>1, <1>2 DEF DockerInit, DockerInv, DockerTypeOK, LockIsExclusive, ClaimIsClear,
                    RequestsAreAnswered

(* A new request takes the place of the one that waits, and of nothing that *)
(* has been claimed.                                                        *)
LEMMA MailKeeps == ASSUME DockerInv, NEW tag \in Wanted, Mail(tag) PROVE DockerInv'
<1>1. /\ mails' = mails + 1 /\ mails \in Nat /\ mail' = [id |-> mails + 1, tag |-> tag]
      /\ answered' = answered \cup {mail.id}
      /\ UNCHANGED <<processing, failed, dockerLock, script>>
  BY DEF Mail, DockerInv, DockerTypeOK
<1>2. mail' \in Requests /\ mail' # NoMail
  BY <1>1, DockerAssumption DEF Requests, NoMail, Nothing
<1>3. DockerTypeOK'
  BY <1>1, <1>2 DEF DockerInv, DockerTypeOK
<1>4. LockIsExclusive' /\ ClaimIsClear'
  BY <1>1, <1>2 DEF DockerInv, LockIsExclusive, ClaimIsClear
<1>5. \A id \in 1 .. mails + 1 : id \in 1 .. mails \/ id = mail'.id
  BY <1>1
<1>6. RequestsAreAnswered'
  BY <1>1, <1>5 DEF DockerInv, RequestsAreAnswered
<1> QED
  BY <1>3, <1>4, <1>6 DEF DockerInv

LEMMA DockerStartKeeps == ASSUME DockerInv, NEW s \in Scripts, StartScript(s) PROVE DockerInv'
<1> DEFINE r == [NoScript EXCEPT !.pc = "lock", !.original = dotenv]
<1>1. IsScript(r) /\ r.pc = "lock"
  BY DEF NoScript, IsScript
<1> HIDE DEF r
<1>2. Moves(s, "lock")
  BY <1>1, ResetMoves DEF StartScript, DockerInv, r
<1> QED
  BY <1>2 DEF StartScript, DockerInv, DockerTypeOK, LockIsExclusive, ClaimIsClear,
              RequestsAreAnswered, Moves, requests

(* mkdir succeeds for one updater: then none is past the lock.              *)
LEMMA AcquireKeeps == ASSUME DockerInv, NEW s \in Scripts, Acquire(s) PROVE DockerInv'
<1>1. UNCHANGED <<mails, requests>>
  BY DEF Acquire
<1>2. CASE dockerLock = Nothing /\ dockerLock' = s /\ To(s, "claim")
  <2>1. Moves(s, "claim")
    <3>1. "pc" \in DOMAIN [pc |-> "claim"] /\ [pc |-> "claim"]["pc"] = "claim"
      OBVIOUS
    <3> QED
      BY <1>2, <3>1, StepMoves DEF To, DockerInv
  <2>2. \A t \in Scripts : script[t].pc \in {"idle", "dead", "lock"}
    BY <1>2, DockerAssumption DEF DockerInv, LockIsExclusive
  <2> QED
    BY <1>1, <1>2, <2>1, <2>2 DEF DockerInv, DockerTypeOK, LockIsExclusive, ClaimIsClear,
                                  RequestsAreAnswered, Moves, requests
<1>3. CASE script' = [script EXCEPT ![s] = NoScript] /\ UNCHANGED dockerLock
  <2>1. Moves(s, "idle")
    BY <1>3, Blank, ResetMoves DEF DockerInv
  <2> QED
    BY <1>1, <1>3, <2>1 DEF DockerInv, DockerTypeOK, LockIsExclusive, ClaimIsClear,
                            RequestsAreAnswered, Moves, requests
<1> QED
  BY <1>2, <1>3 DEF Acquire

(* The one who claims moves away what a dead updater left.                  *)
LEMMA ClaimKeeps == ASSUME DockerInv, NEW s \in Scripts, Claim(s) PROVE DockerInv'
<1> DEFINE to == IF mail = NoMail THEN "inspect" ELSE "take"
<1>1. Moves(s, to)
  <2>1. PICK original : Step(s, [pc |-> to, original |-> original])
    BY DEF Claim
  <2>2. /\ "pc" \in DOMAIN [pc |-> to, original |-> original]
        /\ [pc |-> to, original |-> original]["pc"] = to
    OBVIOUS
  <2> QED
    BY <2>1, <2>2, StepMoves DEF DockerInv
<1>2. script[s].pc = "claim" /\ dockerLock = s /\ UNCHANGED <<mails, mail, dockerLock>>
  BY DEF Claim, Is, RequestStep, DockerInv, LockIsExclusive
<1>3. \/ mail # NoMail /\ processing # NoMail /\ failed' = processing /\ processing' = NoMail
         /\ answered' = answered \cup {failed.id}
      \/ (mail = NoMail \/ processing = NoMail) /\ UNCHANGED <<processing, failed, answered>>
  BY DEF Claim
<1>4. NoMail \in Requests
  BY DEF NoMail, Requests, Nothing
<1>5. DockerTypeOK'
  BY <1>1, <1>2, <1>3, <1>4 DEF DockerInv, DockerTypeOK, Moves
<1>6. LockIsExclusive'
  BY <1>1, <1>2 DEF DockerInv, LockIsExclusive, Moves
<1>7. to = "take" => mail' # NoMail /\ processing' = NoMail
  BY <1>2, <1>3
<1>8. \A t \in Scripts \ {s} : script'[t].pc # "take"
  BY <1>1, <1>2 DEF DockerInv, LockIsExclusive, Moves
<1>9. ClaimIsClear'
  BY <1>1, <1>7, <1>8 DEF ClaimIsClear, Moves
<1>10. RequestsAreAnswered'
  <2>1. NoMail.id \notin 1 .. mails
    BY DEF NoMail, Nothing
  <2> QED
    BY <1>2, <1>3, <2>1 DEF DockerInv, RequestsAreAnswered
<1> QED
  BY <1>5, <1>6, <1>9, <1>10 DEF DockerInv

LEMMA TakeKeeps == ASSUME DockerInv, NEW s \in Scripts, Take(s) PROVE DockerInv'
<1>1. Moves(s, "target")
  <2>1. /\ "pc" \in DOMAIN [pc |-> "target", claimed |-> TRUE]
        /\ [pc |-> "target", claimed |-> TRUE]["pc"] = "target"
    OBVIOUS
  <2> QED
    BY <2>1, StepMoves DEF Take, DockerInv
<1>2. /\ script[s].pc = "take" /\ dockerLock = s /\ processing = NoMail
      /\ processing' = mail /\ mail' = NoMail
      /\ UNCHANGED <<mails, failed, answered, dockerLock>>
  BY DEF Take, Is, DockerInv, LockIsExclusive, ClaimIsClear
<1>3. NoMail \in Requests /\ NoMail.id \notin 1 .. mails
  BY DEF NoMail, Requests, Nothing
<1>4. DockerTypeOK'
  BY <1>1, <1>2, <1>3 DEF DockerInv, DockerTypeOK, Moves
<1>5. LockIsExclusive' /\ ClaimIsClear'
  BY <1>1, <1>2 DEF DockerInv, LockIsExclusive, ClaimIsClear, Moves
<1>6. RequestsAreAnswered'
  BY <1>2, <1>3 DEF DockerInv, RequestsAreAnswered
<1> QED
  BY <1>4, <1>5, <1>6 DEF DockerInv

(* The EXIT trap moves a failed claim on and removes one that succeeded.    *)
LEMMA FinalizeKeeps == ASSUME DockerInv, NEW s \in Scripts, Finalize(s) PROVE DockerInv'
<1>1. Moves(s, "release")
  <2>1. "pc" \in DOMAIN [pc |-> "release"] /\ [pc |-> "release"]["pc"] = "release"
    OBVIOUS
  <2> QED
    BY <2>1, StepMoves DEF Finalize, To, DockerInv
<1>2. script[s].pc = "exit" /\ dockerLock = s /\ UNCHANGED <<mails, mail, dockerLock>>
  BY DEF Finalize, Is, RequestStep, DockerInv, LockIsExclusive
<1>3. \/ UNCHANGED <<processing, failed, answered>>
      \/ processing' = NoMail /\ failed' = failed /\ answered' = answered \cup {processing.id}
      \/ processing' = NoMail /\ failed' = processing /\ answered' = answered \cup {failed.id}
  BY DEF Finalize
<1>4. NoMail \in Requests /\ NoMail.id \notin 1 .. mails
  BY DEF NoMail, Requests, Nothing
<1>5. DockerTypeOK'
  BY <1>1, <1>2, <1>3, <1>4 DEF DockerInv, DockerTypeOK, Moves
<1>6. LockIsExclusive' /\ ClaimIsClear'
  BY <1>1, <1>2 DEF DockerInv, LockIsExclusive, ClaimIsClear, Moves
<1>7. RequestsAreAnswered'
  BY <1>2, <1>3, <1>4 DEF DockerInv, RequestsAreAnswered
<1> QED
  BY <1>5, <1>6, <1>7 DEF DockerInv

LEMMA ReleaseKeeps == ASSUME DockerInv, NEW s \in Scripts, Release(s) PROVE DockerInv'
<1>1. Moves(s, "idle")
  BY Blank, ResetMoves DEF Release, DockerInv
<1>2. script[s].pc = "release" /\ dockerLock = s /\ UNCHANGED <<mails, requests>>
  BY DEF Release, Is, DockerInv, LockIsExclusive
<1> QED
  BY <1>1, <1>2 DEF DockerInv, DockerTypeOK, LockIsExclusive, ClaimIsClear, RequestsAreAnswered,
                    Moves, requests

LEMMA DieKeeps == ASSUME DockerInv, NEW s \in Scripts, Die(s) PROVE DockerInv'
<1> DEFINE r == [NoScript EXCEPT !.pc = "dead"]
<1>1. IsScript(r) /\ r.pc = "dead"
  BY DEF NoScript, IsScript
<1> HIDE DEF r
<1>2. Moves(s, "dead")
  BY <1>1, ResetMoves DEF Die, DockerInv, r
<1> QED
  BY <1>2 DEF Die, DockerInv, DockerTypeOK, LockIsExclusive, ClaimIsClear, RequestsAreAnswered,
              Moves, requests

-----------------------------------------------------------------------------
(* From the target on an updater changes .env, images and container only.   *)
LEMMA DockerWorkKeeps ==
    ASSUME DockerInv, NEW s \in Scripts,
           \/ Target(s) \/ Inspect(s) \/ Sync(s) \/ ComposePull(s) \/ PullFails(s) \/ Up(s)
           \/ UpFails(s) \/ AwaitReady(s) \/ RestoreCompose(s) \/ RestoreTag(s)
           \/ RestoreRepository(s) \/ RestoreVersion(s) \/ UpAgain(s)
    PROVE  DockerInv'
<1>1. UNCHANGED <<mails, requests, dockerLock>>
  BY DEF Target, Inspect, Sync, ComposePull, PullFails, Up, UpFails, AwaitReady, RestoreCompose,
         RestoreTag, RestoreRepository, RestoreVersion, UpAgain, ScriptOnly
<1>2. script[s].pc \notin {"idle", "dead", "lock", "take"}
  BY DEF Target, Inspect, Sync, ComposePull, PullFails, Up, UpFails, AwaitReady, RestoreCompose,
         RestoreTag, RestoreRepository, RestoreVersion, UpAgain, Is
<1>3. ASSUME NEW fields, Step(s, fields), "pc" \in DOMAIN fields => fields["pc"] # "take"
      PROVE  DockerInv'
  <2> DEFINE to == IF "pc" \in DOMAIN fields THEN fields["pc"] ELSE script[s].pc
  <2>1. Moves(s, to)
    BY <1>3, StepMoves DEF DockerInv
  <2>2. to # "take"
    BY <1>2, <1>3
  <2> HIDE DEF to
  <2> QED
    BY <1>1, <1>2, <2>1, <2>2, QuietStepKeeps
<1>4. ASSUME NEW pc, pc # "take", To(s, pc)
      PROVE  DockerInv'
  <2>1. [pc |-> pc]["pc"] # "take"
    BY <1>4
  <2> QED
    BY <1>3, <1>4, <2>1 DEF To
<1>5. CASE Target(s)
  BY <1>4, <1>5 DEF Target
<1>6. CASE Inspect(s)
  BY <1>3, <1>4, <1>6 DEF Inspect
<1>7. CASE Sync(s)
  BY <1>4, <1>7 DEF Sync
<1>8. CASE ComposePull(s)
  BY <1>3, <1>8 DEF ComposePull
<1>9. CASE PullFails(s)
  BY <1>3, <1>4, <1>9 DEF PullFails
<1>10. CASE Up(s)
  BY <1>4, <1>10 DEF Up
<1>11. CASE UpFails(s)
  BY <1>4, <1>11 DEF UpFails
<1>12. CASE AwaitReady(s)
  BY <1>3, <1>4, <1>12 DEF AwaitReady
<1>13. CASE RestoreCompose(s)
  BY <1>4, <1>13 DEF RestoreCompose
<1>14. CASE RestoreTag(s)
  BY <1>4, <1>14 DEF RestoreTag
<1>15. CASE RestoreRepository(s)
  BY <1>4, <1>15 DEF RestoreRepository
<1>16. CASE RestoreVersion(s)
  BY <1>3, <1>4, <1>16 DEF RestoreVersion
<1>17. CASE UpAgain(s)
  BY <1>3, <1>4, <1>17 DEF UpAgain
<1> QED
  BY <1>5, <1>6, <1>7, <1>8, <1>9, <1>10, <1>11, <1>12, <1>13, <1>14, <1>15, <1>16, <1>17

LEMMA DockerStep == DockerInv /\ [DockerNext]_dockerVars => DockerInv'
<1> SUFFICES ASSUME DockerInv, [DockerNext]_dockerVars
             PROVE  DockerInv'
  OBVIOUS
<1>1. CASE \E tag \in Wanted : Mail(tag)
  BY <1>1, MailKeeps
<1>2. ASSUME NEW s \in Scripts, ScriptStep(s)
      PROVE  DockerInv'
  BY <1>2, DockerStartKeeps, AcquireKeeps, ClaimKeeps, TakeKeeps, DockerWorkKeeps, FinalizeKeeps,
     ReleaseKeeps, DieKeeps
     DEF ScriptStep
<1>3. CASE RemoveLock
  BY <1>3 DEF RemoveLock, DockerInv, DockerTypeOK, LockIsExclusive, ClaimIsClear,
              RequestsAreAnswered, requests
<1>4. CASE UNCHANGED dockerVars
  BY <1>4 DEF dockerVars, DockerInv, DockerTypeOK, LockIsExclusive, ClaimIsClear,
              RequestsAreAnswered
<1> QED
  BY <1>1, <1>2, <1>3, <1>4 DEF DockerNext

-----------------------------------------------------------------------------
(* Wherever updaters die and however many there are, no request is lost     *)
(* (consume_update_request, finalize_update_request:update-docker.sh).      *)
THEOREM RequestsAreKept == DockerSpec => []RequestsAreAnswered
<1>1. DockerInv => RequestsAreAnswered
  BY DEF DockerInv
<1> QED
  BY <1>1, DockerStarts, DockerStep, PTL DEF DockerSpec
-----------------------------------------------------------------------------
(* The way back of an update: what each of its steps has restored so far.   *)

Fields == DOMAIN NoScript
IsRef(x) == x = [repo |-> x.repo, tag |-> x.tag]
IsContainer(c) ==
    /\ c = [repo |-> c.repo, tag |-> c.tag, version |-> c.version, up |-> c.up]
    /\ c.up \in BOOLEAN

ShapesOK ==
    /\ IsContainer(container) /\ IsRef(dotenv)
    /\ \A s \in Scripts : /\ DOMAIN script[s] = Fields
                         /\ IsContainer(script[s].before) /\ IsRef(script[s].original)

\* What the updater remembers of the image is what it will put back.
Original(s) == script[s].original = Ref(script[s].before)
Restored(s) ==
    /\ container = [script[s].before EXCEPT !.up = script[s].before.up \/ container.up]
    /\ dotenv = script[s].original /\ composeFile = script[s].compose

OnTheWayBack(s) ==
    LET u == script[s]
    IN  /\ u.pc \notin {"exit", "release"} => ~u.restored
        /\ u.pc \in {"lock", "claim", "take", "target", "inspect", "sync", "pull",
                     "restore compose"} => ~u.pulled
        /\ u.pc \in {"up", "ready", "rollback", "tag", "up again"} => u.pulled
        /\ u.pc \in {"sync", "pull", "restore compose", "restore image", "restore version"}
              /\ ~u.pulled => container = u.before
        /\ u.pc \in {"restore image", "restore version", "up again"} /\ u.pulled =>
              Ref(u.before) \in DOMAIN store /\ store[Ref(u.before)] = u.before.version
        /\ u.pc \in {"tag", "restore image", "restore version", "up again"} =>
              composeFile = u.compose
        /\ u.pc = "restore version" => dotenv.repo = u.original.repo
        /\ u.pc = "up again" => dotenv = u.original
        /\ u.pc = "exit" /\ u.restored /\ Original(s) => Restored(s)

WayBackInv == DockerInv /\ ShapesOK /\ \A s \in Scripts : OnTheWayBack(s)

LEMMA NamesOfFields ==
    Fields = {"pc", "original", "claimed", "current", "before", "compose", "source", "pulled",
              "restored", "succeeded"}
BY DEF Fields, NoScript

\* A step of s sets some fields of its process and keeps the others.
Sets(s, fields) ==
    /\ DOMAIN script' = Scripts /\ DOMAIN script'[s] = Fields
    /\ \A f \in DOMAIN fields : script'[s][f] = fields[f]
    /\ \A f \in Fields \ DOMAIN fields : script'[s][f] = script[s][f]
    /\ \A t \in Scripts \ {s} : script'[t] = script[t]

LEMMA StepSets ==
    ASSUME WayBackInv, NEW s \in Scripts, NEW fields, DOMAIN fields \subseteq Fields,
           Step(s, fields)
    PROVE  Sets(s, fields)
<1> DEFINE r == [f \in DOMAIN script[s] |-> IF f \in DOMAIN fields THEN fields[f]
                                           ELSE script[s][f]]
<1>1. script' = [script EXCEPT ![s] = r]
  BY DEF Step
<1>2. DOMAIN script[s] = Fields /\ DOMAIN script = Scripts
  BY DEF WayBackInv, ShapesOK, DockerInv, DockerTypeOK
<1>3. /\ DOMAIN r = Fields /\ \A f \in DOMAIN fields : r[f] = fields[f]
      /\ \A f \in Fields \ DOMAIN fields : r[f] = script[s][f]
  BY <1>2
<1> HIDE DEF r
<1>4. /\ DOMAIN script' = Scripts /\ script'[s] = r
      /\ \A t \in Scripts \ {s} : script'[t] = script[t]
  BY <1>1, <1>2
<1> QED
  BY <1>3, <1>4 DEF Sets

(* Past the lock there is one updater: what it does concerns no other.      *)
LEMMA OneUpdaterAtWork ==
    ASSUME WayBackInv, NEW s \in Scripts, script[s].pc \notin {"idle", "dead", "lock"},
           NEW t \in Scripts \ {s}, script'[t] = script[t], OnTheWayBack(t)
    PROVE  OnTheWayBack(t)'
<1>1. script[t].pc \in {"idle", "dead", "lock"}
  BY DEF WayBackInv, DockerInv, LockIsExclusive
<1> QED
  BY <1>1 DEF OnTheWayBack

\* s goes on with what it remembers, the others stay where they are.
GoesTo(s, pc, pulled, restored) ==
    /\ DOMAIN script'[s] = Fields
    /\ \A t \in Scripts \ {s} : script'[t] = script[t]
    /\ script'[s].pc = pc /\ script'[s].pulled = pulled /\ script'[s].restored = restored
    /\ script'[s].before = script[s].before /\ script'[s].original = script[s].original
    /\ script'[s].compose = script[s].compose

LEMMA StepGoes ==
    ASSUME WayBackInv, NEW s \in Scripts, NEW fields, Step(s, fields),
           DOMAIN fields \subseteq {"pc", "claimed", "source", "pulled", "restored", "succeeded"}
    PROVE  GoesTo(s, IF "pc" \in DOMAIN fields THEN fields["pc"] ELSE script[s].pc,
                  IF "pulled" \in DOMAIN fields THEN fields["pulled"] ELSE script[s].pulled,
                  IF "restored" \in DOMAIN fields THEN fields["restored"] ELSE script[s].restored)
<1>1. Sets(s, fields)
  BY StepSets, NamesOfFields
<1>2. {"pc", "pulled", "restored", "before", "original", "compose"} \subseteq Fields
  BY NamesOfFields
<1>3. {"before", "original", "compose"} \cap DOMAIN fields = {}
  OBVIOUS
<1> QED
  BY <1>1, <1>2, <1>3 DEF Sets, GoesTo

LEMMA ToGoes ==
    ASSUME WayBackInv, NEW s \in Scripts, NEW pc, To(s, pc)
    PROVE  GoesTo(s, pc, script[s].pulled, script[s].restored)
<1>1. DOMAIN [pc |-> pc] = {"pc"} /\ [pc |-> pc]["pc"] = pc
  OBVIOUS
<1> QED
  BY <1>1, StepGoes DEF To

LEMMA WorkerKeeps ==
    ASSUME WayBackInv, DockerInv', NEW s \in Scripts,
           DOMAIN script'[s] = Fields, \A t \in Scripts \ {s} : script'[t] = script[t],
           script[s].pc \notin {"idle", "dead", "lock"},
           IsContainer(container'), IsRef(dotenv'),
           IsContainer(script'[s].before), IsRef(script'[s].original), OnTheWayBack(s)'
    PROVE  WayBackInv'
<1>1. ASSUME NEW t \in Scripts \ {s}
      PROVE  OnTheWayBack(t)'
  BY OneUpdaterAtWork DEF WayBackInv
<1>2. ShapesOK'
  BY <1>1 DEF WayBackInv, ShapesOK
<1> QED
  BY <1>1, <1>2 DEF WayBackInv

\* A step that changes neither the container nor what configures it.
LEMMA SettledKeeps ==
    ASSUME WayBackInv, DockerInv', NEW s \in Scripts, UNCHANGED deployment,
           DOMAIN script'[s] = Fields, \A t \in Scripts \ {s} : script'[t] = script[t],
           IsContainer(script'[s].before), IsRef(script'[s].original), OnTheWayBack(s)'
    PROVE  WayBackInv'
<1>1. ASSUME NEW t \in Scripts \ {s}
      PROVE  OnTheWayBack(t)'
  <2>1. OnTheWayBack(t) /\ script'[t] = script[t]
    BY DEF WayBackInv
  <2> QED
    BY <2>1 DEF OnTheWayBack, Original, Restored, deployment
<1>2. ShapesOK'
  BY <1>1 DEF WayBackInv, ShapesOK, deployment
<1> QED
  BY <1>1, <1>2 DEF WayBackInv

LEMMA GoingKeepsShape ==
    ASSUME WayBackInv, NEW s \in Scripts, NEW pc, NEW pulled, NEW restored,
           GoesTo(s, pc, pulled, restored)
    PROVE  IsContainer(script'[s].before) /\ IsRef(script'[s].original)
BY DEF WayBackInv, ShapesOK, GoesTo

LEMMA NoScriptIsShaped ==
    /\ IsContainer(NoScript.before) /\ IsRef(NoScript.original)
    /\ ~NoScript.restored /\ ~NoScript.pulled
BY DEF NoScript, IsContainer, IsRef, Deployed

LEMMA DockerBeginsWell == DockerInit => WayBackInv
<1> SUFFICES ASSUME DockerInit
             PROVE  WayBackInv
  OBVIOUS
<1>1. \A s \in Scripts : script[s] = NoScript
  BY DEF DockerInit
<1>2. IsContainer(container) /\ IsRef(dotenv)
  <2>1. container = Deployed(container.repo, container.tag, container.version)
    BY DockerAssumption DEF DockerInit
  <2>2. container.up = TRUE
    BY <2>1 DEF Deployed
  <2>3. dotenv = [repo |-> container.repo, tag |-> container.tag]
    BY DEF DockerInit, Ref
  <2>4. dotenv.repo = container.repo /\ dotenv.tag = container.tag
    BY <2>3
  <2> QED
    BY <2>1, <2>2, <2>3, <2>4 DEF IsContainer, IsRef, Deployed
<1>3. ShapesOK
  BY <1>1, <1>2, NoScriptIsShaped DEF ShapesOK, Fields
<1>4. \A s \in Scripts : script[s].pc = "idle"
  BY <1>1, Blank
<1>5. \A s \in Scripts : OnTheWayBack(s)
  BY <1>1, <1>4, NoScriptIsShaped DEF OnTheWayBack
<1> QED
  BY <1>3, <1>5, DockerStarts DEF WayBackInv

-----------------------------------------------------------------------------
(* Before the work, and after it.                                           *)
LEMMA StartWaysBack ==
    ASSUME WayBackInv, DockerInv', NEW s \in Scripts, StartScript(s) PROVE WayBackInv'
<1> DEFINE r == [NoScript EXCEPT !.pc = "lock", !.original = dotenv]
<1>1. /\ DOMAIN r = Fields /\ r.pc = "lock" /\ r.original = dotenv
      /\ r.before = NoScript.before /\ r.restored = NoScript.restored
      /\ r.pulled = NoScript.pulled
  BY DEF Fields, NoScript
<1> HIDE DEF r
<1>2. script'[s] = r /\ \A t \in Scripts \ {s} : script'[t] = script[t]
  BY DEF StartScript, r, WayBackInv, DockerInv, DockerTypeOK
<1>3. IsContainer(r.before) /\ IsRef(r.original) /\ ~r.restored /\ ~r.pulled
  BY <1>1, NoScriptIsShaped DEF WayBackInv, ShapesOK
<1>4. OnTheWayBack(s)'
  BY <1>1, <1>2, <1>3 DEF OnTheWayBack
<1>5. UNCHANGED deployment
  BY DEF StartScript
<1> QED
  BY <1>1, <1>2, <1>3, <1>4, <1>5, SettledKeeps

LEMMA EndWaysBack ==
    ASSUME WayBackInv, DockerInv', NEW s \in Scripts,
           NEW r, r = NoScript \/ r = [NoScript EXCEPT !.pc = "dead"],
           script' = [script EXCEPT ![s] = r], UNCHANGED deployment
    PROVE  WayBackInv'
<1>1. /\ DOMAIN r = Fields /\ r.pc \in {"idle", "dead"} /\ r.original = NoScript.original
      /\ r.before = NoScript.before /\ r.restored = NoScript.restored
  <2>1. CASE r = NoScript
    BY <2>1, Blank DEF Fields
  <2>2. CASE r = [NoScript EXCEPT !.pc = "dead"]
    BY <2>2 DEF Fields, NoScript
  <2> QED
    BY <2>1, <2>2
<1>2. script'[s] = r /\ \A t \in Scripts \ {s} : script'[t] = script[t]
  BY DEF WayBackInv, DockerInv, DockerTypeOK
<1>3. IsContainer(r.before) /\ IsRef(r.original) /\ ~r.restored
  BY <1>1, NoScriptIsShaped
<1>4. OnTheWayBack(s)'
  BY <1>1, <1>2, <1>3 DEF OnTheWayBack
<1> QED
  BY <1>1, <1>2, <1>3, <1>4, SettledKeeps

LEMMA QuietWaysBack ==
    ASSUME WayBackInv, DockerInv', UNCHANGED <<script, deployment>>
    PROVE  WayBackInv'
BY DEF WayBackInv, ShapesOK, OnTheWayBack, Original, Restored, deployment

LEMMA LockWaysBack ==
    ASSUME WayBackInv, DockerInv', NEW s \in Scripts,
           Acquire(s) \/ Take(s) \/ Finalize(s)
    PROVE  WayBackInv'
<1>1. UNCHANGED deployment
  BY DEF Acquire, Take, Finalize, RequestStep
<1>2. CASE Acquire(s)
  <2>1. CASE To(s, "claim")
    <3>1. GoesTo(s, "claim", script[s].pulled, script[s].restored) /\ script[s].pc = "lock"
      BY <1>2, <2>1, ToGoes DEF Acquire, Is
    <3>2. OnTheWayBack(s)'
      BY <3>1 DEF WayBackInv, OnTheWayBack, GoesTo
    <3> QED
      BY <1>1, <3>1, <3>2, GoingKeepsShape, SettledKeeps DEF GoesTo
  <2>2. CASE script' = [script EXCEPT ![s] = NoScript]
    BY <1>1, <2>2, EndWaysBack
  <2> QED
    BY <1>2, <2>1, <2>2 DEF Acquire
<1>3. CASE Take(s)
  <2>1. /\ DOMAIN [pc |-> "target", claimed |-> TRUE] = {"pc", "claimed"}
        /\ [pc |-> "target", claimed |-> TRUE]["pc"] = "target"
    OBVIOUS
  <2>2. GoesTo(s, "target", script[s].pulled, script[s].restored) /\ script[s].pc = "take"
    BY <1>3, <2>1, StepGoes DEF Take, Is
  <2>3. OnTheWayBack(s)'
    BY <2>2 DEF WayBackInv, OnTheWayBack, GoesTo
  <2> QED
    BY <1>1, <2>2, <2>3, GoingKeepsShape, SettledKeeps DEF GoesTo
<1>4. CASE Finalize(s)
  <2>1. GoesTo(s, "release", script[s].pulled, script[s].restored)
    BY <1>4, ToGoes DEF Finalize
  <2>2. OnTheWayBack(s)'
    BY <2>1 DEF OnTheWayBack, GoesTo
  <2> QED
    BY <1>1, <2>1, <2>2, GoingKeepsShape, SettledKeeps DEF GoesTo
<1> QED
  BY <1>2, <1>3, <1>4

LEMMA ClaimWaysBack ==
    ASSUME WayBackInv, DockerInv', NEW s \in Scripts, Claim(s) PROVE WayBackInv'
<1> DEFINE original == [script[s].original EXCEPT !.tag = dotenv.tag]
           fields == [pc |-> IF mail = NoMail THEN "inspect" ELSE "take", original |-> original]
<1>1. UNCHANGED deployment /\ script[s].pc = "claim" /\ Step(s, fields)
  BY DEF Claim, RequestStep, Is
<1>2. DOMAIN fields = {"pc", "original"} /\ fields["original"] = original
      /\ fields["pc"] \in {"inspect", "take"}
  OBVIOUS
<1>3. IsRef(original)
  <2>1. IsRef(script[s].original)
    BY DEF WayBackInv, ShapesOK
  <2> QED
    BY <2>1 DEF IsRef
<1> HIDE DEF fields, original
<1>4. Sets(s, fields)
  BY <1>1, <1>2, StepSets, NamesOfFields
<1>5. /\ script'[s].pc \in {"inspect", "take"} /\ script'[s].original = original
      /\ script'[s].before = script[s].before /\ script'[s].restored = script[s].restored
      /\ script'[s].pulled = script[s].pulled
  BY <1>2, <1>4, NamesOfFields DEF Sets
<1>6. OnTheWayBack(s)'
  BY <1>1, <1>5 DEF WayBackInv, OnTheWayBack
<1>7. IsContainer(script'[s].before)
  BY <1>5 DEF WayBackInv, ShapesOK
<1> QED
  BY <1>1, <1>3, <1>4, <1>5, <1>6, <1>7, SettledKeeps DEF Sets
-----------------------------------------------------------------------------
(* The work, and the way back.                                              *)
LEMMA Refs ==
    ASSUME NEW x, IsRef(x), NEW y
    PROVE  /\ IsRef([x EXCEPT !.repo = y]) /\ IsRef([x EXCEPT !.tag = y])
           /\ [x EXCEPT !.repo = y].repo = y
BY DEF IsRef

LEMMA Downs ==
    ASSUME NEW c, IsContainer(c), NEW d, d = c \/ d = [c EXCEPT !.up = FALSE]
    PROVE  IsContainer(d)
<1>1. CASE d = c
  BY <1>1
<1>2. CASE d = [c EXCEPT !.up = FALSE]
  <2>1. /\ d = [repo |-> c.repo, tag |-> c.tag, version |-> c.version, up |-> FALSE]
    BY <1>2 DEF IsContainer
  <2>2. d.repo = c.repo /\ d.tag = c.tag /\ d.version = c.version /\ d.up = FALSE
    BY <2>1
  <2> QED
    BY <2>1, <2>2 DEF IsContainer
<1> QED
  BY <1>1, <1>2

\* Both containers have what the goal asks for when they are one.
LEMMA SameContainer ==
    ASSUME NEW c, IsContainer(c)
    PROVE  c = [c EXCEPT !.up = c.up \/ c.up]
<1>1. c.up \in BOOLEAN
  BY DEF IsContainer
<1>2. (c.up \/ c.up) = c.up
  BY <1>1
<1>3. [c EXCEPT !.up = c.up] = c
  BY DEF IsContainer
<1> QED
  BY <1>2, <1>3

LEMMA DeployedContainer ==
    ASSUME NEW repo, NEW tag, NEW version
    PROVE  IsContainer(Deployed(repo, tag, version))
BY DEF IsContainer, Deployed

LEMMA WithUp ==
    ASSUME NEW c, IsContainer(c), NEW w
    PROVE  [c EXCEPT !.up = w] =
               [repo |-> c.repo, tag |-> c.tag, version |-> c.version, up |-> w]
<1> DEFINE k == [repo |-> c.repo, tag |-> c.tag, version |-> c.version, up |-> c.up]
<1>1. [k EXCEPT !.up = w] = [repo |-> c.repo, tag |-> c.tag, version |-> c.version, up |-> w]
  OBVIOUS
<1>2. c = k
  BY DEF IsContainer
<1> HIDE DEF k
<1> QED
  BY <1>1, <1>2

\* A container that is made again differs from what it was in being up.
LEMMA DeployedAgain ==
    ASSUME NEW c, IsContainer(c), NEW d, d = Deployed(c.repo, c.tag, c.version)
    PROVE  d = [c EXCEPT !.up = c.up \/ d.up]
<1>1. d.up = TRUE
  BY DEF Deployed
<1>2. (c.up \/ d.up) = TRUE
  BY <1>1
<1> QED
  BY <1>2, WithUp DEF Deployed

LEMMA TargetWaysBack ==
    ASSUME WayBackInv, DockerInv', NEW s \in Scripts, Target(s) PROVE WayBackInv'
<1>1. PICK pc \in {"exit", "inspect"} : GoesTo(s, pc, script[s].pulled, script[s].restored)
  BY ToGoes DEF Target
<1>2. script[s].pc = "target" /\ container' = container
  BY DEF Target, Is
<1>3. IsRef(dotenv') /\ IsContainer(container')
  <2>1. IsRef(dotenv) /\ IsContainer(container)
    BY DEF WayBackInv, ShapesOK
  <2>2. CASE dotenv' = dotenv
    BY <1>2, <2>1, <2>2
  <2>3. CASE dotenv' = [dotenv EXCEPT !.tag = processing.tag]
    BY <1>2, <2>1, <2>3, Refs
  <2> QED
    BY <2>2, <2>3 DEF Target
<1>4. OnTheWayBack(s)'
  BY <1>1, <1>2 DEF WayBackInv, OnTheWayBack, GoesTo
<1> QED
  BY <1>1, <1>2, <1>3, <1>4, GoingKeepsShape, WorkerKeeps DEF GoesTo

LEMMA InspectWaysBack ==
    ASSUME WayBackInv, DockerInv', NEW s \in Scripts, Inspect(s) PROVE WayBackInv'
<1>1. UNCHANGED deployment /\ script[s].pc = "inspect"
  BY DEF Inspect, ScriptOnly, Is
<1>2. CASE To(s, "exit")
  <2>1. GoesTo(s, "exit", script[s].pulled, script[s].restored)
    BY <1>2, ToGoes
  <2>2. OnTheWayBack(s)'
    BY <1>1, <2>1 DEF WayBackInv, OnTheWayBack, GoesTo
  <2> QED
    BY <1>1, <2>1, <2>2, GoingKeepsShape, SettledKeeps DEF GoesTo
<1>3. CASE Step(s, [pc |-> "sync", before |-> container, current |-> AgentVersion(container),
                    compose |-> composeFile])
  <2> DEFINE fields == [pc |-> "sync", before |-> container,
                        current |-> AgentVersion(container), compose |-> composeFile]
  <2>1. DOMAIN fields = {"pc", "before", "current", "compose"} /\ fields["pc"] = "sync"
        /\ fields["before"] = container
    OBVIOUS
  <2>2. Step(s, fields)
    BY <1>3
  <2> HIDE DEF fields
  <2>3. Sets(s, fields)
    BY <2>1, <2>2, StepSets, NamesOfFields
  <2>4. /\ script'[s].pc = "sync" /\ script'[s].before = container
        /\ script'[s].original = script[s].original
        /\ script'[s].pulled = script[s].pulled /\ script'[s].restored = script[s].restored
    BY <2>1, <2>3, NamesOfFields DEF Sets
  <2>5. OnTheWayBack(s)'
    BY <1>1, <2>4 DEF WayBackInv, OnTheWayBack, deployment
  <2>6. IsContainer(script'[s].before) /\ IsRef(script'[s].original)
    BY <2>4 DEF WayBackInv, ShapesOK
  <2> QED
    BY <1>1, <2>3, <2>5, <2>6, SettledKeeps DEF Sets
<1> QED
  BY <1>2, <1>3 DEF Inspect

LEMMA SyncWaysBack ==
    ASSUME WayBackInv, DockerInv', NEW s \in Scripts, Sync(s) PROVE WayBackInv'
<1>1. GoesTo(s, "pull", script[s].pulled, script[s].restored)
  BY ToGoes DEF Sync
<1>2. script[s].pc = "sync" /\ container' = container
  BY DEF Sync, Is
<1>3. IsRef(dotenv') /\ IsContainer(container')
  BY <1>2, Refs DEF Sync, WayBackInv, ShapesOK
<1>4. OnTheWayBack(s)'
  BY <1>1, <1>2 DEF WayBackInv, OnTheWayBack, GoesTo
<1> QED
  BY <1>1, <1>2, <1>3, <1>4, GoingKeepsShape, WorkerKeeps DEF GoesTo

LEMMA PullWaysBack ==
    ASSUME WayBackInv, DockerInv', NEW s \in Scripts, ComposePull(s) \/ PullFails(s)
    PROVE  WayBackInv'
<1>1. script[s].pc = "pull" /\ container' = container /\ IsContainer(container')
  BY DEF ComposePull, PullFails, Is, WayBackInv, ShapesOK
<1>2. CASE ComposePull(s)
  <2>1. /\ DOMAIN [pc |-> "up", pulled |-> TRUE] = {"pc", "pulled"}
        /\ [pc |-> "up", pulled |-> TRUE]["pc"] = "up"
        /\ [pc |-> "up", pulled |-> TRUE]["pulled"] = TRUE
    OBVIOUS
  <2>2. GoesTo(s, "up", TRUE, script[s].restored)
    BY <1>2, <2>1, StepGoes DEF ComposePull
  <2>3. OnTheWayBack(s)'
    BY <1>1, <2>2 DEF WayBackInv, OnTheWayBack, GoesTo
  <2>4. IsRef(dotenv')
    BY <1>2 DEF ComposePull, WayBackInv, ShapesOK
  <2> QED
    BY <1>1, <2>2, <2>3, <2>4, GoingKeepsShape, WorkerKeeps DEF GoesTo
<1>3. CASE PullFails(s)
  <2>1. \/ GoesTo(s, "restore compose", script[s].pulled, script[s].restored)
        \/ GoesTo(s, "pull", script[s].pulled, script[s].restored)
    <3>1. CASE To(s, "restore compose")
      BY <3>1, ToGoes
    <3>2. CASE Step(s, [source |-> script[s].source + 1])
      <4>1. DOMAIN [source |-> script[s].source + 1] = {"source"}
        OBVIOUS
      <4> QED
        BY <1>1, <3>2, <4>1, StepGoes
    <3> QED
      BY <1>3, <3>1, <3>2 DEF PullFails
  <2>2. IsRef(dotenv')
    <3>1. dotenv' = dotenv \/ dotenv' = [dotenv EXCEPT !.repo = Repositories[script[s].source + 1]]
      BY <1>3 DEF PullFails
    <3>2. IsRef(dotenv)
      BY DEF WayBackInv, ShapesOK
    <3>3. CASE dotenv' = dotenv
      BY <3>2, <3>3
    <3>4. CASE dotenv' = [dotenv EXCEPT !.repo = Repositories[script[s].source + 1]]
      BY <3>2, <3>4, Refs
    <3> QED
      BY <3>1, <3>3, <3>4
  <2>3. OnTheWayBack(s)'
    BY <1>1, <2>1 DEF WayBackInv, OnTheWayBack, GoesTo
  <2> QED
    BY <1>1, <2>1, <2>2, <2>3, GoingKeepsShape, WorkerKeeps DEF GoesTo
<1> QED
  BY <1>2, <1>3

LEMMA UpWaysBack ==
    ASSUME WayBackInv, DockerInv', NEW s \in Scripts, Up(s) \/ UpFails(s) PROVE WayBackInv'
<1>1. script[s].pc = "up" /\ dotenv' = dotenv
  BY DEF Up, UpFails, Is
<1>2. PICK pc \in {"ready", "rollback"} : GoesTo(s, pc, script[s].pulled, script[s].restored)
  BY ToGoes DEF Up, UpFails
<1>3. IsContainer(container') /\ IsRef(dotenv')
  <2>1. CASE Up(s)
    BY <1>1, <2>1, DeployedContainer DEF Up, Recreate, WayBackInv, ShapesOK
  <2>2. CASE UpFails(s)
    BY <1>1, <2>2, Downs DEF UpFails, WayBackInv, ShapesOK
  <2> QED
    BY <2>1, <2>2
<1>4. OnTheWayBack(s)'
  BY <1>1, <1>2 DEF WayBackInv, OnTheWayBack, GoesTo
<1> QED
  BY <1>1, <1>2, <1>3, <1>4, GoingKeepsShape, WorkerKeeps DEF GoesTo

LEMMA AwaitWaysBack ==
    ASSUME WayBackInv, DockerInv', NEW s \in Scripts, AwaitReady(s) PROVE WayBackInv'
<1>1. UNCHANGED deployment /\ script[s].pc = "ready"
  BY DEF AwaitReady, ScriptOnly, Is
<1>2. PICK pc \in {"exit", "rollback"} : GoesTo(s, pc, script[s].pulled, script[s].restored)
  <2>1. /\ DOMAIN [pc |-> "exit", succeeded |-> TRUE] = {"pc", "succeeded"}
        /\ [pc |-> "exit", succeeded |-> TRUE]["pc"] = "exit"
    OBVIOUS
  <2>2. CASE Step(s, [pc |-> "exit", succeeded |-> TRUE])
    BY <2>1, <2>2, StepGoes
  <2> QED
    BY <2>2, ToGoes DEF AwaitReady
<1>3. OnTheWayBack(s)'
  BY <1>1, <1>2 DEF WayBackInv, OnTheWayBack, GoesTo
<1> QED
  BY <1>1, <1>2, <1>3, GoingKeepsShape, SettledKeeps DEF GoesTo

LEMMA RestoreComposeWaysBack ==
    ASSUME WayBackInv, DockerInv', NEW s \in Scripts, RestoreCompose(s) PROVE WayBackInv'
<1>1. /\ composeFile' = script[s].compose
      /\ container' = container /\ store' = store /\ dotenv' = dotenv
  BY DEF RestoreCompose
<1>2. \/ /\ script[s].pc = "rollback"
         /\ \E pc \in {"exit", "tag"} : GoesTo(s, pc, script[s].pulled, script[s].restored)
      \/ /\ script[s].pc = "restore compose"
         /\ GoesTo(s, "restore image", script[s].pulled, script[s].restored)
  BY ToGoes DEF RestoreCompose, Is
<1>3. IsContainer(container') /\ IsRef(dotenv')
  BY <1>1 DEF WayBackInv, ShapesOK
<1>4. OnTheWayBack(s)'
  BY <1>1, <1>2 DEF WayBackInv, OnTheWayBack, GoesTo
<1> QED
  BY <1>2, <1>3, <1>4, GoingKeepsShape, WorkerKeeps DEF GoesTo

LEMMA RestoreTagWaysBack ==
    ASSUME WayBackInv, DockerInv', NEW s \in Scripts, RestoreTag(s) PROVE WayBackInv'
<1>1. /\ script[s].pc = "tag" /\ composeFile' = composeFile
      /\ container' = container /\ dotenv' = dotenv
  BY DEF RestoreTag, Is
<1>2. IsContainer(container') /\ IsRef(dotenv')
  BY <1>1 DEF WayBackInv, ShapesOK
<1>3. CASE To(s, "exit")
  <2>1. GoesTo(s, "exit", script[s].pulled, script[s].restored)
    BY <1>3, ToGoes
  <2>2. OnTheWayBack(s)'
    BY <1>1, <2>1 DEF WayBackInv, OnTheWayBack, GoesTo
  <2> QED
    BY <1>1, <1>2, <2>1, <2>2, GoingKeepsShape, WorkerKeeps DEF GoesTo
<1>4. CASE /\ store' = Stored(Ref(script[s].before), script[s].before.version)
           /\ To(s, "restore image")
  <2>1. GoesTo(s, "restore image", script[s].pulled, script[s].restored)
    BY <1>4, ToGoes
  <2>2. /\ Ref(script[s].before) \in DOMAIN store'
        /\ store'[Ref(script[s].before)] = script[s].before.version
    BY <1>4 DEF Stored
  <2>3. OnTheWayBack(s)'
    BY <1>1, <2>1, <2>2 DEF WayBackInv, OnTheWayBack, GoesTo
  <2> QED
    BY <1>1, <1>2, <2>1, <2>3, GoingKeepsShape, WorkerKeeps DEF GoesTo
<1> QED
  BY <1>3, <1>4 DEF RestoreTag

LEMMA RestoreRepositoryWaysBack ==
    ASSUME WayBackInv, DockerInv', NEW s \in Scripts, RestoreRepository(s) PROVE WayBackInv'
<1>1. /\ script[s].pc = "restore image" /\ composeFile' = composeFile
      /\ container' = container /\ store' = store
      /\ dotenv' = [dotenv EXCEPT !.repo = script[s].original.repo]
  BY DEF RestoreRepository, Is
<1>2. GoesTo(s, "restore version", script[s].pulled, script[s].restored)
  BY ToGoes DEF RestoreRepository
<1>3. IsContainer(container') /\ IsRef(dotenv') /\ dotenv'.repo = script[s].original.repo
  BY <1>1, Refs DEF WayBackInv, ShapesOK
<1>4. OnTheWayBack(s)'
  BY <1>1, <1>2, <1>3 DEF WayBackInv, OnTheWayBack, GoesTo
<1> QED
  BY <1>1, <1>2, <1>3, <1>4, GoingKeepsShape, WorkerKeeps DEF GoesTo

LEMMA RestoreVersionWaysBack ==
    ASSUME WayBackInv, DockerInv', NEW s \in Scripts, RestoreVersion(s) PROVE WayBackInv'
<1>1. /\ script[s].pc = "restore version" /\ composeFile' = composeFile
      /\ container' = container /\ store' = store
      /\ dotenv' = [dotenv EXCEPT !.tag = script[s].original.tag]
  BY DEF RestoreVersion, Is
<1>2. OnTheWayBack(s) /\ IsRef(dotenv) /\ IsRef(script[s].original)
      /\ IsContainer(container) /\ IsContainer(script[s].before)
  BY DEF WayBackInv, ShapesOK
<1>3. dotenv' = script[s].original
  BY <1>1, <1>2 DEF OnTheWayBack, IsRef
<1>4. CASE script[s].pulled /\ To(s, "up again")
  <2>1. GoesTo(s, "up again", script[s].pulled, script[s].restored)
    BY <1>4, ToGoes
  <2>2. OnTheWayBack(s)'
    BY <1>1, <1>2, <1>3, <1>4, <2>1 DEF OnTheWayBack, GoesTo
  <2> QED
    BY <1>1, <1>2, <1>3, <2>1, <2>2, GoingKeepsShape, WorkerKeeps DEF GoesTo
<1>5. CASE ~script[s].pulled /\ Step(s, [pc |-> "exit", restored |-> TRUE])
  <2>1. /\ DOMAIN [pc |-> "exit", restored |-> TRUE] = {"pc", "restored"}
        /\ [pc |-> "exit", restored |-> TRUE]["pc"] = "exit"
        /\ [pc |-> "exit", restored |-> TRUE]["restored"] = TRUE
    OBVIOUS
  <2>2. GoesTo(s, "exit", script[s].pulled, TRUE)
    BY <1>5, <2>1, StepGoes
  <2>3. container = script[s].before /\ composeFile = script[s].compose
    BY <1>1, <1>2, <1>5 DEF OnTheWayBack
  <2>4. container = [script[s].before EXCEPT !.up = script[s].before.up \/ container.up]
    BY <1>2, <2>3, SameContainer
  <2>5. Restored(s)'
    BY <1>1, <1>3, <2>2, <2>3, <2>4 DEF Restored, GoesTo
  <2>6. OnTheWayBack(s)'
    BY <2>2, <2>5 DEF OnTheWayBack, GoesTo
  <2> QED
    BY <1>1, <1>2, <1>3, <2>2, <2>6, GoingKeepsShape, WorkerKeeps DEF GoesTo
<1> QED
  BY <1>4, <1>5 DEF RestoreVersion

(* The tag names the image it named before, so the container that compose   *)
(* makes again is the one that was there.                                   *)
LEMMA UpAgainWaysBack ==
    ASSUME WayBackInv, DockerInv', NEW s \in Scripts, UpAgain(s) PROVE WayBackInv'
<1>1. script[s].pc = "up again" /\ composeFile' = composeFile /\ dotenv' = dotenv
  BY DEF UpAgain, Is
<1>2. OnTheWayBack(s) /\ IsRef(dotenv) /\ IsContainer(container) /\ IsContainer(script[s].before)
  BY DEF WayBackInv, ShapesOK
<1>3. CASE Recreate /\ Step(s, [pc |-> "exit", restored |-> TRUE])
  <2>1. /\ DOMAIN [pc |-> "exit", restored |-> TRUE] = {"pc", "restored"}
        /\ [pc |-> "exit", restored |-> TRUE]["pc"] = "exit"
        /\ [pc |-> "exit", restored |-> TRUE]["restored"] = TRUE
    OBVIOUS
  <2>2. GoesTo(s, "exit", script[s].pulled, TRUE)
    BY <1>3, <2>1, StepGoes
  <2>3. dotenv = script[s].original /\ composeFile = script[s].compose
        /\ Ref(script[s].before) \in DOMAIN store
        /\ store[Ref(script[s].before)] = script[s].before.version
    BY <1>1, <1>2 DEF OnTheWayBack
  <2>4. ASSUME Original(s)
        PROVE  container' = [script[s].before EXCEPT !.up = script[s].before.up \/ container'.up]
    <3>1. dotenv = Ref(script[s].before)
      BY <2>3, <2>4 DEF Original
    <3>2. dotenv.repo = script[s].before.repo /\ dotenv.tag = script[s].before.tag
      BY <3>1 DEF Ref
    <3>3. container' = Deployed(dotenv.repo, dotenv.tag, script[s].before.version)
      BY <1>3, <2>3, <3>1 DEF Recreate
    <3> QED
      BY <1>2, <3>2, <3>3, DeployedAgain
  <2>5. Original(s)' => Restored(s)'
    <3>1. Original(s)' => Original(s)
      BY <2>2 DEF Original, GoesTo
    <3> QED
      BY <1>1, <2>2, <2>3, <2>4, <3>1 DEF Restored, GoesTo
  <2>6. OnTheWayBack(s)'
    BY <2>2, <2>5 DEF OnTheWayBack, GoesTo
  <2>7. IsContainer(container')
    BY <1>3, DeployedContainer DEF Recreate
  <2> QED
    BY <1>1, <1>2, <2>2, <2>6, <2>7, GoingKeepsShape, WorkerKeeps DEF GoesTo
<1>4. CASE To(s, "exit") /\ container' \in {container, [container EXCEPT !.up = FALSE]}
  <2>1. GoesTo(s, "exit", script[s].pulled, script[s].restored)
    BY <1>4, ToGoes
  <2>2. OnTheWayBack(s)'
    BY <1>1, <1>2, <2>1 DEF OnTheWayBack, GoesTo
  <2>3. IsContainer(container')
    BY <1>2, <1>4, Downs
  <2> QED
    BY <1>1, <1>2, <2>1, <2>2, <2>3, GoingKeepsShape, WorkerKeeps DEF GoesTo
<1> QED
  BY <1>3, <1>4 DEF UpAgain

LEMMA WayBackStep == WayBackInv /\ [DockerNext]_dockerVars => WayBackInv'
<1> SUFFICES ASSUME WayBackInv, [DockerNext]_dockerVars
             PROVE  WayBackInv'
  OBVIOUS
<1>1. DockerInv'
  BY DockerStep DEF WayBackInv
<1>2. CASE \E tag \in Wanted : Mail(tag)
  BY <1>1, <1>2, QuietWaysBack DEF Mail
<1>3. ASSUME NEW s \in Scripts, ScriptStep(s)
      PROVE  WayBackInv'
  <2>1. CASE Release(s)
    BY <1>1, <2>1, EndWaysBack DEF Release
  <2>2. CASE Die(s)
    BY <1>1, <2>2, EndWaysBack DEF Die
  <2> QED
    BY <1>1, <1>3, <2>1, <2>2, StartWaysBack, LockWaysBack, ClaimWaysBack, TargetWaysBack,
       InspectWaysBack, SyncWaysBack, PullWaysBack, UpWaysBack, AwaitWaysBack,
       RestoreComposeWaysBack, RestoreTagWaysBack, RestoreRepositoryWaysBack,
       RestoreVersionWaysBack, UpAgainWaysBack
       DEF ScriptStep
<1>4. CASE RemoveLock
  BY <1>1, <1>4, QuietWaysBack DEF RemoveLock
<1>5. CASE UNCHANGED dockerVars
  BY <1>1, <1>5, QuietWaysBack DEF dockerVars, deployment
<1> QED
  BY <1>2, <1>3, <1>4, <1>5 DEF DockerNext

(* An update that is undone ends on the container, the settings and the     *)
(* compose file it began with (rollback_docker:774-798), whatever the other *)
(* updaters do and wherever any of them died: the lock, the tag and the two *)
(* halves of .env are restored in an order that leaves nothing out.         *)
THEOREM RollbacksRestore == DockerSpec => []RollbackRestores
<1>1. WayBackInv => RollbackRestores
  BY DEF WayBackInv, OnTheWayBack, Original, Restored, RollbackRestores, Is
<1> QED
  BY <1>1, DockerBeginsWell, WayBackStep, PTL DEF DockerSpec
=============================================================================
