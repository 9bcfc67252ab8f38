-------------------------- MODULE DependencyCache --------------------------
(* The dependency snapshot a heartbeat reports (cmd/nodeping-agent/doctor.go) *)
(* and the root material loop that invalidates it (dns_root_material.go).     *)
(*                                                                            *)
(* The heartbeat loop fills the cache outside its lock, which takes up to the *)
(* collection timeout; the root material loop refreshes the material on disk  *)
(* and then clears the cache.  Collections, cached or not, activate newly     *)
(* delivered hints themselves and recover what is damaged, and clear nothing. *)
(* A snapshot is the number of the material generation it is about, the       *)
(* absence of usable material included; time is counted in ticks.             *)
EXTENDS Naturals

CONSTANTS TTL,            \* five minutes
          CollectTimeout, \* eight seconds, shorter than TTL
          MaxTime,        \* bound: the run ends at this tick
          MaxGeneration   \* bound: generations of the root material

ASSUME CacheAssumption ==
  /\ TTL \in Nat /\ CollectTimeout \in Nat /\ CollectTimeout < TTL
  /\ MaxTime \in Nat /\ MaxGeneration \in Nat \ {0}

VARIABLES
  clock,        \* ticks since the start
  generation,   \* of the root material on disk
  appeared,     \* when each generation up to that one appeared
  refresh,      \* the root material loop: "firstHints", "firstAnchor" (the
                \* initial refresh), "hints", "anchor", "invalidate"
  cache,        \* dependencySnapshotCache: whether filled, generation, expiry
  fill,         \* the heartbeat's collection: its start, stage and generation
  announced,    \* history: the generation at the last invalidation
  reported      \* the generation of the last heartbeat, and when it was sent

cacheVars == <<clock, generation, appeared, refresh, cache, fill, announced, reported>>

\* overtaken is a history: the cache was invalidated during the collection.
NoSnapshot == [filled |-> FALSE, seen |-> 0, expires |-> 0, overtaken |-> FALSE]
NoFill     == [stage |-> "none", now |-> 0, seen |-> 0, overtaken |-> FALSE]
Filling    == fill.stage # "none"

CacheInit ==
  /\ clock = 0
  /\ generation = 1
  /\ appeared = [g \in 1..MaxGeneration |-> 0]
  /\ refresh = "firstHints"
  /\ cache = NoSnapshot
  /\ fill = NoFill
  /\ announced = 0
  /\ reported = [seen |-> 0, at |-> 0]

\* Time passes; a collection ends within its timeout.
Tick ==
  /\ clock < MaxTime
  /\ Filling => clock < fill.now + CollectTimeout
  /\ clock' = clock + 1
  /\ UNCHANGED <<generation, appeared, refresh, cache, fill, announced, reported>>

\* Activating hints, updating the anchor and recovering either may each leave
\* other material on disk than before, or the same.
Replaced ==
  /\ generation < MaxGeneration
  /\ generation' = generation + 1
  /\ appeared' = [appeared EXCEPT ![generation + 1] = clock]
MayReplace == Replaced \/ UNCHANGED <<generation, appeared>>

Unexpired(snapshot) == clock < snapshot.expires /\ snapshot.filled

\* cachedDependencySnapshot: an unexpired snapshot is the answer.
CacheHit ==
  /\ ~Filling /\ Unexpired(cache)
  /\ reported' = [seen |-> cache.seen, at |-> clock]
  /\ UNCHANGED <<clock, generation, appeared, refresh, cache, fill, announced>>

\* Otherwise the lock is dropped and a collection starts; now was taken before.
StartFill ==
  /\ ~Filling /\ ~Unexpired(cache)
  /\ fill' = [NoFill EXCEPT !.stage = "activate", !.now = clock]
  /\ UNCHANGED <<clock, generation, appeared, refresh, cache, announced, reported>>

\* collectDNSRootMaterialReadiness activates the configured hints, under a lock
\* of its own; if neither they nor older ones can be had, that is its answer.
ActivateMaterial ==
  /\ fill.stage = "activate"
  /\ MayReplace
  /\ \/ fill' = [fill EXCEPT !.stage = "read"]
     \/ fill' = [fill EXCEPT !.stage = "store", !.seen = generation']
  /\ UNCHANGED <<clock, refresh, cache, announced, reported>>

\* Then it reads the material, which may recover it, under the lock again.
ReadMaterial ==
  /\ fill.stage = "read"
  /\ MayReplace
  /\ fill' = [fill EXCEPT !.stage = "store", !.seen = generation']
  /\ UNCHANGED <<clock, refresh, cache, announced, reported>>

\* Mutant: the lifetime starts when the snapshot is stored.
ExpiryAtStore == clock + TTL

\* The lifetime of a snapshot starts before its collection did.
Expiry == fill.now + TTL

\* The collected snapshot replaces whatever the cache holds by now.
StoreFill ==
  /\ fill.stage = "store"
  /\ cache' = [filled |-> TRUE, seen |-> fill.seen, expires |-> Expiry,
               overtaken |-> fill.overtaken]
  /\ reported' = [seen |-> fill.seen, at |-> clock]
  /\ fill' = NoFill
  /\ UNCHANGED <<clock, generation, appeared, refresh, announced>>

\* The collections that bypass the cache, of the doctor task, of a dependency
\* fix and of the doctor command in another process, have the same two steps.
OtherCollection ==
  /\ Replaced
  /\ UNCHANGED <<clock, refresh, cache, fill, announced, reported>>

\* refreshDNSRootMaterial activates the hints.  An error ends the refresh: the
\* daily one is followed by an invalidation all the same, the initial one not.
StartRefresh ==
  /\ \/ refresh = "firstHints" /\ refresh' \in {"firstAnchor", "hints"}
     \/ refresh = "hints" /\ refresh' \in {"anchor", "invalidate"}
  /\ MayReplace
  /\ UNCHANGED <<clock, cache, fill, announced, reported>>

\* Then it updates the anchor, with the same consequences of an error.
FinishRefresh ==
  /\ \/ refresh = "firstAnchor" /\ refresh' \in {"invalidate", "hints"}
     \/ refresh = "anchor" /\ refresh' = "invalidate"
  /\ MayReplace
  /\ UNCHANGED <<clock, cache, fill, announced, reported>>

\* invalidateDependencySnapshot; a collection under way is not told.
Invalidate ==
  /\ refresh = "invalidate"
  /\ cache' = NoSnapshot
  /\ fill' = [fill EXCEPT !.overtaken = Filling]
  /\ announced' = generation
  /\ refresh' = "hints"
  /\ UNCHANGED <<clock, generation, appeared, reported>>

CacheNext ==
  \/ Tick \/ CacheHit \/ StartFill \/ ActivateMaterial \/ ReadMaterial \/ StoreFill
  \/ OtherCollection \/ StartRefresh \/ FinishRefresh \/ Invalidate

CacheSpec == CacheInit /\ [][CacheNext]_cacheVars
-----------------------------------------------------------------------------
(* Heartbeats stop reporting replaced root material.  Whoever replaced it,    *)
(* the cache forgets what it says of the old one within TTL of the            *)
(* replacement, however slowly that was collected, and no heartbeat is sent   *)
(* with it later; and after an invalidation only a collection that was under  *)
(* way then can bring back what was replaced before it.                       *)
StaleReadinessExpires ==
  /\ cache.filled /\ cache.seen < generation => cache.expires <= appeared[cache.seen + 1] + TTL
  /\ reported.seen \in 1..generation - 1 => reported.at < appeared[reported.seen + 1] + TTL
  /\ cache.filled /\ cache.seen < announced => cache.overtaken
=============================================================================
