--------------------------- MODULE MCDurableState ---------------------------
(* One model-checking instance for what an agent keeps across restarts: the   *)
(* four stores of durable and cached state, and the two updaters of the host. *)
(* They share no variable, so a behaviour runs one of them, chosen in the     *)
(* initial state, and leaves the others at rest: their state spaces add up    *)
(* instead of multiplying.                                                    *)
EXTENDS RootHintsStore, TrustAnchorStore, DependencyCache, AgentIdentity,
        MCSystemdUpdate, DockerUpdate, TLC

VARIABLE unit   \* the component this behaviour runs

vars == <<unit, hintsVars, anchorVars, cacheVars, identityVars, sysVars, dockerVars>>

\* Three versions of the hints, two of them published at the same time.
MCPublishedAt == [v \in Versions |-> IF v = 1 THEN 1 ELSE 2]

\* The primary repository and its fallback; the rolling tag and a fixed one.
MCRepositories == <<"primary", "fallback">>
MCContainers == {Deployed("primary", Rolling, 1), Deployed("fallback", 1, 1),
                 Deployed("primary", Rolling, Nothing)}
MCWorkingSets == {{1}, {1, 2}}
MCRuntimeChoices == {Nothing, 1}
MCWanted == {Rolling, 2, Invalid}

\* Processes of one kind are alike.
Alike == Permutations(Updaters) \cup Permutations(Scripts)

FirstStart ==
  setting = [id |-> Legacy, token |-> Unset, binding |-> TRUE]
    /\ idFile = Unset /\ tokenFile = Unset

AtRest(name, choices) == unit = name \/ choices

Init ==
  /\ unit \in {"hints", "anchor", "cache", "identity", "systemd", "docker"}
  /\ HintsInit /\ AtRest("hints", configured = 1)
  /\ AnchorInit
  /\ CacheInit
  /\ IdentityInit /\ AtRest("identity", FirstStart)
  /\ SystemdInit /\ AtRest("systemd", policy.mode = "auto" /\ sound = {2} /\ disk = 2)
  /\ DockerInit
  /\ AtRest("docker", working = {1} /\ runtime = Nothing /\ container.version = Nothing)
  /\ container.version = Nothing => working = {1} /\ runtime = Nothing

Next ==
  /\ UNCHANGED unit
  /\ \/ unit = "hints" /\ HintsNext
        /\ UNCHANGED <<anchorVars, cacheVars, identityVars, sysVars, dockerVars>>
     \/ unit = "anchor" /\ AnchorNext
        /\ UNCHANGED <<hintsVars, cacheVars, identityVars, sysVars, dockerVars>>
     \/ unit = "cache" /\ CacheNext
        /\ UNCHANGED <<hintsVars, anchorVars, identityVars, sysVars, dockerVars>>
     \/ unit = "identity" /\ IdentityNext
        /\ UNCHANGED <<hintsVars, anchorVars, cacheVars, sysVars, dockerVars>>
     \/ unit = "systemd" /\ SystemdNext
        /\ UNCHANGED <<hintsVars, anchorVars, cacheVars, identityVars, dockerVars>>
     \/ unit = "docker" /\ DockerNext
        /\ UNCHANGED <<hintsVars, anchorVars, cacheVars, identityVars, sysVars>>

Spec == Init /\ [][Next]_vars
=============================================================================
