--------------------------- MODULE AgentIdentity ---------------------------
(* The identity an agent keeps on disk and how a start settles it:            *)
(* loadConfig and resolveAgentIDForConfig (config.go), prepareAgentState and  *)
(* the registration part of run (main.go), registerAgent and                  *)
(* agentTokenCanContinue (agent_lifecycle.go).                                *)
(*                                                                            *)
(* Both files are rewritten with os.WriteFile, which truncates and then       *)
(* writes: a kill between the two leaves an empty file.  The server is        *)
(* external: it issues tokens, confirms them or does not answer.              *)
EXTENDS Naturals

CONSTANTS MaxIDs,     \* bound: UUID identities generated or assigned
          MaxTokens,  \* bound: tokens the server issues
          MaxKills    \* bound: kills and restarts

ASSUME IdentityAssumption ==
  MaxIDs \in Nat \ {0} /\ MaxTokens \in Nat \ {0} /\ MaxKills \in Nat

VARIABLES
  setting,    \* the environment, the same at every start: the configured id and
              \* agent token, and whether NODEPING_TOKEN is set
  idFile,     \* agent-id: 0 if it is missing or empty
  tokenFile,  \* agent-token: likewise
  phase,      \* where this start is; "down" between two lives
  cfg,        \* cfg.AgentID and cfg.AgentToken of this life
  confirmed,  \* the ids that went through a registration
  generated,  \* UUID ids used up so far, the configured one included
  issued,     \* tokens the server has issued, 1..issued
  lastID,     \* history: the id the agent last ran under
  excused,    \* history: since then the id file was torn or the server renamed
  kills

identityVars == <<setting, idFile, tokenFile, phase, cfg, confirmed, generated,
                  issued, lastID, excused, kills>>

Unset  == 0
Given  == 1                 \* the UUID of a host that configures one
Legacy == MaxIDs + 2        \* a hostname id of an old version
IsUUID(id) == id \in 1..MaxIDs
Fresh  == generated + 1     \* randomLocalAgentID

IdentityInit ==
  /\ setting \in [id : {Unset, Given, Legacy}, token : {Unset, 1}, binding : BOOLEAN]
  /\ idFile \in {Unset, Legacy}        \* a first start, or an old version's files
  /\ tokenFile \in {Unset, 1}
  /\ phase = "down"
  /\ cfg = [id |-> Unset, token |-> Unset]
  /\ confirmed = IF idFile = Legacy /\ tokenFile # Unset THEN {Legacy} ELSE {}
  /\ generated = IF setting.id = Given THEN 1 ELSE 0
  /\ issued = IF tokenFile = Unset THEN setting.token ELSE tokenFile
  /\ lastID = idFile
  /\ excused = FALSE
  /\ kills = 0

\* loadConfig: NODEPING_AGENT_TOKEN wins over the token file.
StoredToken == IF setting.token # Unset THEN setting.token ELSE tokenFile

\* Mutant: a legacy setting is migrated at every start, stored UUID or not.
ResolvesToMigrated(id) ==
  IF IsUUID(setting.id) THEN id = setting.id
  ELSE IF StoredToken # Unset /\ setting.id = Legacy THEN id = Fresh
  ELSE id = IF IsUUID(idFile) THEN idFile ELSE Fresh

(* resolveAgentIDForConfig: a configured UUID wins over everything, a stored  *)
(* UUID over a legacy id; a legacy id survives only until the agent holds a   *)
(* token, then it is replaced.                                                *)
ResolvesTo(id) ==
  IF IsUUID(setting.id) THEN id = setting.id
  ELSE IF IsUUID(idFile) THEN id = idFile
  ELSE IF StoredToken # Unset THEN id = Fresh
  ELSE IF setting.id # Unset THEN id = setting.id
  ELSE IF idFile # Unset THEN id = idFile
  ELSE id = Fresh

\* loadConfig; without any token the process ends with log.Fatal.
LoadConfig ==
  /\ phase = "down"
  /\ IF StoredToken = Unset /\ ~setting.binding
     THEN phase' = "fatal" /\ UNCHANGED <<cfg, generated, idFile>>
     ELSE \E id \in 1..Legacy :
       /\ ResolvesTo(id)
       /\ id = Fresh => generated < MaxIDs
       /\ generated' = IF id = Fresh THEN Fresh ELSE generated
       /\ cfg' = [id |-> id, token |-> StoredToken]
       \* defaultAgentIDFromFile saves the id it generates
       /\ idFile' = IF id = Fresh /\ StoredToken = Unset THEN id ELSE idFile
       /\ phase' = "prepare"
  /\ UNCHANGED <<setting, tokenFile, confirmed, issued, lastID, excused, kills>>

\* prepareAgentState: the id file is truncated ...
PrepareTruncate ==
  /\ phase = "prepare"
  /\ idFile' = Unset
  /\ phase' = "prepareWrite"
  /\ UNCHANGED <<setting, tokenFile, cfg, confirmed, generated, issued, lastID, excused, kills>>

\* Mutant: an id that was never registered is not written.
PrepareWriteRegistered ==
  /\ phase = "prepareWrite"
  /\ idFile' = IF cfg.id \in confirmed THEN cfg.id ELSE idFile
  /\ phase' = "status"
  /\ UNCHANGED <<setting, tokenFile, cfg, confirmed, generated, issued, lastID, excused, kills>>

\* ... and written, whether or not the id was ever registered.
PrepareWrite ==
  /\ phase = "prepareWrite"
  /\ idFile' = cfg.id
  /\ phase' = "status"
  /\ UNCHANGED <<setting, tokenFile, cfg, confirmed, generated, issued, lastID, excused, kills>>

\* agentTokenCanContinue: the server confirms the stored token, or it does not
\* (unknown, or no answer in time) and the agent must register again.
CheckStatus ==
  /\ phase = "status"
  /\ \/ cfg.token # Unset /\ phase' = "storeToken"
     \/ phase' = IF setting.binding THEN "register" ELSE "fatal"
  /\ UNCHANGED <<setting, idFile, tokenFile, cfg, confirmed, generated, issued,
                 lastID, excused, kills>>

(* registerAgent: the response names the agent's id, another one (the server  *)
(* renames the agent) or none, and then run writes no id.  It carries a new   *)
(* token, or none, which run notices only after it stored the id.             *)
Register ==
  /\ phase = "register"
  /\ issued < MaxTokens
  /\ \E token \in {issued + 1, Unset}, named \in BOOLEAN :
       /\ issued' = IF token = Unset THEN issued ELSE token
       /\ \/ /\ cfg' = [cfg EXCEPT !.token = token]
             /\ UNCHANGED <<generated, excused>>
          \/ /\ generated < MaxIDs /\ named
             /\ generated' = Fresh
             /\ cfg' = [id |-> Fresh, token |-> token]
             /\ excused' = TRUE
       /\ phase' = IF named THEN "storeID" ELSE "storeToken"
  /\ confirmed' = confirmed \cup {cfg'.id}
  /\ UNCHANGED <<setting, idFile, tokenFile, lastID, kills>>

\* Registration failed: run returns its error and the process ends.
RegisterFails ==
  /\ phase = "register"
  /\ phase' = "fatal"
  /\ UNCHANGED <<setting, idFile, tokenFile, cfg, confirmed, generated, issued,
                 lastID, excused, kills>>

StoreIDTruncate ==
  /\ phase = "storeID"
  /\ idFile' = Unset
  /\ phase' = "storeIDWrite"
  /\ UNCHANGED <<setting, tokenFile, cfg, confirmed, generated, issued, lastID, excused, kills>>

StoreIDWrite ==
  /\ phase = "storeIDWrite"
  /\ idFile' = cfg.id
  /\ phase' = "storeToken"
  /\ UNCHANGED <<setting, tokenFile, cfg, confirmed, generated, issued, lastID, excused, kills>>

\* run: a registration without an agent_token ends the process.
NoTokenReturned ==
  /\ phase = "storeToken" /\ cfg.token = Unset
  /\ phase' = "fatal"
  /\ UNCHANGED <<setting, idFile, tokenFile, cfg, confirmed, generated, issued,
                 lastID, excused, kills>>

\* writeAgentTokenFile, at every start, even when nothing changed.
StoreTokenTruncate ==
  /\ phase = "storeToken" /\ cfg.token # Unset
  /\ tokenFile' = Unset
  /\ phase' = "storeTokenWrite"
  /\ UNCHANGED <<setting, idFile, cfg, confirmed, generated, issued, lastID, excused, kills>>

StoreTokenWrite ==
  /\ phase = "storeTokenWrite"
  /\ tokenFile' = cfg.token
  /\ lastID' = cfg.id
  /\ excused' = FALSE
  /\ phase' = "running"
  /\ UNCHANGED <<setting, idFile, cfg, confirmed, generated, issued, kills>>

\* The process ends, by a kill at any point or by its own error, and the
\* supervisor will start it again.
Ends ==
  /\ phase # "down"
  /\ kills < MaxKills
  /\ kills' = kills + 1
  /\ phase' = "down"
  /\ cfg' = [id |-> Unset, token |-> Unset]
  /\ excused' = (excused \/ phase \in {"prepareWrite", "storeIDWrite"})
  /\ UNCHANGED <<setting, idFile, tokenFile, confirmed, generated, issued, lastID>>

IdentityNext ==
  \/ LoadConfig \/ PrepareTruncate \/ PrepareWrite \/ CheckStatus \/ Register
  \/ RegisterFails \/ StoreIDTruncate \/ StoreIDWrite \/ NoTokenReturned
  \/ StoreTokenTruncate \/ StoreTokenWrite \/ Ends

IdentitySpec == IdentityInit /\ [][IdentityNext]_identityVars
-----------------------------------------------------------------------------
(* While the loops run, both files hold the identity the agent acts under:    *)
(* what a registration returned and what a migration chose were stored on     *)
(* every path that leads here.                                                *)
RunningIdentityIsStored ==
  phase = "running" => idFile = cfg.id /\ tokenFile = cfg.token /\ cfg.token # Unset

(* An agent that once ran under a UUID comes back under the same one after    *)
(* any kills and failed starts.  Only a server that assigns another id, or a  *)
(* kill while the id file is truncated, may change it, and a host that        *)
(* configures a UUID takes it back to that one: after the server renamed such *)
(* an agent its next start runs under the configured id again.                *)
AgentKeepsItsID ==
  [][phase' = "running" /\ phase # "running" /\ IsUUID(lastID) /\ cfg.id # lastID
       => excused \/ (IsUUID(setting.id) /\ cfg.id = setting.id)]_identityVars

(* main_test.go: a migration candidate should not be persisted before the     *)
(* registration succeeds (and README.md: written after it).  An id the host   *)
(* configures is no candidate.                                                *)
MigratedIDIsRegisteredFirst ==
  idFile # Unset /\ Legacy \in confirmed /\ ~IsUUID(setting.id) => idFile \in confirmed
=============================================================================
