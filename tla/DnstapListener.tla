---------------------------- MODULE DnstapListener ----------------------------
(***************************************************************************)
(* The listener that hands the collector its one connection                *)
(* (internal/dnstapcollector/listener.go and listener_unix.go): several    *)
(* goroutines may call Accept and Close at any time, and any local process *)
(* may connect.  One action is the code between two lock operations.       *)
(***************************************************************************)
EXTENDS Naturals, FiniteSets

CONSTANTS
    Acceptors,    \* goroutines that call Accept
    Closers,      \* goroutines that call Close
    MaxPeers      \* bound: connections made by local processes

VARIABLES
    flags,        \* [accepting, accepted, closed], guarded by the mutex
    socket,       \* "open" or "closed": the platform listener
    files,        \* what is on disk: the work directory "dir" and, in it, the
                  \* "socket", something "other" at its path, a "stray" file
    peers,        \* connections waiting in the backlog
    connected,    \* connections made so far
    acceptor,     \* goroutine -> "idle", "waiting", "holding" or "leaving"
    closer,       \* goroutine -> "idle", "marked", "closed" or "returned"
    handed,       \* connections Accept has returned
    closeErr      \* the listener's closeErr: whether Close returns an error

lstVars == <<flags, socket, files, peers, connected, acceptor, closer, handed, closeErr>>

ListenerInit ==
    /\ flags = [accepting |-> FALSE, accepted |-> FALSE, closed |-> FALSE]
    /\ socket = "open" /\ files = {"socket", "dir"}
    /\ peers = 0 /\ connected = 0 /\ handed = 0
    /\ acceptor = [a \in Acceptors |-> "idle"]
    /\ closer = [c \in Closers |-> "idle"]
    /\ closeErr = FALSE

Connect ==
    /\ socket = "open" /\ connected < MaxPeers
    /\ connected' = connected + 1 /\ peers' = peers + 1
    /\ UNCHANGED <<flags, socket, files, acceptor, closer, handed, closeErr>>

\* mutant: an Accept in progress does not keep another one out
EntersTwice(a) ==
    /\ acceptor[a] = "idle" /\ ~flags.closed /\ ~flags.accepted
    /\ flags' = [flags EXCEPT !.accepting = TRUE]
    /\ acceptor' = [acceptor EXCEPT ![a] = "waiting"]
    /\ UNCHANGED <<socket, files, peers, connected, closer, handed, closeErr>>

(* Accept up to the first unlock; the calls it refuses change nothing. *)
Enter(a) ==
    /\ acceptor[a] = "idle"
    /\ ~flags.closed /\ ~flags.accepting /\ ~flags.accepted
    /\ flags' = [flags EXCEPT !.accepting = TRUE]
    /\ acceptor' = [acceptor EXCEPT ![a] = "waiting"]
    /\ UNCHANGED <<socket, files, peers, connected, closer, handed, closeErr>>

(* The platform Accept returns: a connection whose peer is valid, one whose *)
(* peer is not and is closed, or an error (deadline, listener closed).      *)
Wake(a) ==
    /\ acceptor[a] = "waiting"
    /\ \/ /\ peers > 0 /\ socket = "open" /\ peers' = peers - 1
          /\ acceptor' \in {[acceptor EXCEPT ![a] = s] : s \in {"holding", "leaving"}}
       \/ acceptor' = [acceptor EXCEPT ![a] = "leaving"] /\ UNCHANGED peers
    /\ UNCHANGED <<flags, socket, files, connected, closer, handed, closeErr>>

(* The second lock of Accept; the connection is the caller's from here on. *)
Publish(a) ==
    /\ acceptor[a] = "holding"
    /\ flags' = [flags EXCEPT !.accepted = TRUE]
    /\ handed' = handed + 1
    /\ acceptor' = [acceptor EXCEPT ![a] = "leaving"]
    /\ UNCHANGED <<socket, files, peers, connected, closer, closeErr>>

(* The deferred release. *)
Leave(a) ==
    /\ acceptor[a] = "leaving"
    /\ flags' = [flags EXCEPT !.accepting = FALSE]
    /\ acceptor' = [acceptor EXCEPT ![a] = "idle"]
    /\ UNCHANGED <<socket, files, peers, connected, closer, handed, closeErr>>

(* Close: closeOnce lets one caller through and makes the others wait. *)
Mark(c) ==
    /\ closer[c] = "idle" /\ \A d \in Closers : closer[d] = "idle"
    /\ flags' = [flags EXCEPT !.closed = TRUE]
    /\ closer' = [closer EXCEPT ![c] = "marked"]
    /\ UNCHANGED <<socket, files, peers, connected, acceptor, handed, closeErr>>

(* The platform Close unlinks whatever is at the path, if it can, and resets *)
(* the backlog; its own error, if any, becomes the error of Close.           *)
CloseSocket(c) ==
    /\ closer[c] = "marked"
    /\ socket' = "closed" /\ peers' = 0
    /\ files' \in {files, files \ {"socket", "other"}}
    /\ closeErr' \in BOOLEAN
    /\ closer' = [closer EXCEPT ![c] = "closed"]
    /\ UNCHANGED <<flags, connected, acceptor, handed>>

(* What the cleanup may leave.  It refuses a path that is no socket; Lstat   *)
(* and Remove may fail, and Remove does when the directory is not empty.     *)
CleanupEnds(left, failed) ==
    \/ failed /\ left = files
    \/ failed /\ left = files \ {"socket"} /\ "other" \notin files
    \/ ~failed /\ left = {} /\ files \subseteq {"socket", "dir"}

(* An error of the platform Close is the one that is kept. *)
Cleanup(c) ==
    /\ closer[c] = "closed"
    /\ \E left \in SUBSET files, failed \in BOOLEAN :
          /\ CleanupEnds(left, failed)
          /\ files' = left
          /\ closeErr' = (closeErr \/ failed)
    /\ closer' = [closer EXCEPT ![c] = "returned"]
    /\ UNCHANGED <<flags, socket, peers, connected, acceptor, handed>>

CloseAgain(c) ==
    /\ closer[c] = "idle" /\ \E d \in Closers : closer[d] = "returned"
    /\ closer' = [closer EXCEPT ![c] = "returned"]
    /\ UNCHANGED <<flags, socket, files, peers, connected, acceptor, handed, closeErr>>

(* Another program of the same user writes into the work directory: a file  *)
(* of its own, or one in the place of the socket.                           *)
Meddle ==
    /\ "dir" \in files
    /\ files' \in {files \cup {"stray"}, (files \ {"socket"}) \cup {"other"}}
    /\ UNCHANGED <<flags, socket, peers, connected, acceptor, closer, handed, closeErr>>

ListenerNext ==
    \/ Connect \/ Meddle
    \/ \E a \in Acceptors : Enter(a) \/ Wake(a) \/ Publish(a) \/ Leave(a)
    \/ \E c \in Closers : Mark(c) \/ CloseSocket(c) \/ Cleanup(c) \/ CloseAgain(c)

ListenerSpec == ListenerInit /\ [][ListenerNext]_lstVars

(* Whatever the callers of Accept do, whichever of their calls fail and     *)
(* whenever Close comes, at most one connection is ever handed out, and     *)
(* once a Close has returned no call that starts then gets a connection     *)
(* and nothing of the listener is left on disk unless Close reported an     *)
(* error, whatever was done to the directory (listener.go:47-119).          *)
OneConnectionIsServed ==
    /\ handed <= 1
    /\ Cardinality({a \in Acceptors : acceptor[a] \in {"waiting", "holding"}}) + handed <= 1
    /\ (\E c \in Closers : closer[c] = "returned") =>
          peers = 0 /\ flags.closed /\ (files = {} \/ closeErr)
=============================================================================
