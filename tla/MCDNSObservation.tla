--------------------------- MODULE MCDNSObservation ---------------------------
(* Instances of the DNS observation task for TLC. *)
EXTENDS DNSObservationTask

MCProtocols == {"udp", "tcp", "doh", "doq"}
MCFewReplies == {Reply("timeout", "none", FALSE, FALSE, "none"),
               Reply("cancelled", "none", FALSE, FALSE, "none"),
               Reply("", "full", FALSE, FALSE, "valid"),
               Reply("", "full", TRUE, TRUE, "invalid")}

Request(mode, kind, endpoints, parallel, maxAttempts, few) ==
    [mode |-> mode, kind |-> kind, endpoints |-> endpoints, parallel |-> parallel,
     maxAttempts |-> maxAttempts, few |-> few]

(* One operation, every reply, every budget: the conversions. *)
Single == {<<Request(m, k, <<p>>, 1, n, FALSE)>> :
              m \in {"recursive", "iterative"}, k \in {"system", "catalog"},
              p \in MCProtocols, n \in 1 .. 3}
(* Two workers on three operations, and two tasks at the gate: the pool. *)
Pool == {<<Request("recursive", "catalog", <<"udp", "tcp", "tcp">>, 2, 2, TRUE)>>}
Contending == {<<Request("recursive", "catalog", <<"udp">>, 1, 3, TRUE),
                 Request("recursive", "catalog", <<"tcp", "tcp">>, 2, 2, TRUE)>>}
MCRequests == Single \cup Pool \cup Contending

EmptyReply == {"empty"}
NoRareReplies == {}
MCSingle == {<<Request("recursive", "catalog", <<p>>, 1, 2, FALSE)>> : p \in {"udp", "tcp"}}
=============================================================================
