------------------------------ MODULE MCProbes ------------------------------
(* One model-checking instance for what the agent measures: the DNS           *)
(* observation task, the servers of the system, what is kept of a response,   *)
(* the dnstap listener and collector, the long probe and mtr.  They share no  *)
(* variable: a behaviour runs the component `unit` names and leaves the       *)
(* others at rest, so that their state spaces add up.                         *)
EXTENDS MCDNSObservation, MCSystemDNS, DNSResponseData, DnstapCollector, DnstapListener, ProbeProgress,
        MTRAggregate

VARIABLE unit   \* the component this behaviour runs

allVars == <<unit, vars, sysVars, respVars, tapVars, lstVars, probeVars, mtrVars>>

(* Two keys, a query for each and a second one asked later; responses with  *)
(* and without the query bytes; a frame that is too large, one that is      *)
(* malformed, and responses that contradict themselves.                     *)
MCFrames ==
    {Frame("query", FALSE, "k1", 1, 0, w, "", TRUE, 2) : w \in {"a", "b"}}
    \cup {Frame("query", FALSE, "k2", 2, 0, "a", "", TRUE, 1),
          Frame("response", TRUE, "k1", 1, 2, "", "", TRUE, 2),
          Frame("response", TRUE, "k1", 1, 2, "a", "k1", TRUE, 2),
          Frame("response", TRUE, "k2", 2, 2, "", "", TRUE, 1),
          Frame("response", TRUE, "k1", 2, 1, "", "", TRUE, 1),
          Frame("query", FALSE, "k1", 1, 0, "a", "", TRUE, 4),
          Frame("query", FALSE, "k1", 1, 0, "a", "", FALSE, 1)}

Path(written, address) == [written |-> written, address |-> address]
RawEvent(kind, hop, seq, path) == [kind |-> kind, hop |-> hop, seq |-> seq, path |-> path]
RawPaths == {RawEvent("h", 1, 0, p) : p \in {Path("a", "a"), Path("A", "a"), Path("b", "b")}}
RawLines(kind, seqs) ==
    {RawEvent(kind, h, s, Path("", "")) : h \in 1 .. 3, s \in seqs}
    \cup {RawEvent("h", 3, 0, Path("", ""))}
\* hop 3 is beyond MaxHops
MCRawDialects ==
    {RawPaths \cup RawLines("x", 1 .. 3) \cup RawLines("p", 1 .. 3),
     RawPaths \cup RawLines("x", {0}) \cup RawLines("p", {0}),
     RawPaths \cup RawLines("x", {0, 1, 2}) \cup RawLines("p", {0}),
     RawPaths \cup RawLines("x", {0, 2}) \cup RawLines("p", 1 .. 2)}

(* A name below two DNAMEs, with the CNAME of either; a loop of CNAMEs; a   *)
(* DNAME that makes names longer, within the longest chain and after it;    *)
(* the rest of a response that decides its outcome.                         *)
Record(owner, type, to) == [owner |-> owner, type |-> type, to |-> to]
MCAsked == <<"a", "b", "c">>
MCRecords ==
    {Record(<<"c">>, "DNAME", <<"y">>), Record(<<"b", "c">>, "DNAME", <<"x">>),
     Record(MCAsked, "CNAME", <<"a", "x">>), Record(MCAsked, "CNAME", <<"a", "b", "y">>),
     Record(<<"a", "b", "y">>, "CNAME", <<"a", "x">>),
     Record(<<"a", "x">>, "CNAME", <<"x">>), Record(<<"x">>, "CNAME", <<"a", "x">>),
     Record(<<"x">>, "DNAME", <<"x", "x", "x">>), Record(<<"a", "x">>, "A", <<>>)}
Context(qtype, rcode, soa, referral) ==
    [qtype |-> qtype, rcode |-> rcode, soa |-> soa, ns |-> referral, mayRefer |-> referral]
MCContexts ==
    {Context("A", "noerror", FALSE, FALSE), Context("A", "noerror", TRUE, FALSE),
     Context("A", "noerror", TRUE, TRUE), Context("CNAME", "nxdomain", TRUE, FALSE),
     Context("CNAME", "noerror", TRUE, FALSE)}

\* What is at rest is given its value first: no set is enumerated for it then.
AllInit ==
    /\ unit \in {"dns", "system", "response", "tap", "listener", "probe", "mtr"}
    /\ unit = "dns" \/ req = CHOOSE r \in Requests : TRUE
    /\ unit = "system" \/ (config = Reported("linux", <<>>, <<>>) /\ questions = <<Local>>)
    /\ unit = "response" \/ answer = <<>>
    /\ unit = "tap" \/ stream = <<>>
    /\ unit = "mtr" \/ dialect = CHOOSE d \in RawDialects : TRUE
    /\ Init /\ SystemDNSInit /\ ResponseInit /\ TapInit
    /\ ListenerInit /\ ProbeInit /\ MTRInit

AllNext ==
    /\ UNCHANGED unit
    /\ \/ unit = "dns" /\ Next
          /\ UNCHANGED <<sysVars, respVars, tapVars, lstVars, probeVars, mtrVars>>
       \/ unit = "system" /\ SystemDNSNext
          /\ UNCHANGED <<vars, respVars, tapVars, lstVars, probeVars, mtrVars>>
       \/ unit = "response" /\ ResponseNext
          /\ UNCHANGED <<vars, sysVars, tapVars, lstVars, probeVars, mtrVars>>
       \/ unit = "tap" /\ TapNext
          /\ UNCHANGED <<vars, sysVars, respVars, lstVars, probeVars, mtrVars>>
       \/ unit = "listener" /\ ListenerNext
          /\ UNCHANGED <<vars, sysVars, respVars, tapVars, probeVars, mtrVars>>
       \/ unit = "probe" /\ ProbeNext
          /\ UNCHANGED <<vars, sysVars, respVars, tapVars, lstVars, mtrVars>>
       \/ unit = "mtr" /\ MTRNext
          /\ UNCHANGED <<vars, sysVars, respVars, tapVars, lstVars, probeVars>>

AllSpec == AllInit /\ [][AllNext]_allVars
=============================================================================
