--------------------------- MODULE DNSResponseData ---------------------------
(***************************************************************************)
(* What the agent keeps of one parsed DNS response, and whether the        *)
(* contract accepts it.  The engine refuses contradictory aliases, keeps   *)
(* whole RRsets up to a limit, derives the alias chain and the outcome     *)
(* from everything that was received (dnsengine/parse.go), and crops the   *)
(* observation until it fits (dnsengine/observation.go); the contract      *)
(* derives the chain again, from the records that were kept                *)
(* (dnsobs/validate.go).                                                   *)
(*                                                                         *)
(* A name is the sequence of its labels; every record here has the size 1. *)
(* The additional section and EDNS are only evidence that can be dropped.  *)
(***************************************************************************)
EXTENDS Integers, Sequences, FiniteSets, Positions

CONSTANTS
    Asked,        \* the name that is asked for
    Records,      \* what an answer may hold: [owner, type, to]
    Contexts,     \* the rest of a response: [qtype, rcode, soa, ns, mayRefer]
    SectionLimits,\* the records a section may keep
    MaxAnswer,    \* bound: records in the answer section
    MaxLabels,    \* the longest name
    MaxDepth      \* the longest alias chain, in hops

ASSUME ResponseAssumption ==
    /\ Asked \in Seq(STRING) /\ MaxAnswer \in Nat /\ MaxLabels \in Nat /\ MaxDepth \in Nat \ {0}
    /\ \A r \in Records : /\ r.type \in {"CNAME", "DNAME", "A"}
                          /\ r.owner \in Seq(STRING) /\ r.to \in Seq(STRING)
    /\ \A c \in Contexts :
          c.rcode \in {"noerror", "nxdomain", "servfail", "refused", "other"}

VARIABLES
    answer,   \* the answer section of the response
    context,  \* what else the response says
    stage,    \* where its conversion has come to
    kept,     \* the answer section of the observation
    chain,    \* the alias chain of the observation (see NoChain)
    outcome,  \* its outcome
    negative, \* does it hold a negative TTL?
    cropped,  \* result_truncated
    search    \* of the largest prefix that fits: [low, high, best, room]

respVars == <<answer, context, stage, kept, chain, outcome, negative, cropped, search>>

NoChain == [names |-> <<>>, types |-> <<>>, loop |-> FALSE, cut |-> FALSE]
NoSearch == [low |-> 0, high |-> 0, best |-> 0, room |-> 0]

Members(s) == {s[i] : i \in DOMAIN s}
LastOf(s) == s[Len(s)]
\* The answers: sequences of different records.
Answers == UNION {{s \in [1 .. n -> Records] : Cardinality(Members(s)) = n} : n \in 0 .. MaxAnswer}

ResponseInit ==
    /\ answer \in Answers /\ context = CHOOSE c \in Contexts : TRUE
    /\ stage = "received" /\ kept = <<>> /\ chain = NoChain /\ outcome = "" /\ negative = FALSE
    /\ cropped = FALSE /\ search = NoSearch

-----------------------------------------------------------------------------
(* Names and aliases. *)

Below(name, owner) ==
    /\ Len(owner) < Len(name)
    /\ SubSeq(name, Len(name) - Len(owner) + 1, Len(name)) = owner

(* synthesizeDNAME: the owner at the end of the name becomes the target. *)
Synthesized(name, dname) == SubSeq(name, 1, Len(name) - Len(dname.owner)) \o dname.to

DNAMEsAbove(name, records) ==
    {r \in records : r.type = "DNAME" /\ Below(name, r.owner)}
Closest(dnames) == CHOOSE r \in dnames : \A d \in dnames : Len(d.owner) <= Len(r.owner)
CNAMEsAt(name, records) == {r \in records : r.type = "CNAME" /\ r.owner = name}

NoHop == [type |-> "", to |-> <<>>]
Hop(type, to) == [type |-> type, to |-> to]
CNAMEHop(name, records) ==
    IF CNAMEsAt(name, records) = {} THEN NoHop
    ELSE Hop("CNAME", (CHOOSE r \in CNAMEsAt(name, records) : TRUE).to)

\* mutant: the synthesized CNAME is preferred to the DNAME it comes from
CNAMEFirst(name, records) ==
    LET dnames == DNAMEsAbove(name, records)
    IN  IF CNAMEsAt(name, records) # {} \/ dnames = {} THEN CNAMEHop(name, records)
        ELSE Hop("DNAME", Synthesized(name, Closest(dnames)))

(* nextAliasHop of the engine: the length of the new name is not looked at. *)
NextAliasHop(name, records) ==
    LET dnames == DNAMEsAbove(name, records)
    IN  IF dnames = {} THEN CNAMEHop(name, records)
        ELSE Hop("DNAME", Synthesized(name, Closest(dnames)))

(* nextAnswerAliasHop of the contract: a name that is too long is no hop. *)
NextAnswerAliasHop(name, records) ==
    LET dnames == DNAMEsAbove(name, records)
    IN  IF dnames # {} /\ Len(Synthesized(name, Closest(dnames))) <= MaxLabels
        THEN Hop("DNAME", Synthesized(name, Closest(dnames)))
        ELSE CNAMEHop(name, records)

HopBy(side, name, records) ==
    IF side = "engine" THEN NextAliasHop(name, records) ELSE NextAnswerAliasHop(name, records)

(* buildAliasChain and aliasChainFromAnswer, which walk alike: until there  *)
(* is no hop, a name comes back, or the chain is as long as it may be.      *)
ChainBy(side, records) ==
    LET next(name) == HopBy(side, name, records)
        loops(path) == \E i \in 1 .. Len(path) - 1 : path[i] = LastOf(path)
        walk[n \in 0 .. MaxDepth] ==
            IF n = 0 THEN <<Asked>>
            ELSE IF loops(walk[n - 1]) \/ next(LastOf(walk[n - 1])) = NoHop THEN walk[n - 1]
            ELSE Append(walk[n - 1], next(LastOf(walk[n - 1])).to)
        path == walk[MaxDepth]
    IN  IF Len(path) = 1 THEN NoChain
        ELSE [names |-> path,
              types |-> [i \in 1 .. Len(path) - 1 |-> next(path[i]).type],
              loop |-> loops(path),
              cut |-> ~loops(path) /\ next(LastOf(path)) # NoHop]

BuildAliasChain(records) == ChainBy("engine", records)
AliasChainFromAnswer(records) == ChainBy("contract", records)

(* validateAliasSingletons, and the same checks of aliasChainFromAnswer:    *)
(* one target for an owner, and a CNAME below a DNAME is what the closest   *)
(* one makes of its owner.                                                  *)
Contradicts(records) ==
    \/ \E r, s \in records :
          r.type = s.type /\ r.owner = s.owner /\ r.to # s.to /\ r.type \in {"CNAME", "DNAME"}
    \/ \E r \in records :
          /\ r.type = "CNAME" /\ DNAMEsAbove(r.owner, records) # {}
          /\ Synthesized(r.owner, Closest(DNAMEsAbove(r.owner, records))) # r.to

-----------------------------------------------------------------------------
(* The engine. *)

Parse(c) ==
    /\ stage = "received" /\ context' = c
    /\ stage' = IF Contradicts(Members(answer)) THEN "malformed" ELSE "parsed"
    /\ UNCHANGED <<answer, kept, chain, outcome, negative, cropped, search>>

(* convertRecords, orderedRRSetKeys and retainRRSetPrefix: RRsets in the    *)
(* order of their first record; each is kept as a whole.                    *)
SetOf(r) == [owner |-> r.owner, type |-> r.type]
FirstPlaces(records) ==
    {i \in DOMAIN records : \A j \in 1 .. i - 1 : SetOf(records[j]) # SetOf(records[i])}
Rank(records, r) ==
    Cardinality({i \in FirstPlaces(records) :
                    \E j \in FirstPlaces(records) : SetOf(records[j]) = SetOf(r) /\ i <= j})
RRSetPrefix(records, count) ==
    Only(records, {i \in DOMAIN records : Rank(records, records[i]) <= count})
RRSetCount(records) == Cardinality(FirstPlaces(records))

Within(records, limit) ==
    LET fitting == {n \in 0 .. RRSetCount(records) : Len(RRSetPrefix(records, n)) <= limit}
    IN  RRSetPrefix(records, CHOOSE n \in fitting : \A m \in fitting : m <= n)

(* classifyOutcome: hasTerminalAnswer looks at every name of the walk. *)
NamesWalked(records) ==
    LET c == BuildAliasChain(records) IN IF c = NoChain THEN {Asked} ELSE Members(c.names)
HasTerminalAnswer(records) ==
    \E r \in records : r.type = context.qtype /\ r.owner \in NamesWalked(records)
ClassifyOutcome(records) ==
    IF context.rcode # "noerror" THEN context.rcode
    ELSE IF HasTerminalAnswer(records) THEN "answer"
    ELSE IF context.ns /\ context.mayRefer THEN "referral"
    ELSE IF NextAliasHop(Asked, records) # NoHop /\ ~context.soa THEN "answer"
    ELSE "nodata"
NegativeTTL(verdict) == context.soa /\ verdict \in {"nodata", "nxdomain"}

(* populateResult, populateObservationEvidence, convertAliasChain. *)
Convert(limit) ==
    LET records == Members(answer)
        built == BuildAliasChain(records)
        long == \E i \in DOMAIN built.names : Len(built.names[i]) > MaxLabels
        dropped == long \/ Within(answer, limit) # answer
    IN  /\ stage = "parsed" /\ stage' = "fit"
        /\ kept' = Within(answer, limit)
        /\ chain' = (IF dropped THEN NoChain ELSE built)
        /\ outcome' = ClassifyOutcome(records) /\ negative' = NegativeTTL(outcome')
        /\ cropped' = (dropped \/ built.cut)
        /\ UNCHANGED <<answer, context, search>>

(* NormalizeObservation, as far as the response data go. *)
Accepts(records, aliases, truncated) ==
    /\ ~Contradicts(Members(records))
    /\ \/ aliases = NoChain /\ truncated
       \/ aliases = AliasChainFromAnswer(Members(records))
    /\ aliases.cut => truncated

(* FitObservationToBytes: `room` is what the limit leaves for the answer.    *)
(* Options, the chain and the other sections are dropped first, and what is *)
(* left may fit before a record of the answer has to go.                    *)
Fits(room) ==
    /\ stage = "fit" /\ UNCHANGED <<answer, context, outcome, negative, kept>>
    /\ IF ~Accepts(kept, chain, cropped)
       THEN stage' = "rejected" /\ UNCHANGED <<chain, cropped, search>>
       ELSE IF Len(kept) <= room
       THEN /\ stage' = "accepted" /\ UNCHANGED search
            /\ \/ UNCHANGED <<chain, cropped>>
               \/ chain' \in {chain, NoChain} /\ cropped' = TRUE
       ELSE /\ stage' = "search" /\ cropped' = TRUE /\ chain' = NoChain
            /\ search' = [low |-> 1, high |-> RRSetCount(kept), best |-> 0, room |-> room]

Middle == search.low + (search.high - search.low) \div 2

(* One step of the binary search for the longest prefix that fits. *)
Probe ==
    /\ stage = "search" /\ search.low <= search.high
    /\ LET candidate == RRSetPrefix(kept, Middle)
       IN  IF ~Accepts(candidate, chain, cropped) THEN stage' = "rejected" /\ UNCHANGED search
           ELSE /\ UNCHANGED stage
                /\ search' = IF Len(candidate) <= search.room
                             THEN [search EXCEPT !.best = Middle, !.low = Middle + 1]
                             ELSE [search EXCEPT !.high = Middle - 1]
    /\ UNCHANGED <<answer, context, kept, chain, outcome, negative, cropped>>

Retain ==
    /\ stage = "search" /\ search.low > search.high
    /\ kept' = RRSetPrefix(kept, search.best) /\ stage' = "accepted"
    /\ UNCHANGED <<answer, context, chain, outcome, negative, cropped, search>>

ResponseNext ==
    \/ \E c \in Contexts : Parse(c)
    \/ \E limit \in SectionLimits : Convert(limit)
    \/ \E room \in 0 .. MaxAnswer : Fits(room)
    \/ Probe \/ Retain

ResponseSpec == ResponseInit /\ [][ResponseNext]_respVars

-----------------------------------------------------------------------------
(* One DNAME below another: cropping may keep the outer one only, and then  *)
(* the CNAME of the inner one contradicts it.                               *)
NestedDNAMEs(records) ==
    \E r, s \in records : r.type = "DNAME" /\ s.type = "DNAME" /\ Below(r.owner, s.owner)

(* A chain as long as it may be, whose next hop would be a DNAME that makes *)
(* the name too long: to the engine a hop that is left out, to the contract *)
(* no hop at all.                                                           *)
EndsBeforeLongName(records) ==
    LET built == BuildAliasChain(records)
    IN  built.cut /\ NextAnswerAliasHop(LastOf(built.names), records) = NoHop

(* What the engine takes for a response, the contract takes as well, chain, *)
(* crop and all (nextAliasHop:1034 against nextAnswerAliasHop:1101), unless *)
(* one DNAME lies below another or the longest chain ends before a name too *)
(* long; and an observation that is complete says what its own records say: *)
(* no data only when none of the names its chain walks has the records      *)
(* asked for, a negative TTL only with no data.                             *)
ResponsesAreReported ==
    /\ stage = "rejected" =>
          NestedDNAMEs(Members(answer)) \/ EndsBeforeLongName(Members(answer))
    /\ (stage = "accepted" /\ ~cropped) =>
          LET names == {Asked} \cup Members(chain.names)
              found == \E r \in Members(kept) : r.type = context.qtype /\ r.owner \in names
          IN  /\ outcome \in {"nodata", "referral"} => ~found
              /\ outcome = "answer" => found \/ chain # NoChain
              /\ negative => outcome \in {"nodata", "nxdomain"}
=============================================================================
