----------------------------- MODULE SystemDNS -----------------------------
(* The servers a DNS operation asks when it names the system's resolver:      *)
(* internal/systemdns reads what the operating system is configured with, one *)
(* resolv.conf line, one scutil block or one Windows adapter after the other, *)
(* and planDNSSystemEndpointsFromDiscovery selects the servers for each name. *)
(*                                                                            *)
(* A name, and the domain of a scope, is a sequence of labels; the empty one  *)
(* is the default scope.  An address is a family, a class and a host.         *)
(* `wellFormed` says of an entry that every line or field of it parses and is *)
(* within the limits; search domains, timeouts and attempts take no part in   *)
(* the selection and are left out, and so is the seal over the snapshot.      *)
EXTENDS Naturals, SequencesExt, Positions

CONSTANTS Configurations,  \* what the operating system may report
          Questions,       \* the names a task asks the system's resolver for
          Interfaces,      \* what Selection.InterfaceIndex may be; 0 is none
          MaxResolvers,    \* limits.MaxResolvers
          MaxTurn          \* bound of dnsSystemRotation

\* resolv.conf is a list of lines, scutil reports blocks with their servers by
\* index, Windows adapters and routes with their metrics.
ASSUME SystemDNSAssumption ==
    /\ MaxResolvers \in Nat \ {0} /\ MaxTurn \in Nat
    /\ \A q \in Questions :
          q \in Seq(ToSet(q)) /\ \A name \in ToSet(q) : name \in Seq(ToSet(name))
    /\ \A c \in Configurations :
          /\ c.platform \in {"linux", "darwin", "windows"}
          /\ c.entries \in Seq(ToSet(c.entries)) /\ c.routes \in Seq(ToSet(c.routes))
          /\ \A r \in ToSet(c.routes) : r.metric \in Nat
          /\ \A e \in ToSet(c.entries) :
                CASE c.platform = "linux" -> e.directive \in {"nameserver", "options", "other"}
                  [] c.platform = "darwin" ->
                        /\ e.scoped \in BOOLEAN /\ e.domain \in Seq(ToSet(e.domain))
                        /\ e.order \in Seq(Nat) /\ Len(e.order) <= 1
                        /\ DOMAIN e.servers \subseteq Nat /\ IsFiniteSet(DOMAIN e.servers)
                  [] c.platform = "windows" ->
                        /\ e.metric \in [{4, 6} -> Nat] /\ e.servers \in Seq(ToSet(e.servers))
                        /\ \A s \in ToSet(e.servers) : s.address.family \in {4, 6}

VARIABLES config,     \* what the operating system reports
          questions,  \* the operations of the task
          entries,    \* how many entries of it are read
          found,      \* DiscoveryResult
          discovery,  \* "reading", "found", "unavailable"
          plan,       \* what was selected for each operation so far
          turns       \* dnsSystemRotation, which all tasks share

sysVars == <<config, questions, entries, found, discovery, plan, turns>>

-----------------------------------------------------------------------------
(* Endpoints.                                                                 *)

LinkLocal(address) == address.family = 6 /\ address.class = "linklocal"

\* A server as it is written, with the zone of its interface if it needs one
\* and says none, and the port of its block unless it has its own.
ParsedEndpoint(literal, zone, port) ==
    [address |-> literal.address,
     zone |-> IF literal.zone = "" /\ LinkLocal(literal.address) THEN zone ELSE literal.zone,
     port |-> IF literal.port = 0 THEN port ELSE literal.port]

\* "none" is no IP literal, "unusable" unspecified, multicast or broadcast.
UsableEndpoint(e) ==
    /\ e.address.class \notin {"none", "unusable"}
    /\ e.zone # "" <=> LinkLocal(e.address)

\* What every resolver of a result carries; metric is the sum of the metrics of
\* the route that will dial it, and 0 where there is none.
Resolver(endpoint, group, scope, interface, route, metric) ==
    [endpoint |-> endpoint, group |-> group, domain |-> scope.domain, scoped |-> scope.scoped,
     order |-> scope.order, interface |-> interface, route |-> route, metric |-> metric]

NoEndpoint == [address |-> [family |-> 0, class |-> "none", host |-> ""], zone |-> "", port |-> 0]

DefaultScope == [domain |-> <<>>, scoped |-> FALSE, order |-> <<>>]

\* Of the resolvers at these places, those whose endpoint no earlier one has.
Distinct(servers, places) ==
    Only(places, {i \in DOMAIN places :
                     \A j \in 1 .. i - 1 :
                         servers[places[j]].endpoint # servers[places[i]].endpoint})

Places(servers) == [i \in DOMAIN servers |-> i]

-----------------------------------------------------------------------------
(* Discovery.                                                                 *)

Entry == config.entries[entries + 1]

NextEntry(platform) ==
    /\ discovery = "reading" /\ config.platform = platform
    /\ entries < Len(config.entries)
    /\ entries' = entries + 1
    /\ UNCHANGED <<config, questions, plan, turns>>

Skip == UNCHANGED <<found, discovery>>
Refuse == discovery' = "unavailable" /\ UNCHANGED found

\* Servers that one block or adapter names twice are taken once.
AddResolvers(servers) ==
    LET once == Distinct(servers, Places(servers))
        all == found.resolvers \o [i \in DOMAIN once |-> servers[once[i]]]
    IN  IF Len(all) <= MaxResolvers
        THEN found' = [found EXCEPT !.resolvers = all] /\ UNCHANGED discovery
        ELSE Refuse

\* resolv.conf has three effective slots, and a line past them is not looked at.
MaximumNameServers == 3

ReadNameServer ==
    LET server == ParsedEndpoint(Entry.server, "", 53) IN
    IF Len(found.resolvers) >= MaximumNameServers THEN Skip
    ELSE IF Entry.wellFormed /\ UsableEndpoint(server) /\ Len(found.resolvers) < MaxResolvers
    THEN /\ found' = [found EXCEPT !.resolvers =
                        Append(@, Resolver(server, Len(@), DefaultScope, 0, 0, 0))]
         /\ UNCHANGED discovery
    ELSE Refuse

\* Only `rotate` takes part in the selection, and no later line takes it back.
ReadOptions ==
    IF Entry.wellFormed
    THEN found' = [found EXCEPT !.rotate = @ \/ Entry.rotate] /\ UNCHANGED discovery
    ELSE Refuse

\* "other" are domain and search, and what the agent does not know and skips.
ReadLine ==
    /\ NextEntry("linux")
    /\ CASE Entry.directive = "nameserver" -> ReadNameServer
         [] Entry.directive = "options" -> ReadOptions
         [] Entry.directive = "other" -> IF Entry.wellFormed THEN Skip ELSE Refuse

\* The servers of a scutil block by their index, which is not the order of its lines.
BlockEndpoints(block) ==
    LET zone == IF block.name # "" THEN block.name
                ELSE IF block.interface # 0 THEN ToString(block.interface) ELSE ""
    IN  [i \in 1 .. Cardinality(DOMAIN block.servers) |->
            ParsedEndpoint(block.servers[Nth(DOMAIN block.servers, i)], zone,
                           IF block.port = 0 THEN 53 ELSE block.port)]

ZoneIsOfBlock(e, block) ==
    e.zone # "" /\ block.interface # 0 => e.zone \in {block.name, ToString(block.interface)}

BlockAccepted(block) ==
    /\ block.wellFormed
    /\ block.scoped => block.interface # 0
    /\ LET servers == BlockEndpoints(block) IN
       \A i \in DOMAIN servers : UsableEndpoint(servers[i]) /\ ZoneIsOfBlock(servers[i], block)

\* `other` stands for the properties the selection does not read.
Configured(block) ==
    block.domain # <<>> \/ block.scoped \/ block.order # <<>> \/ block.interface # 0
        \/ block.port # 0 \/ block.other

\* A client without a server that can be asked, such as mDNS, still owns its scope.
ReadBlock ==
    /\ NextEntry("darwin")
    /\ LET servers == BlockEndpoints(Entry)
           resolver(e) == Resolver(e, entries, Entry, Entry.interface, 0, 0)
       IN  IF ~BlockAccepted(Entry) THEN Refuse
           ELSE IF servers # <<>>
           THEN AddResolvers([i \in DOMAIN servers |-> resolver(servers[i])])
           ELSE IF Configured(Entry)
           THEN /\ found' = [found EXCEPT !.unsupported = Append(@, resolver(NoEndpoint))]
                /\ UNCHANGED discovery
           ELSE Skip

\* The interface an adapter uses for a family; 0 is none.
InterfaceOf(adapter, family) ==
    IF family = 6 /\ adapter.index6 # 0 THEN adapter.index6 ELSE adapter.index

UpAdapters == {a \in ToSet(config.entries) : a.up}

\* windowsInterfaceMetrics: the adapters of an interface agree on its metric.
InterfaceMetrics(family, i) ==
    {a.metric[family] : a \in {b \in UpAdapters : i # 0 /\ InterfaceOf(b, family) = i}}

MetricsAgree ==
    \A a, b \in UpAdapters, f \in {4, 6} :
        InterfaceOf(a, f) = InterfaceOf(b, f) /\ InterfaceOf(a, f) # 0 => a.metric[f] = b.metric[f]

\* The routes with the longest prefix.  A loopback server is dialled by whatever
\* route is best, any other one by its own interface only.
LongestRoutes(address, i) ==
    LET eligible == {r \in DOMAIN config.routes :
                        /\ address \in config.routes[r].reaches
                        /\ address.class = "loopback" \/ config.routes[r].interface = i}
    IN  {r \in eligible : \A q \in eligible : config.routes[q].bits <= config.routes[r].bits}

RouteMetric(address, r) ==
    config.routes[r].metric
        + (CHOOSE m \in InterfaceMetrics(address.family, config.routes[r].interface) : TRUE)

BestRoute(address, i) ==
    CHOOSE r \in LongestRoutes(address, i) :
        \A q \in LongestRoutes(address, i) :
            \/ RouteMetric(address, r) < RouteMetric(address, q)
            \/ RouteMetric(address, r) = RouteMetric(address, q) /\ r <= q

RouteFound(address, i) ==
    /\ LongestRoutes(address, i) # {}
    /\ \A r \in LongestRoutes(address, i) :
           InterfaceMetrics(address.family, config.routes[r].interface) # {}
    /\ address.class = "loopback" => config.routes[BestRoute(address, i)].loopback

\* Site-local addresses are placeholders Windows makes up.
RealServers(adapter) ==
    Only(adapter.servers,
         {k \in DOMAIN adapter.servers : adapter.servers[k].address.class # "sitelocal"})

AdapterEndpoint(s, adapter) ==
    ParsedEndpoint(s, ToString(InterfaceOf(adapter, s.address.family)), 53)

ServerAccepted(s, adapter) ==
    LET i == InterfaceOf(adapter, s.address.family) IN
    /\ i # 0
    /\ s.scope \in (IF LinkLocal(s.address) THEN {0, i} ELSE {0})
    /\ UsableEndpoint(AdapterEndpoint(s, adapter))
    /\ RouteFound(s.address, i)

AdapterResolver(s, adapter) ==
    LET i == InterfaceOf(adapter, s.address.family)
        r == BestRoute(s.address, i)
    IN  Resolver(AdapterEndpoint(s, adapter), entries, DefaultScope, i,
                 config.routes[r].interface, RouteMetric(s.address, r))

ReadAdapter ==
    /\ NextEntry("windows")
    /\ LET servers == RealServers(Entry) IN
       IF ~MetricsAgree THEN Refuse
       ELSE IF ~Entry.up \/ servers = <<>> THEN Skip
       ELSE IF Entry.wellFormed /\ \A i \in DOMAIN servers : ServerAccepted(servers[i], Entry)
       THEN AddResolvers([i \in DOMAIN servers |-> AdapterResolver(servers[i], Entry)])
       ELSE Refuse

\* No file, no scutil, no API, or a context that is done.
SourceFails ==
    /\ discovery = "reading" /\ discovery' = "unavailable"
    /\ UNCHANGED <<config, questions, entries, found, plan, turns>>

\* resolv(5): without a nameserver line, the local one.
LocalServer == [address |-> [family |-> 4, class |-> "loopback", host |-> "localhost"],
                zone |-> "", port |-> 53]

EndOfEntries ==
    /\ discovery = "reading" /\ entries = Len(config.entries)
    /\ LET resolvers == IF config.platform = "linux" /\ found.resolvers = <<>>
                        THEN <<Resolver(LocalServer, 0, DefaultScope, 0, 0, 0)>>
                        ELSE found.resolvers
       IN  /\ found' = [found EXCEPT !.resolvers = resolvers]
           /\ discovery' = IF resolvers = <<>> /\ found.unsupported = <<>>
                           THEN "unavailable" ELSE "found"
    /\ UNCHANGED <<config, questions, entries, plan, turns>>

-----------------------------------------------------------------------------
(* Selection.                                                                 *)

\* suffixScore is the number of labels of a scope that matches; the default
\* scope matches with 0.
Matches(route, name) == IsSuffix(route.domain, name)

\* A scoped client is for its interface; for its domain also when none is named.
Eligible(route, interface) ==
    route.scoped => \/ interface # 0 /\ route.interface = interface
                    \/ interface = 0 /\ route.domain # <<>>

\* Of these routes, those that answer for the name: the closest domain if one
\* matches, else the default of the interface, else the default.
Preferred(routes, name, interface) ==
    LET eligible == {r \in routes : Eligible(r, interface)}
        matching == {r \in eligible : r.domain # <<>> /\ Matches(r, name)}
        default == {r \in eligible : r.domain = <<>>}
        ofInterface == {r \in default :
                            r.scoped /\ interface # 0 /\ r.interface = interface}
    IN  IF matching # {}
        THEN {r \in matching : \A q \in matching : Len(q.domain) <= Len(r.domain)}
        ELSE IF ofInterface # {} THEN ofInterface ELSE default

\* Mutant: only a scope that is the name itself counts.
RefusedExactly(name, interface) ==
    \E r \in ToSet(found.unsupported) : Eligible(r, interface) /\ r.domain = name

\* A name whose closest route has no server is not taken to a wider one.
RefusedRoute(name, interface) ==
    LET unsupported == ToSet(found.unsupported) IN
    Preferred(ToSet(found.resolvers) \cup unsupported, name, interface) \cap unsupported # {}

\* lessDarwin, lessWindows: in one block or adapter the order of discovery, else
\* scutil's order, an order before none, or the metric of the route.
Precedes(m, n) ==
    LET a == found.resolvers[m]
        b == found.resolvers[n]
    IN  IF a.group = b.group THEN m < n
        ELSE CASE config.platform = "linux" -> m < n
               [] config.platform = "darwin" ->
                    IF a.order = b.order THEN m < n
                    ELSE a.order # <<>> /\ (b.order = <<>> \/ a.order[1] < b.order[1])
               [] config.platform = "windows" ->
                    IF a.metric = b.metric THEN m < n ELSE a.metric < b.metric

\* sort.SliceStable, which inserts each element after the last one it does not
\* precede as long as there are no more than twenty.
Stable(places) ==
    LET at(s, n) == CHOOSE k \in 1 .. Len(s) + 1 :
                       /\ k = 1 \/ ~Precedes(n, s[k - 1])
                       /\ \A j \in k .. Len(s) : Precedes(n, s[j])
        sorted[n \in 0 .. Len(places)] ==
            IF n = 0 THEN <<>>
            ELSE LET s == sorted[n - 1]
                 IN  InsertAt(s, at(s, places[n]), places[n])
    IN  sorted[Len(places)]

Rotated(s, offset) == SubSeq(s, offset + 1, Len(s)) \o SubSeq(s, 1, offset)

Considered(name, interface) ==
    LET chosen == Preferred(ToSet(found.resolvers), name, interface) IN
    Only(Places(found.resolvers),
         {n \in DOMAIN found.resolvers :
             config.platform = "darwin" => found.resolvers[n] \in chosen})

\* Linux asks a server that is listed twice twice.
Select(name, interface, turn) ==
    LET sorted == Stable(Considered(name, interface))
        ordered == IF config.platform = "linux" THEN sorted ELSE Distinct(found.resolvers, sorted)
    IN  IF config.platform = "darwin" /\ RefusedRoute(name, interface) THEN <<>>
        ELSE IF found.rotate /\ Len(ordered) > 1 THEN Rotated(ordered, turn % Len(ordered))
        ELSE ordered

\* The interface the socket is bound to; 0 leaves it to the routes.
BindInterface(r) ==
    CASE config.platform = "linux" -> 0
      [] config.platform = "darwin" -> r.interface
      [] config.platform = "windows" -> r.route

\* One operation of the task after the other; a turn belongs to this operation
\* alone, but those of other tasks come in between.
PlanOperation ==
    /\ discovery = "found" /\ Len(plan) < Len(questions)
    /\ \E turn \in turns .. MaxTurn, interface \in Interfaces :
          LET name == questions[Len(plan) + 1]
              servers == Select(name, interface, turn)
          IN  /\ turns' = turn + 1
              /\ IF servers = <<>>
                 THEN discovery' = "unavailable" /\ UNCHANGED plan
                 ELSE /\ plan' = Append(plan,
                            [name |-> name, interface |-> interface, turn |-> turn,
                             servers |-> servers,
                             bound |-> [i \in DOMAIN servers |->
                                            BindInterface(found.resolvers[servers[i]])]])
                      /\ UNCHANGED discovery
    /\ UNCHANGED <<config, questions, entries, found>>

SystemDNSInit ==
    /\ config \in Configurations
    /\ questions \in Questions
    /\ entries = 0
    /\ found = [resolvers |-> <<>>, unsupported |-> <<>>, rotate |-> FALSE]
    /\ discovery = "reading"
    /\ plan = <<>>
    /\ turns = 0

SystemDNSNext ==
    \/ ReadLine \/ ReadBlock \/ ReadAdapter \/ SourceFails \/ EndOfEntries
    \/ PlanOperation

SystemDNSSpec == SystemDNSInit /\ [][SystemDNSNext]_sysVars

-----------------------------------------------------------------------------
(* Properties.  What a planned name is owed, from the configuration alone.     *)

\* The scutil clients nothing closer to the name stands above.
Owners(p) ==
    LET answers(b) == /\ BlockEndpoints(b) # <<>> \/ Configured(b)
                      /\ IsSuffix(b.domain, p.name)
                      /\ b.scoped => \/ b.interface = p.interface
                                     \/ p.interface = 0 /\ b.domain # <<>>
        closer(b, c) == \/ Len(b.domain) > Len(c.domain)
                        \/ b.domain = <<>> /\ c.domain = <<>> /\ b.scoped /\ ~c.scoped
        clients == {b \in ToSet(config.entries) : answers(b)}
    IN  {b \in clients : \A c \in clients : ~closer(c, b)}

\* The lines of resolv.conf that count.
NameServers ==
    LET lines == Only(config.entries,
                      {k \in DOMAIN config.entries : config.entries[k].directive = "nameserver"})
        n == IF Len(lines) < MaximumNameServers THEN Len(lines) ELSE MaximumNameServers
    IN  IF lines = <<>> THEN <<LocalServer>>
        ELSE [i \in 1 .. n |-> ParsedEndpoint(lines[i].server, "", 53)]

\* The metric of the way to a server of an adapter: of the routes with the
\* longest prefix the cheapest, with its interface.
CheapestRoute(s, a) ==
    LET family == s.address.family
        usable == {r \in ToSet(config.routes) :
                      /\ s.address \in r.reaches
                      /\ s.address.class = "loopback" \/ r.interface = InterfaceOf(a, family)}
        longest == {r \in usable : \A q \in usable : q.bits <= r.bits}
    IN  Min({way[1].metric + way[2].metric[family] :
                way \in {w \in longest \X UpAdapters :
                            InterfaceOf(w[2], family) = w[1].interface}})

\* What an entry offers, each server with the place it has: the order of its
\* block, which may be unset, or the cost of its route; then as it is listed.
BlockPlaces(n) ==
    LET block == config.entries[n]
        servers == BlockEndpoints(block)
    IN  {[endpoint |-> servers[k], place |-> block.order \o <<n, k>>] : k \in DOMAIN servers}

AdapterPlaces(n) ==
    LET adapter == config.entries[n]
        servers == RealServers(adapter)
    IN  {[endpoint |-> AdapterEndpoint(servers[k], adapter),
          place |-> <<CheapestRoute(servers[k], adapter), n, k>>] : k \in DOMAIN servers}

\* The servers the name is owed.
Offers(p) ==
    CASE config.platform = "darwin" ->
            UNION {BlockPlaces(n) :
                      n \in {m \in DOMAIN config.entries : config.entries[m] \in Owners(p)}}
      [] config.platform = "windows" ->
            UNION {AdapterPlaces(n) :
                      n \in {m \in DOMAIN config.entries : config.entries[m].up}}

PlacesOf(p, e) == {o.place : o \in {q \in Offers(p) : q.endpoint = e}}

\* A place with an order comes before one without.
Before(a, b) ==
    \/ Len(a) > Len(b)
    \/ Len(a) = Len(b) /\ \E k \in DOMAIN a : a[k] < b[k] /\ \A j \in 1 .. k - 1 : a[j] = b[j]

EndpointAt(p, i) == found.resolvers[p.servers[i]].endpoint

AsksItsOwners(p) ==
    /\ config.platform = "darwin" => \A b \in Owners(p) : BlockEndpoints(b) # <<>>
    /\ {EndpointAt(p, i) : i \in DOMAIN p.servers}
         = IF config.platform = "linux" THEN ToSet(NameServers)
           ELSE {o.endpoint : o \in Offers(p)}

RouteLeadsTo(address, interface) ==
    \E r \in ToSet(config.routes) :
        /\ r.interface = interface /\ address \in r.reaches
        /\ address.class = "loopback" => r.loopback
        /\ address.class # "loopback" =>
              \E a \in UpAdapters :
                 /\ InterfaceOf(a, address.family) = interface
                 /\ \E s \in ToSet(RealServers(a)) : s.address = address

DialsItsInterface(p) ==
    \A i \in DOMAIN p.servers :
        CASE config.platform = "linux" -> p.bound[i] = 0
          [] config.platform = "darwin" ->
                \E b \in Owners(p) :
                    /\ EndpointAt(p, i) \in ToSet(BlockEndpoints(b))
                    /\ p.bound[i] = b.interface
                    /\ b.interface # 0
                          => EndpointAt(p, i).zone \in {"", b.name, ToString(b.interface)}
          [] config.platform = "windows" ->
                RouteLeadsTo(EndpointAt(p, i).address, p.bound[i])

\* Costs order adapters only if one has the same for all its servers: with two,
\* the order of its list and the better route may contradict each other.
AdaptersAreUniform ==
    \A i, j \in DOMAIN found.resolvers :
        found.resolvers[i].group = found.resolvers[j].group
            => found.resolvers[i].metric = found.resolvers[j].metric

\* The list before it was rotated: resolv.conf as it is, elsewhere each server
\* once, at the best of its places.
KeepsOrder(p) ==
    LET n == Len(p.servers)
        offset == IF found.rotate THEN p.turn % n ELSE 0
        listed == [i \in 1 .. n |-> EndpointAt(p, ((i - 1 + n - offset) % n) + 1)]
    IN  IF config.platform = "linux" THEN listed = NameServers
        ELSE \A i, j \in 1 .. n : i < j =>
                \E a \in PlacesOf(p, listed[i]) :
                    \A b \in PlacesOf(p, listed[j]) : Before(a, b)

\* Whatever the configuration, a name the task asks the system's resolver for is
\* asked at all the servers of the closest clients that own it and at no others,
\* each by an interface that leads to it, in the order of preference up to the
\* rotation; and if one of the owners has no server to ask, nobody is asked.
\* (selection.go:79-290, scutil.go:429, windows_snapshot.go:48, dial_target.go:12)
NamesGoToTheirServers ==
    \A k \in DOMAIN plan :
        LET p == plan[k] IN
        /\ AsksItsOwners(p)
        /\ DialsItsInterface(p)
        /\ AdaptersAreUniform => KeepsOrder(p)
=============================================================================
