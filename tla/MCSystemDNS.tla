---------------------------- MODULE MCSystemDNS ----------------------------
(* What the operating systems of SystemDNS report in the instance TLC checks. *)
EXTENDS SystemDNS

Address(family, class, host) == [family |-> family, class |-> class, host |-> host]
V4(host) == Address(4, "global", host)
Server(address, zone, port) == [address |-> address, zone |-> zone, port |-> port, scope |-> 0]
At(host) == Server(V4(host), "", 0)
NotAnAddress == Server(Address(0, "none", "x"), "", 0)
LinkLocalAt(zone) == Server(Address(6, "linklocal", "L"), zone, 0)

ListsUpTo(n, S) == UNION {[1 .. k -> S] : k \in 0 .. n}
Reported(platform, entries_, routes) ==
    [platform |-> platform, entries |-> entries_, routes |-> routes]

(* Lines of resolv.conf: a fourth server, the same twice, a malformed one     *)
(* before and after the third.                                                *)
Line(directive, wellFormed, server, rotates) ==
    [directive |-> directive, wellFormed |-> wellFormed, server |-> server, rotate |-> rotates]
Lines ==
    {Line("nameserver", TRUE, s, FALSE) : s \in {At("A"), At("B"), LinkLocalAt("eth0")}}
    \cup {Line("nameserver", TRUE, NotAnAddress, FALSE),
          Line("options", TRUE, NotAnAddress, TRUE),
          Line("other", FALSE, NotAnAddress, FALSE)}

(* Clients of scutil: defaults, one of them of an interface; a domain with a  *)
(* server and mDNS; a domain within it on either interface; a block with      *)
(* nothing in it, one scoped to no interface, a zone of another interface.    *)
Block(domain, scoped, interface, order, servers) ==
    [wellFormed |-> TRUE, domain |-> domain, scoped |-> scoped, interface |-> interface,
     name |-> "", order |-> order, port |-> 0, other |-> FALSE, servers |-> servers]
None == [i \in {} |-> 0]
One(s) == [i \in {0} |-> s]
Local == <<"local">>
Corp == <<"corp", "local">>
Blocks ==
    {Block(<<>>, FALSE, 0, <<2>>, [i \in {0, 2} |-> IF i = 0 THEN At("A") ELSE At("B")]),
     Block(<<>>, FALSE, 0, <<>>, [i \in 0 .. 1 |-> IF i = 0 THEN At("D") ELSE At("B")]),
     Block(<<>>, FALSE, 0, <<1>>, One(At("C"))),
     Block(<<>>, TRUE, 1, <<>>, One(At("C"))),
     Block(<<>>, TRUE, 1, <<>>, None),
     Block(Local, FALSE, 0, <<3>>, One(At("C"))),
     Block(Local, FALSE, 0, <<3>>, None),
     [Block(Corp, TRUE, 2, <<>>, One(LinkLocalAt(""))) EXCEPT !.name = "en2"],
     Block(Corp, TRUE, 1, <<>>, None),
     Block(<<>>, FALSE, 0, <<>>, None),
     Block(Corp, TRUE, 0, <<>>, None),
     Block(Corp, FALSE, 2, <<>>, One(LinkLocalAt("en9")))}

(* Windows: a cheap interface, a dear one, one that is down, the loopback     *)
(* with its metric, one for IPv6 and one that contradicts the first.  The     *)
(* route to D is cheaper than the others of its interface.                    *)
Adapter(up, index, index6, metric, servers) ==
    [wellFormed |-> TRUE, up |-> up, index |-> index, index6 |-> index6,
     metric |-> [f \in {4, 6} |-> metric], servers |-> servers]
LoopbackAt == Server(Address(4, "loopback", "localhost"), "", 0)
Placeholder == Server(Address(6, "sitelocal", "S"), "", 0)
Adapters ==
    {Adapter(TRUE, 1, 0, 5, <<At("A"), At("B"), At("A")>>),
     Adapter(TRUE, 2, 3, 20, <<At("C"), At("D"), At("A")>>),
     Adapter(TRUE, 2, 3, 20, <<LoopbackAt>>),
     Adapter(TRUE, 2, 3, 20, <<LinkLocalAt(""), Placeholder>>),
     Adapter(FALSE, 1, 0, 1, <<At("C")>>),
     Adapter(TRUE, 9, 0, 1, <<>>),
     Adapter(TRUE, 1, 0, 6, <<At("B")>>)}

Route(bits, reaches, interface, metric, loopback) ==
    [bits |-> bits, reaches |-> reaches, interface |-> interface, metric |-> metric,
     loopback |-> loopback]
Globals == {V4(h) : h \in {"A", "B", "C", "D"}}
Loopbacks == {Address(4, "loopback", "localhost")}
LinkLocals == {Address(6, "linklocal", "L")}
RouteTables ==
    {<<Route(0, Globals \cup Loopbacks, 1, 20, FALSE), Route(8, Loopbacks, 9, 1, TRUE),
       Route(0, Globals, 2, 10, FALSE), Route(24, {V4("D")}, 2, 0, FALSE),
       Route(10, LinkLocals, 3, 2, FALSE)>>,
     <<Route(0, Globals \cup Loopbacks, 1, 5, FALSE), Route(0, Globals, 1, 4, FALSE),
       Route(24, {V4("A")}, 2, 1, FALSE)>>}

MCConfigurations ==
    {Reported("linux", e, <<>>) : e \in ListsUpTo(4, Lines)}
    \cup {Reported("darwin", e, <<>>) : e \in ListsUpTo(3, Blocks)}
    \cup {Reported("windows", e, r) : e \in ListsUpTo(3, Adapters), r \in RouteTables}
MCQuestions == {<<<<"host">> \o Corp, <<"host">>>>, <<Local>>}
=============================================================================
