--------------------------- MODULE MCSystemdUpdate ---------------------------
(* An instance of the updates under systemd: 1.0.0-beta.2, -beta.11 and 1.0.0, *)
(* a release proxy and the release source itself.                              *)
EXTENDS SystemdUpdate

\* `text` is the place of the identifier in the order of its characters.
Identifier(numeric, value, text) == [numeric |-> numeric, value |-> value, text |-> text]
Beta == Identifier(FALSE, 0, 3)
MCReleases == <<<<Beta, Identifier(TRUE, 2, 2)>>, <<Beta, Identifier(TRUE, 11, 1)>>, <<>>>>
MCSources == <<"proxy", "direct">>

MCPolicy(downgrade, mode, key, from) ==
    [downgrade |-> downgrade, mode |-> mode, key |-> key, from |-> from]
MCPolicies == {MCPolicy(TRUE, "required", TRUE, Absent), MCPolicy(FALSE, "auto", FALSE, 3),
               MCPolicy(FALSE, "disabled", FALSE, Absent)}

MCAsked == {Newest, 1}
MCInstalled == {Absent, 2}
MCSoundSets == {{2}, {3}, {1, 2}, {2, 3}}
=============================================================================
