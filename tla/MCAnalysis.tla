----------------------------- MODULE MCAnalysis -----------------------------
(***************************************************************************)
(* Small instances of Analysis: one scene for each part of the report, in  *)
(* which hosts `in`, outsiders `out` and clients `c` do what that part     *)
(* looks at, often enough to reach its limits.                             *)
(***************************************************************************)
EXTENDS Analysis

MCLoopback == "loopback"
MCIpv6 == {"out6"}
MCZone ==
    ("in" :> "lan") @@ ("gate" :> "iot") @@ ("c1" :> "lan") @@ ("c2" :> "lan") @@ ("c3" :> "iot")
        @@ ("c4" :> "private")
MCTrust == ("lan" :> "trusted") @@ ("iot" :> "untrusted")
MCWatched == {22}
MCExpected == ("lan" :> {}) @@ ("iot" :> {<<"x", "net">>})
MCFamiliar == {"out2"}
MCSubnet ==
    [ip \in {"out", "out2"} |-> "out/24"] @@ [ip \in {"in", "gate", "c1", "c2", "c3", "c4"} |-> "in/24"]
MCApproved == {"pihole"}
MCSegment == {"c3"}
MCGateway == "gate"

\* Names of two owners under one country's suffix, one with many names, a plain
\* owner, and two that are benign: one with all names below it, one without.
MCLabels ==
    ("x.evil.co.uk" :> <<"x", "evil", "co", "uk">>)
        @@ ("y.evil.co.uk" :> <<"y", "evil", "co", "uk">>)
        @@ ("shop.co.uk" :> <<"shop", "co", "uk">>)
        @@ ("x.net" :> <<"x", "net">>)
        @@ ("a.cdn.net" :> <<"a", "cdn", "net">>)
        @@ ("b.cdn.net" :> <<"b", "cdn", "net">>)
MCOwner ==
    ("x.evil.co.uk" :> <<"evil", "co", "uk">>) @@ ("y.evil.co.uk" :> <<"evil", "co", "uk">>)
        @@ ("shop.co.uk" :> <<"shop", "co", "uk">>) @@ ("x.net" :> <<"x", "net">>)
        @@ ("a.cdn.net" :> <<"cdn", "net">>) @@ ("b.cdn.net" :> <<"cdn", "net">>)
MCTwoLabelSuffixes == {<<"co", "uk">>}
MCBenignDomains == {<<"shop", "co", "uk">>}
MCBenignSuffixes == {<<"cdn", "net">>}
MCBlockedStatuses == {"GRAVITY"}
MCTunnelQtypes == {"TXT"}

MCSampleLimit == [ssh |-> 2, web |-> 1, windows |-> 2]
MCBurstMin == [ssh |-> 3, web |-> 2, windows |-> 2]

Scene(incidents, most, until) == [incidents |-> incidents, most |-> most, until |-> until]

Logging ==
    Scene({Incident("sshd logon", "root", "in", ""), Incident("sshd logon", "root", "out", ""),
           Incident("sshd logon", "guest", "out", ""), Incident("dropbear logon", "root", "out2", ""),
           Incident("sshd logon", "root", "out6", "")}, 3, 1)
Guessing ==
    Scene({Incident("sshd guess", "root", "out", ""), Guesses("root", "out", 1), Guesses("root", "in", 2),
           Incident("sshd guess, unknown user", "eve", "out", ""), Incident("sshd logon", "root", "in", ""),
           Incident("dropbear guess, unknown user", "eve", "out", ""), Guesses("root", "out6", 2),
           Incident("dropbear visit", NoValue, "out", "")}, 4, 0)
Windows ==
    Scene({Incident("windows logon", "ann", "out", "rdp"), Incident("windows logon", "bob", "out", "network"),
           Incident("windows logon", "ann", NoValue, "service"), Incident("windows logon", "bob", "in", "rdp"),
           Incident("windows logon", "ann", "out2", "interactive"),
           Incident("windows refusal", "ann", "out", "network")}, 3, 1)
Panels ==
    Scene({Incident("luci logon", "root", "out", ""), Incident("luci refusal", "root", "out", ""),
           Incident("panel logon", "admin", "out", ""), Incident("panel logon", "admin", "in", ""),
           Incident("panel refusal", "admin", "out", "")}, 4, 1)
WiFi == Scene({Incident("deauth", mac, NoValue, "") : mac \in {"m1", "m2", "m3"}}, 5, 2)
Tunnelling ==
    Scene({Ask("c1", "x.evil.co.uk", "A", "FORWARDED"), Ask("c1", "y.evil.co.uk", "A", "FORWARDED"),
           Ask("c1", "shop.co.uk", "A", "FORWARDED"), Ask("c1", "a.cdn.net", "A", "FORWARDED"),
           Ask("c1", "b.cdn.net", "A", "FORWARDED"), Ask("c1", "x.net", "TXT", "FORWARDED"),
           Ask("c3", "x.evil.co.uk", "TXT", "FORWARDED"), Ask("c3", "y.evil.co.uk", "A", "IN_PROGRESS"),
           Ask("c3", "y.evil.co.uk", "A", "FORWARDED"), Ask("c1", "x.net", "A", "IN_PROGRESS"),
           Incident("dnsmasq restart", NoValue, MCLoopback, "")}, 4, 0)
Bypassing ==
    Scene({AskElsewhere(src, dst) : src \in {"c1", "out"}, dst \in {"out", "out2", "pihole", "in"}}, 4, 0)
Failing ==
    Scene({Ask(c, "x.net", "A", status) : c \in {"c1", "c2", "c4"}, status \in {"FORWARDED", "NXDOMAIN"}}
            \cup {Ask("c1", "x.net", "A", "GRAVITY")}, 6, 0)
FailingBehind ==
    Scene({Ask(c, "x.net", "A", status) : c \in {"c1", "c2", "c3"},
                                          status \in {"FORWARDED", "NXDOMAIN"}}, 6, 0)

Tracing ==
    Scene({TraceRoute("c1", "c3", "udp", 1, 3), TraceRoute("c3", "c1", "udp", 1, 2),
           TraceRoute("c3", "c1", "udp", 3, 2), TraceRoute("c3", "c1", "icmp", 2, 3),
           TraceRoute("c3", "c1", "udp", 4, 1), TraceRoute("c3", "in", "udp", 2, 4),
           TraceRoute("c3", "gate", "udp", 1, 3), TraceRoute("c3", "out", "udp", 1, 3),
           TraceRoute("c4", "in", "udp", 3, 3), Packet("drop", "c3", "c1", 80)}, 4, 0)
Scanning ==
    Scene({Packet("drop", src, "gate", port) : src \in {"c1", "c2", "out", "out2"}, port \in {1, 2}}, 5, 0)
Uploading ==
    Scene({Upload("c1", "out", 1), Upload("c1", "out", 2), Upload("c1", "out2", 2), Upload("c2", "out", 1),
           Upload("c2", "out2", 3), Upload("in", "out", 1), Upload("c1", "c3", 4)}, 5, 0)
Admitting ==
    Scene({Packet("accept", src, dst, port) : src \in {"out", "out2", "c1"}, dst \in {"c3", "in"}, port \in {22, 80}}
            \cup {Packet("drop", "out", "c3", 22)}, 3, 0)
Bursting == Scene({Packet("drop", "out", "in", 0)}, 7, 3)

Probing ==
    Scene({Packet("drop", src, "in", 22) : src \in {"out", "out2"}}
            \cup {Packet("drop", "out", "in", 80), Packet("accept", "out", "in", 80),
                  [Packet("drop", "out", "in", 22) EXCEPT !.detail = "return"]},
          5, 1)

MCScenes ==
    {Logging, Guessing, Windows, Panels, WiFi, Tunnelling, Bypassing, Failing, FailingBehind, Tracing,
     Scanning, Uploading, Admitting, Bursting, Probing}
=============================================================================
