-------------------------- MODULE FirewallPatterns --------------------------
(***************************************************************************)
(* How the sources of dropped packets are told apart (firewall_patterns):  *)
(* many addresses of one /24 with a packet or two each are a sweep, one    *)
(* address that keeps to a port for hours is a prober, packets from a web  *)
(* server's port are the rest of a session of ours, and UDP whose TTLs     *)
(* spread from a low one on is stepped.  In a firewall event `detail` is   *)
(* the protocol, "return" being TCP from port 80 or 443.  The query's      *)
(* limit of 5000 addresses is not reached here.                            *)
(***************************************************************************)
EXTENDS EventQueries, NetworkProfile

CONSTANTS
    Subnet,         \* Subnet[ip]: the /24 an IPv4 address is in
    SweepMinSources, SweepMaxHits, SweepLimit,  \* ..., per source, subnets looked at
    ProberMinHits, ProberMinTime, ProberMaxPorts, ProberLimit,
    SteppedLow, SteppedRange, SteppedHits, SteppedLimit

ASSUME PatternsAssumption ==
    /\ SweepMinSources \in Nat \ {0} /\ SweepMaxHits \in Nat /\ SweepLimit \in Nat
    /\ ProberMinHits \in Nat \ {0} /\ ProberMinTime \in Nat /\ ProberMaxPorts \in Nat \ {0}
    /\ ProberLimit \in Nat /\ SteppedLimit \in Nat
    /\ SteppedLow \in Nat /\ SteppedRange \in Nat \ {0} /\ SteppedHits \in Nat

Drops(events) == WithAction(events, "firewall", {"drop"})
DropsOf(events, ip) == {ev \in Drops(events) : ev.ip = ip}

\* return_traffic_count
ReturnTraffic(events) == {ev \in events : ev.detail = "return"}

\* subnet_spread: the sources of each subnet, and the subnets with most sources,
\* of as many sources those with most hits.
Sources(events, net) ==
    {ip \in Distinct(Drops(events), "ip") : ip \in DOMAIN Subnet /\ Subnet[ip] = net}
SubnetHits(events, net) ==
    Cardinality({ev \in Drops(events) : ev.ip \in Sources(events, net)})
SubnetSpread(events) ==
    LET nets == {Subnet[ip] : ip \in Distinct(Drops(events), "ip") \cap DOMAIN Subnet}
        size(net) == Cardinality(Sources(events, net))
        before(m, n) == \/ size(m) > size(n)
                        \/ size(m) = size(n) /\ SubnetHits(events, m) >= SubnetHits(events, n)
    IN  {T \in kSubset(AtMost(SweepLimit, nets), nets) : \A m \in T, n \in nets \ T : before(m, n)}

\* _sweep_members: the swept subnets, told by the mean over their sources.
Sweeps(events, spread) ==
    {net \in spread :
        /\ Cardinality(Sources(events, net)) >= SweepMinSources
        /\ SubnetHits(events, net) <= SweepMaxHits * Cardinality(Sources(events, net))}

\* ports_for_source: the ports that most of a source's packets went to, dropped
\* or not; of several either may come first.
PortHits(events, ip, port) == Cardinality({ev \in events : ev.ip = ip /\ ev.port = port})
TopPorts(events, ip) ==
    LET ports == {ev.port : ev \in {x \in events : x.ip = ip}} \ {0}
    IN  {p \in ports : \A o \in ports : PortHits(events, ip, o) <= PortHits(events, ip, p)}

\* One source, by its drops, and its first port; the packets to that port, among them
\* those that were let through, are at least seven for ten of its drops.
IsProber(events, ip, port) ==
    LET of == DropsOf(events, ip)
        times == {ev.ts : ev \in of}
        ports == {ev.port : ev \in of} \ {0}
        hits == Cardinality(of)
    IN  /\ port \in TopPorts(events, ip)
        /\ 5 * Cardinality(ReturnTraffic(of)) <= 4 * hits
        /\ hits >= ProberMinHits
        /\ Max(times) - Min(times) >= ProberMinTime
        /\ Cardinality(ports) <= ProberMaxPorts
        /\ 10 * PortHits(events, ip, port) >= 7 * hits

\* Of some pairs of source and port, one for each source.
OneEach(pairs) ==
    {P \in SUBSET pairs : /\ \A p \in pairs : \E q \in P : q[1] = p[1]
                          /\ \A p, q \in P : p[1] = q[1] => p = q}

\* FirewallPatternAnalyzer.run: sweeps first, then the probers among the busiest
\* sources that are neither of this network nor members of a sweep.
Patterns(events) ==
    LET swept(spread) == UNION {Sources(events, net) : net \in Sweeps(events, spread)}
        ports == {ev.port : ev \in events}
        probing(spread, busiest) ==
            {p \in (busiest \ swept(spread)) \X ports :
                ~ IsInternal(p[1]) /\ IsProber(events, p[1], p[2])}
        shapes(spread, busiest) ==
            {[sweeps |-> Sweeps(events, spread), probers |-> P] :
                P \in OneEach(probing(spread, busiest))}
    IN  UNION {shapes(spread, busiest) :
                  spread \in SubnetSpread(events), busiest \in Top(Drops(events), "ip", ProberLimit)}

\* _stepped_ttl: of the busiest senders of UDP those with TTLs far apart.
SteppedTtl(events) ==
    LET udp == {ev \in Drops(events) : ev.detail = "udp"}
        ttls(ip) == {ev.ttl : ev \in {x \in udp : x.ip = ip}}
    IN  {{ip \in T : /\ Min(ttls(ip)) <= SteppedLow
                     /\ Max(ttls(ip)) - Min(ttls(ip)) >= SteppedRange
                     /\ Hits(udp, "ip", ip) >= SteppedHits} : T \in Top(udp, "ip", SteppedLimit)}
=============================================================================
