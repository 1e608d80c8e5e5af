--------------------------- MODULE FirewallTraffic ---------------------------
(***************************************************************************)
(* What the analyzers make of firewall events: routes traced between zones *)
(* (traceroute.py), data that leaves (data_volume.py), hosts that scan     *)
(* (correlation.py), sessions let in and domains asked for against a       *)
(* zone's profile (segment_review.py), and hours with many drops           *)
(* (firewall_volume.py).  In a firewall event `detail` is the protocol.    *)
(* The largest limits of their queries (1000 pairs, 2000 domains, 20000    *)
(* rows of low TTLs) are not reached here.                                 *)
(***************************************************************************)
EXTENDS EventQueries, NetworkProfile

CONSTANTS
    LadderMaxTtl, LadderMaxStart, LadderMinHops, MappingMin,
    SourceFloor, SourceMultiple, MinSources,    \* bytes, a factor, sources
    LargeFloor, LargeLimit,         \* bytes, transfers that are looked at
    ScanPorts, ScanHits, ProfileLimit,  \* ..., sources that are looked at
    InboundLimit, InboundShown,     \* pairs that are looked at and told of
    EgressShown,                    \* names that are told of
    Expected,       \* Expected[z]: the names a zone is meant to ask for
    HasBaseline,    \* whether an earlier run measured anything
    Familiar,       \* addresses which earlier runs saw
    SpikeHours, SpikeMultiple, HourLength

\* A ladder that starts low has room below the highest TTL that is looked at, a
\* source is compared with some other, and an hour with a median which is not its own.
ASSUME TrafficAssumption ==
    /\ LadderMinHops \in Nat \ {0} /\ LadderMaxStart \in Nat /\ LadderMaxTtl \in Nat
    /\ LadderMaxStart + LadderMinHops <= LadderMaxTtl + 1
    /\ LargeLimit \in Nat /\ ProfileLimit \in Nat
    /\ InboundLimit \in Nat /\ InboundShown \in Nat \ {0} /\ EgressShown \in Nat \ {0}
    /\ SourceFloor \in Nat /\ SourceMultiple \in Nat /\ MinSources \in Nat \ 0..1
    /\ SpikeHours \in Nat \ 0..2 /\ SpikeMultiple \in Nat \ {0} /\ HourLength \in Nat \ {0}

Firewall(events) == OfKind(events, "firewall")
Accepted(events) == WithAction(events, "firewall", {"accept"})

\* Slip: steps count whether or not they are consecutive.
LadderWithGaps(ttls) ==
    IF ttls = {} \/ Min(ttls) > LadderMaxStart THEN 0 ELSE Cardinality(ttls)

\* ladder_length: the consecutive steps upward from the lowest one.
ladder_length(ttls) ==
    IF ttls = {} \/ Min(ttls) > LadderMaxStart THEN 0
    ELSE Max({n \in 1..Cardinality(ttls) : Min(ttls)..(Min(ttls) + n - 1) \subseteq ttls})

\* low_ttl_pairs: the low TTLs of a source, a destination and a protocol.
Trace(ev) == <<ev.ip, ev.dst, ev.detail>>
LowTtls(events, trace) ==
    {ev.ttl : ev \in {x \in Firewall(events) : Trace(x) = trace /\ x.ttl <= LadderMaxTtl}}

_ladders(events) ==
    {t \in {Trace(ev) : ev \in {x \in Firewall(events) : NoValue \notin {x.ip, x.dst}}} :
        ladder_length(LowTtls(events, t)) >= LadderMinHops}

\* How serious it is that a host traced these routes: more so out of a zone that
\* is not trusted into one that is, or with many of them.
TraceSeverity(src, traces) ==
    LET trusted(t) == _trust(zone_of(t[2])) \notin UNTRUSTED \cup {"unknown"}
        intoTrusted == _trust(zone_of(src)) \in UNTRUSTED /\ \E t \in traces : trusted(t)
    IN  IF intoTrusted \/ Cardinality(traces) >= MappingMin THEN "MEDIUM" ELSE "LOW"

\* TracerouteAnalyzer.run: one signal for each host that traced routes into
\* another zone.
Traceroutes(events) ==
    LET crossing == {t \in _ladders(events) : /\ IsInternal(t[1]) /\ IsInternal(t[2])
                                              /\ zone_of(t[1]) # zone_of(t[2])}
        from(src) == {t \in crossing : t[1] = src}
    IN  {[src |-> src, traces |-> from(src), severity |-> TraceSeverity(src, from(src))] :
            src \in {t[1] : t \in crossing}}

\* bytes_by_pair: what was let through from one address to another.
BytesOf(events, pairs) ==
    FoldSet(LAMBDA ev, sum : ev.len + sum, 0,
            {ev \in Accepted(events) : <<ev.ip, ev.dst>> \in pairs})

\* DataVolumeAnalyzer.run: the pairs that leave this network.
Egress(events) ==
    {p \in {<<ev.ip, ev.dst>> : ev \in Accepted(events)} :
        NoValue \notin {p[1], p[2]} /\ IsInternal(p[1]) /\ ~ IsInternal(p[2])}

\* _source_outlier: who sent far more than the mean of the others.
VolumeOutliers(events) ==
    LET sources == {p[1] : p \in Egress(events)}
        sent(srcs) == BytesOf(events, {p \in Egress(events) : p[1] \in srcs})
    IN  {src \in sources :
            /\ Cardinality(sources) >= MinSources
            /\ sent({src}) >= SourceFloor
            /\ sent({src}) * (Cardinality(sources) - 1) >= sent(sources \ {src}) * SourceMultiple}

\* _large_transfer: of the largest transfers, those which are large.
LargeTransfers(events) ==
    LET size(p) == BytesOf(events, {p})
        pairs == Egress(events)
        largest == {T \in kSubset(AtMost(LargeLimit, pairs), pairs) :
                        \A p \in T, r \in pairs \ T : size(p) >= size(r)}
    IN  {{p \in T : size(p) >= LargeFloor} : T \in largest}

\* _internal_scanning: of the busiest sources, outsiders included, those of this
\* network that tried many ports.
InternalScans(events) ==
    LET of(ip) == {ev \in Firewall(events) : ev.ip = ip}
        ports(ip) == {ev.port : ev \in of(ip)} \ {0}
    IN  {{ip \in T : /\ IsInternal(ip) /\ Cardinality(of(ip)) >= ScanHits
                     /\ Cardinality(ports(ip)) >= ScanPorts} :
            T \in Top(Firewall(events), "ip", ProfileLimit)}

\* _inbound_to_zone: of the most frequent pairs of source and port let into a
\* zone, those from outside; into a trusted zone those of new sources only; of the
\* pairs left those to watched ports if there are any, and the first of these.
InboundToZone(events, zone) ==
    LET into == {ev \in Accepted(events) : ev.dst # NoValue /\ zone_of(ev.dst) = zone}
        new(p) == HasBaseline /\ p[1] \notin Familiar
        outside(p) == ~ IsInternal(p[1]) /\ (Trust[zone] \notin UNTRUSTED => new(p))
        notable(S) == LET watched == {p \in S : p[2] \in Watched}
                      IN  IF watched = {} THEN S ELSE watched
        hits(S) == [p \in S |-> PairHits(into, "ip", "port", p)]
        shown(S) == Leading(InboundShown, S, hits(S))
    IN  UNION {shown(notable({p \in T : outside(p)})) : T \in TopPairs(into, "ip", "port", InboundLimit)}

\* _unexpected_egress: what a zone asks for besides what it is meant to: how many
\* names, and those it asks for most; of as many lookups, those that all ask for most.
UnexpectedEgress(events, zone) ==
    LET dns == OfKind(events, "dns")
        its == {ev \in dns : zone_of(ev.ip) = zone}
        unexpected == {d \in Distinct(its, "domain") :
                          /\ Expected[zone] # {}
                          /\ ~ IsUnder(Labels[d], Expected[zone]) /\ ~ IsBenign(Labels[d])}
        rank == [d \in unexpected |-> Hits(its, "domain", d) * (Cardinality(dns) + 1)
                                         + Hits(dns, "domain", d)]
    IN  {[count |-> Cardinality(unexpected), domains |-> T] :
            T \in Leading(EgressShown, unexpected, rank)}

\* FirewallVolumeAnalyzer.run: the first of the hours with most drops, if it has
\* far more than the median of the hours with any.
SpikeHour(events) ==
    LET drops == WithAction(events, "firewall", {"drop"})
        hours == {ev.ts \div HourLength : ev \in drops}
        count == [h \in hours |-> Cardinality({ev \in drops : ev.ts \div HourLength = h})]
        most == {h \in hours : \A o \in hours : count[o] <= count[h]}
    IN  {h \in most : /\ h = Min(most) /\ Cardinality(hours) >= SpikeHours
                      /\ 2 * count[h] > TwiceMedian(count, hours) * SpikeMultiple}
=============================================================================
