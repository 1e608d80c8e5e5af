---------------------------- MODULE DnsAnomalies ----------------------------
(***************************************************************************)
(* The DNS analyzer, analyzers/dns_anomalies.py, over the events of a run: *)
(* which clients it compares with which, which lookups it takes for a      *)
(* tunnel, and which connections for lookups made elsewhere.  (What is new *)
(* is EntityBaseline's, and the shape of generated names is a matter of    *)
(* their characters.)  The limits of the queries and of the lists of       *)
(* findings other than those of the bypass are not reached here.           *)
(***************************************************************************)
EXTENDS EventQueries, NetworkProfile

CONSTANTS
    TwoLabelSuffixes, \* the suffixes under which anybody registers names
    BlockedStatuses, \* the statuses of a lookup that Pi-hole refused
    Heavy,          \* lookups that make a client worth comparing
    MinClients,
    BlockFloor, BlockTenths,    \* a rate in percent; tenths of its mean
    NxMin,          \* failed lookups that make a client worth comparing
    NxFloor, NxMultiple,
    FanoutMin, FanoutRatio,     \* distinct names; percent of the lookups
    QtypeMin, QtypeRatio,
    TunnelQtypes,
    BypassLimit,    \* pairs of addresses that are looked at
    BypassShown     \* pairs that are told of

ASSUME LookupsAssumption ==
    /\ BypassLimit \in Nat /\ BypassShown \in Nat \ {0}
    /\ FanoutMin \in Nat \ {0} /\ FanoutRatio \in 0..100 /\ QtypeMin \in Nat
    /\ Heavy \in Nat \ {0} /\ MinClients \in Nat /\ BlockFloor \in Nat \ {0} /\ BlockTenths \in Nat
    /\ NxMin \in Nat \ {0} /\ NxFloor \in 0..100 /\ NxMultiple \in Nat

Dns(events) == OfKind(events, "dns")

\* _resolver_bypass: hosts of this network and the resolvers elsewhere which the
\* firewall saw them reach; of the pairs looked at, the most frequent, those that
\* offend, and of these again the most frequent.
ResolverBypass(events) ==
    LET port53 == {ev \in OfKind(events, "firewall") : ev.port = 53}
        told(p) == p[2] # NoValue /\ p[2] \notin Approved /\ IsInternal(p[1]) /\ ~ IsInternal(p[2])
        offenders(T) == {p \in T : Approved # {} /\ told(p)}
        queries(S) == [p \in S |-> PairHits(port53, "ip", "dst", p)]
    IN  UNION {Leading(BypassShown, offenders(T), queries(offenders(T))) :
                  T \in TopPairs(port53, "ip", "dst", BypassLimit)}

\* dns_client_stats
Clients(events) == Distinct(Dns(events), "ip")
Lookups(events, client) == Hits(Dns(events), "ip", client)
Answered(events, client, statuses) ==
    Cardinality({ev \in Dns(events) : ev.ip = client /\ ev.reason \in statuses})

\* Who is compared with whom, by how many lookups of which statuses.
Compared(events, statuses, least) ==
    {c \in Clients(events) : /\ Cardinality(Clients(events)) >= MinClients
                             /\ Lookups(events, c) >= Heavy
                             /\ Answered(events, c, statuses) >= least}

\* A client's rate, times everybody's number of lookups to keep it whole.
Rate(events, statuses, c, cs) ==
    Answered(events, c, statuses)
        * FoldSet(LAMBDA p, product : Lookups(events, p) * product, 1, cs \ {c})

AtLeast(events, statuses, c, percent) ==
    100 * Answered(events, c, statuses) >= percent * Lookups(events, c)

\* A client's rate is at least some tenths of the mean of others' rates.
FarAbove(events, statuses, c, peers, tenths) ==
    LET all == peers \cup {c}
        sum == FoldSet(LAMBDA p, acc : Rate(events, statuses, p, all) + acc, 0, peers)
    IN  10 * Rate(events, statuses, c, all) * Cardinality(peers) >= tenths * sum

\* _client_outliers: the mean is everybody's, the client's own rate included.
BlockOutliers(events) ==
    LET rated == Compared(events, BlockedStatuses, 0)
    IN  {c \in rated : /\ AtLeast(events, BlockedStatuses, c, BlockFloor)
                       /\ FarAbove(events, BlockedStatuses, c, rated, BlockTenths)}

\* Slip: a client is one of its own peers.
OutliersWithSelf(events) ==
    LET rated == Compared(events, {"NXDOMAIN"}, NxMin)
    IN  {c \in rated : /\ AtLeast(events, {"NXDOMAIN"}, c, NxFloor)
                       /\ FarAbove(events, {"NXDOMAIN"}, c, rated, 10 * NxMultiple)}

\* _nxdomain_outliers: the mean is that of the others.
NxOutliers(events) ==
    LET rated == Compared(events, {"NXDOMAIN"}, NxMin)
    IN  {c \in rated : /\ AtLeast(events, {"NXDOMAIN"}, c, NxFloor)
                       /\ FarAbove(events, {"NXDOMAIN"}, c, rated \ {c}, 10 * NxMultiple)}

\* Slip: the last two labels are the apex, whatever they are.
LastTwoLabels(labels) ==
    SubSeq(labels, IF Len(labels) < 2 THEN 1 ELSE Len(labels) - 1, Len(labels))

\* apex_domain: the last two labels, or three if the last two are such a suffix.
Apex(labels) ==
    LET n == Len(labels)
        two == SubSeq(labels, n - 1, n)
    IN  IF n < 2 THEN labels
        ELSE IF two \in TwoLabelSuffixes /\ n >= 3 THEN SubSeq(labels, n - 2, n) ELSE two

\* _tunnel_fanout: the client and apex of many different names, each asked for
\* about once.
Fanout(events) ==
    LET asked == {ev \in Dns(events) : ev.ip # NoValue /\ ev.domain # NoValue}
        of(client, apex) ==
            {ev \in asked : ev.ip = client /\ Apex(Labels[ev.domain]) = apex}
        groups == {<<ev.ip, Apex(Labels[ev.domain])>> : ev \in asked}
    IN  {g \in groups :
            LET distinct == Cardinality({ev.domain : ev \in of(g[1], g[2])})
            IN  /\ ~ IsBenign(g[2])
                /\ distinct >= FanoutMin
                /\ 100 * distinct >= FanoutRatio * Cardinality(of(g[1], g[2]))}

\* _tunnel_qtype_outliers: domains asked for their TXT or NULL records mostly.
QtypeOutliers(events) ==
    {d \in Distinct(Dns(events), "domain") :
        LET carrying == {ev \in Dns(events) : ev.domain = d /\ ev.detail \in TunnelQtypes}
        IN  /\ ~ IsBenign(Labels[d])
            /\ Cardinality(carrying) >= QtypeMin
            /\ 100 * Cardinality(carrying) >= QtypeRatio * Hits(Dns(events), "domain", d)}
=============================================================================
