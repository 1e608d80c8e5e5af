------------------------------ MODULE Analysis ------------------------------
(***************************************************************************)
(* From what happens on the network to what a run reports of it: hosts log *)
(* people on and turn them away, clients look names up, devices fall off   *)
(* the Wi-Fi, and each leaves lines in the logs; then a run reads the      *)
(* lines of its window, makes events of them and analyses these.  What     *)
(* really happened is kept, so that the reports can be held against it.    *)
(***************************************************************************)
EXTENDS LogLines, AuthActivity, DnsAnomalies, FirewallTraffic, FirewallPatterns

CONSTANTS
    Scenes,     \* [incidents, most, until]: what may happen, how often, how long
    Segment,    \* clients whose gateway resolves for them, and ...
    Gateway,    \* ... the address it has at Pi-hole
    Owner       \* Owner[d]: the name an owner registered, as labels

VARIABLES scene, clock, happened, report
vars == <<scene, clock, happened, report>>

\* What may happen.  `what` tells the program and the outcome, `ip` is who, and
\* `tries` how many passwords an outsider of Dropbear's offers, or how many
\* packets, each with a TTL one higher, a tracer of routes sends.
Incident(what, user, ip, detail) ==
    [what |-> what, user |-> user, ip |-> ip, dst |-> NoValue, detail |-> detail,
     domain |-> NoValue, tries |-> 1, port |-> 0, ttl |-> OrdinaryTtl, len |-> 0]
Guesses(user, ip, tries) == [Incident("dropbear guess", user, ip, "") EXCEPT !.tries = tries]
Ask(client, domain, qtype, status) ==
    [Incident(status, NoValue, client, qtype) EXCEPT !.domain = domain]
Packet(verdict, src, dst, port) ==
    [Incident(verdict, NoValue, src, "tcp") EXCEPT !.dst = dst, !.port = port]
Verdicts == {"accept", "drop", "reject"}
AskElsewhere(client, resolver) == Packet("accept", client, resolver, 53)
Upload(src, dst, bytes) == [Packet("accept", src, dst, 443) EXCEPT !.len = bytes]
TraceRoute(src, dst, proto, ttl, hops) ==
    [Packet("drop", src, dst, 0) EXCEPT !.detail = proto, !.ttl = ttl, !.tries = hops]
Statuses == {"FORWARDED", "NXDOMAIN", "GRAVITY", "IN_PROGRESS"}

\* What a scene may hold: a line needs what its wording names, one incident is one
\* line or attempt but for Dropbear's guesses and packets that are turned away, and
\* the gateway, which is asked itself by those behind it only, does not ask for itself.
IsIncident(i) ==
    /\ i.tries \in Nat \ {0} /\ i.ttl \in Nat \ {0} /\ i.len \in Nat
    /\ i.what \notin {"drop", "reject", "dropbear guess"} => i.tries = 1
    /\ i.what \in {"windows logon", "deauth"} => i.user # NoValue
    /\ i.what \in Verdicts => i.ip # NoValue /\ i.dst # NoValue
    /\ i.what \in Statuses =>
            i.ip \notin {NoValue, Loopback} /\ i.domain \in DOMAIN Labels \ {NoValue}
    /\ i.what = "dnsmasq restart" => i.domain \in {NoValue} \cup DOMAIN Labels

ASSUME ScenesAssumption ==
    \A s \in Scenes :
        /\ s.most \in Nat /\ s.until \in Nat
        /\ \A i \in s.incidents : IsIncident(i)

\* A name is its owner's who registered it: below its last label, or below its last
\* two if these are a suffix under which anybody registers names.  A name of two
\* labels or fewer is its own.
ASSUME OwnersAssumption ==
    \A d \in DOMAIN Labels \ {NoValue} :
        LET n == Len(Labels[d])
            suffix == SubSeq(Labels[d], n - 1, n)
        IN  /\ Labels[d] \in Seq(STRING) /\ d \in DOMAIN Owner
            /\ \/ n <= 2 /\ Owner[d] = Labels[d]
               \/ n > 2 /\ suffix \notin TwoLabelSuffixes /\ Owner[d] = suffix
               \/ n > 2 /\ suffix \in TwoLabelSuffixes /\ Owner[d] = SubSeq(Labels[d], n - 2, n)

\* The gateway is an address, and none of those behind it.
ASSUME GatewayAssumption == Gateway # NoValue /\ Gateway \notin Segment

Of(i, program, form) == [Line(program, form) EXCEPT !.user = i.user, !.ip = i.ip, !.detail = i.detail]
Bare(i, program, form) == [Line(program, form) EXCEPT !.user = i.user]

\* The lines sshd writes of a logon, and of a password for a user that is known
\* or not; Dropbear's of a logon, of guesses and of a visit without any.
SshdLines(i) ==
    CASE i.what = "sshd logon" ->
            <<Of(i, "sshd", "accepted"), Bare(i, "sshd", "session opened"),
              Bare(i, "sshd", "session closed")>>
      [] i.what = "sshd guess" -> <<Of(i, "sshd", "failed")>>
      [] i.what = "sshd guess, unknown user" ->
            <<Of(i, "sshd", "invalid user"), Of(i, "sshd", "failed")>>
      [] OTHER -> <<>>
DropbearLines(i) ==
    LET visit == Line("dropbear", "child connection")
    IN  CASE i.what = "dropbear logon" -> <<visit, Of(i, "dropbear", "auth succeeded")>>
          [] i.what = "dropbear guess" ->
                <<visit>> \o [n \in 1..i.tries |-> Of(i, "dropbear", "bad password")]
                          \o <<Of(i, "dropbear", "max tries of user")>>
          [] i.what = "dropbear guess, unknown user" ->
                <<visit, [Of(i, "dropbear", "max tries, user is invalid") EXCEPT !.user = NoValue]>>
          [] i.what = "dropbear visit" -> <<visit, Of(i, "dropbear", "exited normally")>>
          [] OTHER -> <<>>

\* Windows' line of a logon names the requester first; `detail` is its type.
WindowsLines(i) ==
    LET by(form) == [Of(i, "winsec", form) EXCEPT !.subject = "SYSTEM"]
    IN  CASE i.what = "windows logon" ->
                <<by("logged on"),
                  [Line("winsec", "special privileges") EXCEPT !.subject = i.user]>>
          [] i.what = "windows refusal" -> <<by("failed to log on")>>
          [] OTHER -> <<>>

\* The web panels: LuCI names the account, the other one does not.
WebLines(i) ==
    CASE i.what = "luci logon" -> <<Of(i, "uhttpd", "luci accepted")>>
      [] i.what = "luci refusal" -> <<Of(i, "uhttpd", "luci failed")>>
      [] i.what = "panel logon" -> <<[Of(i, "httpd", "web successful") EXCEPT !.user = NoValue]>>
      [] i.what = "panel refusal" -> <<[Of(i, "httpd", "web failed") EXCEPT !.user = NoValue]>>
      [] OTHER -> <<>>

\* A lookup: Pi-hole's row, or that of the gateway which asks it for its client
\* and logs query, forward and replies itself.
LookupLines(i) ==
    LET said(program, form, ip) ==
            [Line(program, form) EXCEPT !.ip = ip, !.domain = i.domain, !.detail = i.detail]
    IN  IF i.what \notin Statuses THEN <<>>
        ELSE IF i.ip \notin Segment THEN <<said("pihole", i.what, i.ip)>>
        ELSE <<said("pihole", i.what, Gateway), said("dnsmasq", "query", i.ip),
               said("dnsmasq", "forwarded", i.ip), said("dnsmasq", "reply", i.ip),
               said("dnsmasq", "reply", i.ip)>>

OtherLines(i) ==
    CASE i.what = "deauth" -> <<Bare(i, "wifi", "deauth")>>
      [] i.what \in Verdicts ->
            [n \in 1..i.tries |->
                [Line("kernel", i.what) EXCEPT !.ip = i.ip, !.dst = i.dst, !.port = i.port,
                     !.detail = i.detail, !.ttl = i.ttl + n - 1, !.len = i.len]]
      [] i.what = "dnsmasq restart" ->
            <<[Line("dnsmasq", "query") EXCEPT !.ip = Loopback, !.domain = i.domain],
              [Line("dnsmasq", "config") EXCEPT !.ip = Loopback, !.domain = i.domain]>>
      [] OTHER -> <<>>

LinesOf(i) ==
    SshdLines(i) \o DropbearLines(i) \o WindowsLines(i) \o WebLines(i) \o LookupLines(i)
        \o OtherLines(i)

\* All lines, each with its time and an identity.
Log ==
    UNION {{[LinesOf(h.incident)[k] EXCEPT !.ts = h.ts, !.id = <<h, k>>] :
                k \in DOMAIN LinesOf(h.incident)} : h \in happened}

None == [made |-> FALSE]

Init ==
    /\ scene \in Scenes
    /\ clock = 0
    /\ happened = {}
    /\ report = None

\* Something happens, for the n-th time at this time.
Happen ==
    /\ ~ report.made
    /\ Cardinality(happened) < scene.most
    /\ \E i \in scene.incidents :
        happened' = happened \cup
            {[incident |-> i, ts |-> clock,
              n |-> Cardinality({h \in happened : h.incident = i /\ h.ts = clock})]}
    /\ UNCHANGED <<scene, clock, report>>

Tick ==
    /\ ~ report.made
    /\ clock < scene.until
    /\ clock' = clock + 1
    /\ UNCHANGED <<scene, happened, report>>

\* One answer for each of several questions, of those that each may get.
OneOfEach(answers) ==
    {f \in [DOMAIN answers -> UNION {answers[q] : q \in DOMAIN answers}] :
        \A q \in DOMAIN answers : f[q] \in answers[q]}

\* Collection and analysis of everything since the start.
Analyse ==
    /\ ~ report.made
    /\ LET events == Events(Log)
           said == [ssh |-> _ssh_logons(events), web |-> _router_admin_logons(events),
                    windows |-> _windows_logons(events)]
       IN  \E ssh \in said.ssh.external, web \in said.web.external,
              windows \in said.windows.external, bypass \in ResolverBypass(events),
              mass \in MassDeauth(events), falling \in DeauthOutliers(events),
              large \in LargeTransfers(events), scans \in InternalScans(events), patterns \in Patterns(events),
              stepped \in SteppedTtl(events),
              inbound \in OneOfEach([z \in DOMAIN Trust |-> InboundToZone(events, z)]),
              egress \in OneOfEach([z \in DOMAIN Expected |-> UnexpectedEgress(events, z)]) :
            report' =
                [made |-> TRUE,
                 external |-> [ssh |-> ssh, web |-> web, windows |-> windows],
                 activity |-> [s \in Services |-> said[s].activity],
                 burst |-> [s \in Services |-> said[s].burst],
                 mass |-> mass, falling |-> falling,
                 bypass |-> bypass, tunnels |-> Fanout(events),
                 carriers |-> QtypeOutliers(events),
                 blocked |-> BlockOutliers(events), failing |-> NxOutliers(events),
                 traces |-> Traceroutes(events), scans |-> scans, inbound |-> inbound,
                 probers |-> patterns.probers, sweeps |-> patterns.sweeps, stepped |-> stepped,
                 senders |-> VolumeOutliers(events), large |-> large,
                 egress |-> egress,
                 spike |-> SpikeHour(events)]
    /\ UNCHANGED <<scene, clock, happened>>

\* The report is out.
Reported == report.made /\ UNCHANGED vars

Next == Happen \/ Tick \/ Analyse \/ Reported
Spec == Init /\ [][Next]_vars

-----------------------------------------------------------------------------
\* What really happened.
Those(whats) == {h \in happened : h.incident.what \in whats}

\* The sources can read the address of all but SSH's and one panel's lines.
Legible(hs) ==
    {h \in hs : h.incident.ip \in Ipv6 => h.incident.what \in {"luci logon", "luci refusal",
                                                "windows logon", "windows refusal"}}
Logons(service) ==
    Legible(Those(CASE service = "ssh" -> {"sshd logon", "dropbear logon"}
            [] service = "web" -> {"luci logon", "panel logon"}
            [] OTHER -> {"windows logon"}))
Refusals(service) ==
    Legible(Those(CASE service = "ssh" -> {"sshd guess", "sshd guess, unknown user", "dropbear guess",
                                   "dropbear guess, unknown user"}
            [] service = "web" -> {"luci refusal", "panel refusal"}
            [] OTHER -> {"windows refusal"}))
Attempts(service) == FoldSet(LAMBDA h, n : h.incident.tries + n, 0, Refusals(service))

\* A logon from outside: of Windows' types, those which a console, a service or
\* a scheduled task have are none, whatever address they name.
FromOutside(service) ==
    {h \in Logons(service) :
        /\ h.incident.ip # NoValue /\ ~ IsInternal(h.incident.ip)
        /\ service = "windows" => h.incident.detail \in {"network", "rdp", "net_clear"}}
Named(h) == IF h.incident.what = "panel logon" THEN NoValue ELSE h.incident.user

\* A logon from outside is told of by its address, unless its line's pattern does
\* not match the address or the sample's limit is full of later logons, and
\* whoever is told of did log on from outside with the account that is named: not
\* the one that a Windows line names first.
ExternalLogonsAreReported ==
    report.made => \A s \in Services :
        /\ \A t \in report.external[s] :
            \E h \in FromOutside(s) : h.incident.ip = t.ip /\ Named(h) = t.user
        /\ \A h \in FromOutside(s) :
            Cardinality({o \in Logons(s) : o.ts >= h.ts}) <= SampleLimit[s]
                => \E t \in report.external[s] : t.ip = h.incident.ip

\* A burst of refused attempts is never missed, and no attempt is counted more
\* than twice (OpenSSH says two things of an unknown user, Dropbear repeats the
\* account when it gives up); a session's lines and a visit without an attempt
\* are no activity.  Windows says of an administrator's logon two things.
AttemptsAreCounted ==
    report.made => \A s \in Services :
        LET n == Cardinality(Logons(s))
        IN  /\ Attempts(s) >= BurstMin[s] => report.burst[s] >= Attempts(s)
            /\ report.burst[s] <= 2 * Attempts(s)
            /\ report.activity[s] >= n + Attempts(s)
            /\ report.activity[s] <= (IF s = "windows" THEN 2 * n ELSE n) + 2 * Attempts(s)

\* The devices that fall off the network within one window's width.
Falling(from) ==
    {h.incident.user : h \in {h \in Those({"deauth"}) : h.ts \in from..(from + MassWindow)}}

\* The mass deauthentication signal names enough devices that fell within one
\* window.  Unless more fell than are looked at, it is raised when, and only when,
\* some window holds as many devices as it takes, and names those of a widest one.
MassDeauthIsTheWidest ==
    report.made =>
        LET widest == Max({Cardinality(Falling(t)) : t \in 0..scene.until})
        IN  /\ report.mass # {} =>
                /\ Cardinality(report.mass) >= MassMin
                /\ \E t \in 0..scene.until : report.mass \subseteq Falling(t)
            /\ Cardinality(Those({"deauth"})) <= MassSample =>
                IF widest < MassMin THEN report.mass = {}
                ELSE /\ Cardinality(report.mass) = widest
                     /\ \E t \in 0..scene.until : report.mass = Falling(t)

\* The lookups that Pi-hole or the gateway answered for an address: of those that
\* Pi-hole has not answered yet, only the gateway's log tells.
Answers == Those(Statuses)
AskedBy(address) ==
    {h \in Answers :
        \/ h.incident.ip = address /\ (h.incident.what # "IN_PROGRESS" \/ address \in Segment)
        \/ h.incident.ip \in Segment /\ address = Gateway /\ h.incident.what # "IN_PROGRESS"}
NamesOf(owner, asked) == {h.incident.domain : h \in {h \in asked : Owner[h.incident.domain] = owner}}
Owners == {Owner[d] : d \in DOMAIN Owner}

\* Traffic that hides in names.  A client that asks for many names of one owner,
\* for each of them once, is told of, however the gateway repeats its lookups, and
\* nobody is told of who asked for few names of the owner or only for names of
\* different owners under one suffix; a name that is told of for its record types
\* was asked for often enough, counting that both the gateway and Pi-hole log a
\* lookup.
HidingIsTold ==
    report.made =>
        /\ \A t \in report.tunnels :
            t[2] \in Owners /\ Cardinality(NamesOf(t[2], AskedBy(t[1]))) >= FanoutMin
        /\ \A h \in Answers : LET client == h.incident.ip
                                  owner == Owner[h.incident.domain]
                                  names == NamesOf(owner, AskedBy(client))
                              IN  /\ client # Gateway /\ ~ IsBenign(owner)
                                  /\ Cardinality(names) >= FanoutMin
                                  /\ \A d \in names : Cardinality(
                                        {o \in AskedBy(client) : o.incident.domain = d}) = 1
                                  => <<client, owner>> \in report.tunnels
        /\ \A d \in report.carriers :
            2 * Cardinality({h \in Answers : h.incident.domain = d
                                /\ h.incident.detail \in TunnelQtypes}) >= QtypeMin

\* The clients that the logs know, and those of which the rate of some status is
\* compared.
Askers == {c \in {h.incident.ip : h \in Answers} \cup {Gateway} : AskedBy(c) # {}}
Busy == {c \in Askers : Cardinality(AskedBy(c)) >= Heavy}
With(c, status) == Cardinality({h \in AskedBy(c) : h.incident.what = status /\ c \notin Segment})
Falls(mac) == Cardinality({h \in Those({"deauth"}) : h.incident.user = mac})
Fallen == {h.incident.user : h \in Those({"deauth"})}

\* What the firewall really let through or not, in packets and bytes.
Packets == Those(Verdicts)
Tries(hs) == FoldSet(LAMBDA h, n : h.incident.tries + n, 0, hs)
Leaving ==
    {h \in Those({"accept"}) : IsInternal(h.incident.ip) /\ ~ IsInternal(h.incident.dst)}
Route(h) == <<h.incident.ip, h.incident.dst>>
Bytes(hs) == FoldSet(LAMBDA h, n : h.incident.len + n, 0, hs)
SentBy(src) == Bytes({h \in Leaving : h.incident.ip = src})
SentOn(route) == Bytes({h \in Leaving : Route(h) = route})
DropsAt(t) ==
    Tries({h \in Those({"drop"}) : h.ts \div HourLength = t})

\* Only busy clients stand out by their lookups; one whose lookups alone fail does,
\* and among few clients at most one does.  The rate of blocked lookups is compared
\* with a mean that the client is part of: among fewer clients than the multiple
\* nobody stands out however much is blocked.
ClientsStandOut ==
    LET failing == {c \in Busy : With(c, "NXDOMAIN") >= NxMin}
    IN  /\ report.failing \subseteq failing /\ report.blocked \subseteq Busy
        /\ \A c \in failing :
            /\ failing = {c}
            /\ Cardinality(Askers) >= MinClients
            /\ With(c, "NXDOMAIN") = Cardinality(AskedBy(c))
            => c \in report.failing
        /\ Cardinality(failing) <= NxMultiple => Cardinality(report.failing) <= 1
        /\ report.blocked # {} => 10 * Cardinality(Busy) >= BlockTenths

\* The device told of for falling off the Wi-Fi has far more falls than half of the
\* others, and one that has far more than each of the others is told of.
DevicesStandOut ==
    LET others(m) == Fallen \ {m}
        below(m) == {o \in others(m) : (Falls(o) + 1) * OutlierMultiple <= Falls(m)}
    IN  /\ \A m \in report.falling :
            Falls(m) >= OutlierFloor /\ 2 * Cardinality(below(m)) >= Cardinality(others(m))
        /\ \A m \in Fallen :
            /\ Falls(m) >= OutlierFloor
            /\ Cardinality(Those({"deauth"})) >= OutlierMin
            /\ others(m) # {} /\ below(m) = others(m)
            => m \in report.falling

\* A host that sent far more than each of the others is told of, and whoever is
\* told of sent far more than some other: nobody's own bytes hide him.
SendersStandOut ==
    LET senders == {h.incident.ip : h \in Leaving}
        far(s, o) == SentBy(s) >= SourceFloor /\ SentBy(s) >= SourceMultiple * SentBy(o)
    IN  /\ \A s \in report.senders : \E o \in senders \ {s} : far(s, o)
        /\ \A s \in senders :
            /\ Cardinality(senders) >= MinSources
            /\ \A o \in senders \ {s} : far(s, o)
            => s \in report.senders

\* The hour told of has far more drops than half of the hours with any, and an
\* hour that has far more than each of the others is told of.
HoursStandOut ==
    LET hours == {t \in 0..scene.until : DropsAt(t) > 0}
        far(t, o) == DropsAt(t) > SpikeMultiple * DropsAt(o)
    IN  /\ \A t \in report.spike :
            2 * Cardinality({o \in hours \ {t} : far(t, o)}) >= Cardinality(hours) - 1
        /\ \A t \in hours :
            /\ Cardinality(hours) >= SpikeHours
            /\ \A o \in hours \ {t} : far(t, o)
            => t \in report.spike

\* Whoever is compared with peers is told of if he is far above all of them, and
\* not if he is not far above enough of them.
OutliersStandOut ==
    report.made => ClientsStandOut /\ DevicesStandOut /\ SendersStandOut /\ HoursStandOut

\* Routes traced from zone to zone.  Whoever is told of sent packets of one protocol
\* with consecutive low TTLs to a host of another zone; a whole trace is told of
\* unless packets with a lower TTL come before it, and a whole trace out of a zone
\* that is not trusted into one that is, not as a trifle.
Ttls(src, dst, proto) ==
    UNION {h.incident.ttl..(h.incident.ttl + h.incident.tries - 1) :
              h \in {h \in Packets : Route(h) = <<src, dst>> /\ h.incident.detail = proto}}
TracesAreTold ==
    /\ \A t \in report.traces : \A x \in t.traces :
        /\ x[1] = t.src /\ IsInternal(x[1]) /\ IsInternal(x[2]) /\ zone_of(x[1]) # zone_of(x[2])
        /\ \E from \in 1..LadderMaxStart :
            from..(from + LadderMinHops - 1) \subseteq Ttls(x[1], x[2], x[3])
    /\ \A h \in Packets : LET i == h.incident IN
        /\ i.ttl <= LadderMaxStart /\ i.tries >= LadderMinHops
        /\ i.ttl = Min(Ttls(i.ip, i.dst, i.detail))
        /\ IsInternal(i.ip) /\ IsInternal(i.dst) /\ zone_of(i.ip) # zone_of(i.dst)
        => \E t \in report.traces :
            /\ <<i.ip, i.dst, i.detail>> \in t.traces
            /\ _trust(zone_of(i.ip)) = "untrusted" /\ _trust(zone_of(i.dst)) = "trusted"
                => t.severity = "MEDIUM"

\* A host of this network that tries many ports often is told of, unless enough
\* others, outsiders among them, sent as much; and no other host is.
ScansAreTold ==
    LET of(src) == {h \in Packets : h.incident.ip = src}
        scans(src) == /\ IsInternal(src) /\ Tries(of(src)) >= ScanHits
                      /\ Cardinality({h.incident.port : h \in of(src)} \ {0}) >= ScanPorts
        sources == {h.incident.ip : h \in Packets}
    IN  /\ \A src \in report.scans : scans(src)
        /\ \A src \in sources :
            /\ scans(src)
            /\ Cardinality({o \in sources : Tries(of(o)) >= Tries(of(src))}) <= ProfileLimit
            => src \in report.scans

\* Sessions let in from outside are told of in a zone that is not trusted, in a
\* trusted zone only those from an address that earlier runs have not seen: one at
\* least, unless the query's limit is full of other pairs, and every one to a watched
\* port, unless more of them than are listed reached the zone.
InboundIsTold ==
    LET into(z) == {h \in Those({"accept"}) : zone_of(h.incident.dst) = z}
        pair(h) == <<h.incident.ip, h.incident.port>>
        pairs(z) == {pair(h) : h \in into(z)}
        notable(h, z) == /\ ~ IsInternal(h.incident.ip)
                         /\ Trust[z] \notin UNTRUSTED => HasBaseline /\ h.incident.ip \notin Familiar
        knocking(z) == {pair(h) : h \in {h \in into(z) : notable(h, z) /\ h.incident.port \in Watched}}
    IN  \A z \in DOMAIN Trust :
            /\ report.inbound[z] \subseteq {pair(h) : h \in {h \in into(z) : notable(h, z)}}
            /\ \A h \in into(z) :
                /\ notable(h, z) /\ Cardinality(pairs(z)) <= InboundLimit
                => /\ report.inbound[z] # {}
                   /\ Cardinality(knocking(z)) <= InboundShown => knocking(z) \subseteq report.inbound[z]
                   /\ knocking(z) # {} => report.inbound[z] \subseteq knocking(z)

\* A large transfer out of this network is told of, unless enough are as large; and
\* nothing small is, however it adds up over destinations.
TransfersAreTold ==
    LET routes == {Route(h) : h \in Leaving}
    IN  /\ \A r \in report.large : r \in routes /\ SentOn(r) >= LargeFloor
        /\ \A r \in routes :
            /\ SentOn(r) >= LargeFloor
            /\ Cardinality({o \in routes : SentOn(o) >= SentOn(r)}) <= LargeLimit
            => r \in report.large

\* Of the hosts that ask a resolver elsewhere somebody is told of while the pairs
\* are no more than the query's limit, and everybody while those who do it are no
\* more than the list holds; nobody else is, and nobody if no resolver is approved of.
BypassIsTold ==
    LET elsewhere == {Route(h) : h \in {h \in Packets : h.incident.port = 53}}
        offending == {p \in elsewhere : /\ IsInternal(p[1]) /\ ~ IsInternal(p[2])
                                        /\ Approved # {} /\ p[2] \notin Approved}
    IN  /\ report.bypass \subseteq offending
        /\ Cardinality(elsewhere) <= BypassLimit /\ offending # {} =>
            /\ report.bypass # {}
            /\ Cardinality(offending) <= BypassShown => report.bypass = offending

\* The names that a zone is not meant to ask for, and that are not benign, are told
\* of by their number: those that Pi-hole or the gateway wrote down for one of its
\* hosts, or for the gateway itself if it is one.  All are named while they are no more
\* than the list holds, some if there are any, and no others.
EgressIsTold ==
    \A z \in DOMAIN Expected :
        LET names == {h.incident.domain : h \in {h \in Answers :
                        \E a \in {h.incident.ip, Gateway} : zone_of(a) = z /\ h \in AskedBy(a)}}
            unexpected == {d \in names : /\ Expected[z] # {} /\ ~ IsUnder(Labels[d], Expected[z])
                                         /\ ~ IsBenign(Labels[d])}
            told == report.egress[z]
        IN  /\ told.count = Cardinality(unexpected) /\ told.domains \subseteq unexpected
            /\ unexpected # {} => told.domains # {}
            /\ Cardinality(unexpected) <= EgressShown => told.domains = unexpected

\* An outsider that keeps to one port for long is told of, unless so many others
\* sent as much, or its subnet has so many sources that the mean makes a sweep of
\* them: that hides a prober among scanners.  Whoever is told of is told of once, was
\* turned away for long and not only with packets of sessions of ours, and sent more
\* to no other port than to the one told of; but what was let through counts there,
\* so that it need not be the one it was turned away from, unless nothing was.
ProbersAreTold ==
    LET dropped == Those({"drop"})
        of(src) == {h \in dropped : h.incident.ip = src}
        sent(src) == {h \in Packets : h.incident.ip = src}
        to(src, port) == {h \in sent(src) : h.incident.port = port}
        at(src, port) == {h \in of(src) : h.incident.port = port /\ h.incident.detail # "return"}
        long(hs) == \E g, h \in hs : g.ts - h.ts >= ProberMinTime
        sources == {h.incident.ip : h \in dropped}
        peers(src) == {o \in sources \cap DOMAIN Subnet :
                          src \in DOMAIN Subnet /\ Subnet[o] = Subnet[src]}
        nets == {Subnet[src] : src \in sources \cap DOMAIN Subnet}
        scanners(src) == /\ Cardinality(peers(src)) >= SweepMinSources
                         /\ Tries(UNION {of(o) : o \in peers(src)})
                                <= SweepMaxHits * Cardinality(peers(src))
    IN  /\ \A p \in report.probers :
            /\ p[1] \in sources /\ ~ IsInternal(p[1])
            /\ scanners(p[1]) => Cardinality(nets) > SweepLimit
            /\ \E h \in of(p[1]) : h.incident.detail # "return"
            /\ long(of(p[1]))
            /\ 10 * Tries(to(p[1], p[2])) >= 7 * Tries(of(p[1]))
            /\ \A h \in sent(p[1]) : h.incident.port # 0 =>
                    Tries(to(p[1], h.incident.port)) <= Tries(to(p[1], p[2]))
            /\ \A q \in report.probers : q[1] = p[1] => q = p
        /\ \A net \in report.sweeps :
            Cardinality({src \in sources \cap DOMAIN Subnet : Subnet[src] = net}) >= SweepMinSources
        /\ \A src \in sources : \A port \in {h.incident.port : h \in of(src)} \ {0} :
            /\ ~ IsInternal(src) /\ at(src, port) = of(src)
            /\ Tries(of(src)) >= ProberMinHits /\ long(of(src))
            /\ ~ scanners(src)
            /\ Cardinality({o \in sources : Tries(of(o)) >= Tries(of(src))}) <= ProberLimit
            => /\ \E p \in report.probers : p[1] = src
               /\ sent(src) = of(src) => <<src, port>> \in report.probers

\* A host whose dropped UDP has TTLs from a low one on and far apart is told of
\* while the senders are no more than the limit; one whose TTLs never vary is not.
SteppingIsTold ==
    LET udp == {h \in Those({"drop"}) : h.incident.detail = "udp"}
        senders == {h.incident.ip : h \in udp}
        ttls(src) == UNION {h.incident.ttl..(h.incident.ttl + h.incident.tries - 1) :
                               h \in {h \in udp : h.incident.ip = src}}
    IN  /\ \A src \in report.stepped : src \in senders /\ Cardinality(ttls(src)) > 1
        /\ \A h \in udp : LET i == h.incident IN
            /\ Cardinality(senders) <= SteppedLimit
            /\ i.ttl <= SteppedLow /\ i.tries > SteppedRange /\ i.tries >= SteppedHits
            => i.ip \in report.stepped

\* What knocks at or crosses the borders of zones and of this network is told of, and what a
\* query ranks and cuts before it is filtered is missed only when the cut is full.
CrossingsAreTold ==
    report.made =>
        /\ TracesAreTold /\ ScansAreTold /\ InboundIsTold
        /\ TransfersAreTold /\ BypassIsTold /\ EgressIsTold
        /\ ProbersAreTold /\ SteppingIsTold
=============================================================================
