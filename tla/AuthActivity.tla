---------------------------- MODULE AuthActivity ----------------------------
(***************************************************************************)
(* The authentication analyzer, analyzers/auth_activity.py, over the       *)
(* events of a run.  Where a query leaves open which of equal rows it      *)
(* returns, an operator yields the set of results the analyzer may have.   *)
(* The limits of the queries that no constant names are not reached here.  *)
(***************************************************************************)
EXTENDS EventQueries, NetworkProfile

CONSTANTS
    SampleLimit,    \* per service, how many accepted logons are looked at
    BurstMin,       \* per service, how many failures make a burst
    OutlierMin,     \* deauthentications it takes to compare devices, ...
    OutlierFloor,   \* ... those the outlier must have ...
    OutlierMultiple, \* ... and how far it must be above its peers' median
    MassSample,     \* how many deauthentications are looked at together, ...
    MassWindow,     \* ... the width of the mass deauthentication window ...
    MassMin         \* ... and the distinct devices that make it one

Services == {"ssh", "web", "windows"}

ASSUME LimitsAssumption ==
    /\ \A s \in Services : SampleLimit[s] \in Nat /\ BurstMin[s] \in Nat
    /\ OutlierMin \in Nat /\ OutlierFloor \in Nat /\ OutlierMultiple \in Nat \ {0}
    /\ MassSample \in Nat /\ MassWindow \in Nat /\ MassMin \in Nat

\* The actions that count as activity, as a logon and as a failure.
Activity ==
    [ssh |-> {"ssh_accepted", "ssh_failed", "ssh_invalid"},
     web |-> {"web_login_success", "web_login_failed"},
     windows |-> {"logon_success", "logon_failed", "privileged", "explicit_creds", "lockout"}]
Acceptance == [ssh |-> "ssh_accepted", web |-> "web_login_success", windows |-> "logon_success"]
Failures ==
    [ssh |-> {"ssh_failed", "ssh_invalid"}, web |-> {"web_login_failed"},
     windows |-> {"logon_failed"}]

\* Slip: the lines of a session are counted as well as its logon.
ActivityWithSessions(events, service) ==
    Cardinality(WithAction(events, "auth", Activity[service] \cup {"session_open", "session_close"}))

\* The headline number of a service: auth.ssh_events and its like.
ActivityOf(events, service) == Cardinality(WithAction(events, "auth", Activity[service]))

\* Logon types whose source address is another host's.
RemoteTypes == {"network", "rdp", "net_clear"}

\* Slip: a logon over remote desktop is taken for a local one.
IsForeignNetwork(row, service) ==
    /\ row.ip # NoValue /\ ~ IsInternal(row.ip)
    /\ service = "windows" => row.detail \in RemoteTypes \ {"rdp"}

IsForeign(row, service) ==
    /\ row.ip # NoValue /\ ~ IsInternal(row.ip)
    /\ service = "windows" => row.detail \in RemoteTypes

\* The external-logon checks: of the newest accepted logons, the foreign ones,
\* one signal for each address, which names the account of its newest logon.
ExternalLogons(events, service) ==
    UNION {LET foreign == {row \in T : IsForeign(row, service)}
               newest(ip) == {row.user : row \in {r \in foreign :
                   r.ip = ip /\ \A o \in foreign : o.ip = ip => o.ts <= r.ts}}
               ips == {row.ip : row \in foreign}
           IN  {{[ip |-> ip, user |-> named[ip]] : ip \in ips} :
                   named \in {f \in [ips -> {row.user : row \in foreign}] :
                                \A ip \in ips : f[ip] \in newest(ip)}} :
           T \in Newest(WithAction(events, "auth", {Acceptance[service]}), SampleLimit[service])}

\* The failure-burst checks: how many failures the signal reports, or none.
FailureBurst(events, service) ==
    LET total == Cardinality(WithAction(events, "auth", Failures[service]))
    IN  IF total < BurstMin[service] THEN 0 ELSE total

\* What is said of a service; of the external logons, what may be said.
Said(events, service) ==
    [activity |-> ActivityOf(events, service),
     external |-> ExternalLogons(events, service),
     burst |-> FailureBurst(events, service)]
_ssh_logons(events) == Said(events, "ssh")
_windows_logons(events) == Said(events, "windows")
_router_admin_logons(events) == Said(events, "web")

Deauths(events) == WithAction(events, "auth", {"deauth"})

\* _per_device_outlier: the device with most deauthentications, if it has far
\* more than the median of the others.
DeauthOutliers(events) ==
    LET macs == Distinct(Deauths(events), "user")
        count == [m \in macs |-> Hits(Deauths(events), "user", m)]
        tops == {m \in macs : \A o \in macs : count[o] <= count[m]}
        stands(m) ==
            /\ count[m] >= OutlierFloor
            /\ 2 * count[m] >= (TwiceMedian(count, macs \ {m}) + 2) * OutlierMultiple
    IN  IF Cardinality(macs) < 2 \/ Cardinality(Deauths(events)) < OutlierMin
        THEN {{}} ELSE {{m} \cap {x \in macs : stands(x)} : m \in tops}

\* The sliding window: `counts` holds the devices between `left` and the event
\* that was added last, `best` the most devices it has held.
NoWindow(macs) == [left |-> 1, counts |-> [m \in macs |-> 0], best |-> {}]
InWindow(counts) == {m \in DOMAIN counts : counts[m] > 0}
Wider(best, counts) ==
    IF Cardinality(InWindow(counts)) > Cardinality(best) THEN InWindow(counts) ELSE best

\* Slip: the window is measured before it is narrowed.
SlideLate(s, w, i) ==
    LET grown == [w.counts EXCEPT ![s[i].user] = @ + 1]
        gone == {j \in w.left..i : s[i].ts - s[j].ts > MassWindow}
        kept == [m \in DOMAIN grown |-> grown[m] - Cardinality({j \in gone : s[j].user = m})]
    IN  [left |-> w.left + Cardinality(gone), counts |-> kept, best |-> Wider(w.best, grown)]

\* An event enters at the right; those too old for it leave at the left.
Slide(s, w, i) ==
    LET grown == [w.counts EXCEPT ![s[i].user] = @ + 1]
        gone == {j \in w.left..i : s[i].ts - s[j].ts > MassWindow}
        kept == [m \in DOMAIN grown |-> grown[m] - Cardinality({j \in gone : s[j].user = m})]
    IN  [left |-> w.left + Cardinality(gone), counts |-> kept, best |-> Wider(w.best, kept)]

\* The events in the order of their times.
InOrder(events) ==
    LET enter(ev, s) == InsertAt(s, 1 + Cardinality({i \in DOMAIN s : s[i].ts <= ev.ts}), ev)
    IN  FoldSet(enter, <<>>, events)

\* The devices of the widest window over a sequence of events.
Widest(s, macs) ==
    LET w[i \in 0..Len(s)] == IF i = 0 THEN NoWindow(macs) ELSE Slide(s, w[i - 1], i)
    IN  w[Len(s)].best

\* _mass_deauth_burst: of the newest deauthentications the devices of the widest
\* window, if they are many.
MassDeauth(events) ==
    LET macs == Distinct(Deauths(events), "user")
        burst(s) == IF Len(s) < MassMin \/ Cardinality(Widest(s, macs)) < MassMin
                    THEN {} ELSE Widest(s, macs)
    IN  {burst(InOrder(T)) : T \in Newest(Deauths(events), MassSample)}
=============================================================================
