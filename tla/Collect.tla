------------------------------- MODULE Collect -------------------------------
(***************************************************************************)
(* Stages 1 to 4 of a run: the Pi-hole and the LibreNMS source pull their  *)
(* window page by page, each in a thread of the pool, from services that   *)
(* cap and repeat pages, expire and receive records and fail at any        *)
(* request; both feed the device directory; when both are back, every      *)
(* result is classified, and an empty one is probed first.                 *)
(*                                                                         *)
(* A record is its identity, its time in the window, whether it normalises *)
(* to an event, and the address the directory learns from it.  Times are   *)
(* ticks since the start of the requested window.                          *)
(***************************************************************************)
EXTENDS Integers, Sequences, FiniteSets, SequencesExt

CONSTANTS
    Ips,
    Declined,
    Free,
    Length,        \* of the requested window
    Hour,          \* ticks of an hour
    PageSize,      \* what the sources ask for
    MaxPages,      \* the page count at which a pull gives up
    Named,         \* <<role, address>>: the role knows a hostname of it
    DeviceIp,      \* the address of each device LibreNMS manages, or ""
    Instances,     \* bound: the worlds a behaviour may start in (see Init)
    MaxFaults,     \* bound: outages, refused pages and repeated pages
    MaxArrivals    \* bound: records that arrive during the pull

Pihole  == "pihole_dns"
Libre   == "librenms_syslog"
Sources == {Pihole, Libre}
Roles   == {"dns-client", "librenms-managed", "dhcp-client"}

ASSUME FreeAssumption == Free \notin Sources

ASSUME WindowAssumption ==
    /\ {Length, Hour, PageSize} \subseteq Nat \ {0} /\ Length >= Hour
    /\ MaxPages \in Nat
    /\ Pihole \notin DOMAIN DeviceIp

\* LibreNMS lists each device it manages once, the operator names some of those,
\* none twice, every record has an identity, Pi-hole's log is in order, the newest
\* first, and max_window_hours, its reach, is a whole number of hours.
ASSUME InstancesAssumption ==
    \A w \in Instances :
        /\ w.cap \in Nat
        /\ w.reach \in Nat /\ w.reach >= Hour
        /\ w.logs = [d \in {Pihole} \cup DOMAIN DeviceIp |-> w.logs[d]]
        /\ \A d \in DOMAIN w.logs :
            /\ w.logs[d] \in Seq(Range(w.logs[d]))
            /\ \A r \in Range(w.logs[d]) : r.t \in Int
        /\ \A i, j \in DOMAIN w.logs[Pihole] :
            i < j => w.logs[Pihole][i].t >= w.logs[Pihole][j].t
        /\ w.managed \in Seq(DOMAIN DeviceIp) /\ Range(w.managed) = DOMAIN DeviceIp
        /\ w.explicit \in Seq(DOMAIN DeviceIp)
        /\ \A listed \in {w.managed, w.explicit} : \A i, j \in DOMAIN listed :
            listed[i] = listed[j] => i = j
        /\ \A d, e \in DOMAIN w.logs :
            \A i \in DOMAIN w.logs[d], j \in DOMAIN w.logs[e] :
                w.logs[d][i] = w.logs[e][j] => d = e /\ i = j

VARIABLES
    \* the services
    log,        \* what each feed holds, in the order it serves it
    reachable,  \* whether each service answers
    world,      \* the instance: credentials, page cap, reach, filter, devices
    faults,
    arrivals,
    \* the pulls
    pc,         \* where each source's thread is
    devices,    \* LibreNMS: devices still to be pulled
    offset,     \* of the pull of the current feed
    pages,      \* pages fetched of it
    total,      \* Pi-hole: recordsFiltered; LibreNMS: sum over devices done
    batch,      \* LibreNMS: events of the current device
    seen,       \* records collected so far, by identity
    result,     \* the CollectionResult of each source
    \* the device directory
    filled, heard, holder, queue, hand,
    \* verification
    asks,       \* the probe requests still to be made of an empty source
    probes,     \* what those made so far returned
    health,     \* the state each source was given
    \* history
    cut         \* services that were unreachable at a request

services  == <<log, reachable, world, faults, arrivals>>
pull      == <<devices, offset, pages, total, batch, seen>>
entries   == <<filled, heard, holder, hand>>
directory == <<entries, queue>>
verdict   == <<asks, probes, health>>
vars      == <<services, pc, pull, result, directory, verdict, cut>>

Directory == INSTANCE DeviceDirectory WITH Threads <- Sources

Promise == INSTANCE DirectoryPromise
    WITH Fields <- {"hostname", "mac"}, Values <- Roles, Empty <- "",
         Contributors <- Roles, filled <- filled, heard <- heard

-----------------------------------------------------------------------------
(* The services *)

InWindow(r, from) == from <= r.t /\ r.t <= Length

\* Of a log the records from then on, in its order.  (A recursive function, for
\* the proofs, which cannot look into SelectSeq.)
Window(records, from) ==
    LET kept[n \in 0..Len(records)] ==
            IF n = 0 THEN <<>>
            ELSE IF InWindow(records[n], from) THEN Append(kept[n - 1], records[n])
            ELSE kept[n - 1]
    IN  kept[Len(records)]

\* What a time filter lets through.
Filtered(d, from) == IF world.filters THEN Window(log[d], from) ELSE <<>>

\* effective_window: Pi-hole is asked for no more than its reach.
Begin(d) == IF d = Pihole /\ Length > world.reach THEN Length - world.reach ELSE 0

\* The log a source asks for.
Feed(d) == Filtered(d, Begin(d))

Answers(s) == reachable[s] /\ s \in world.trusted

\* A page as the service serves it: from `start`, cut to its own cap; nothing
\* after the first page from a service that does not know `start`.
PageAt(d, start) ==
    IF start > 0 /\ ~world.cursor THEN <<>>
    ELSE SubSeq(Feed(d), start + 1, Min({start + PageSize, start + world.cap,
                                      Len(Feed(d))}))

Fault == faults < MaxFaults /\ faults' = faults + 1

\* What a page request returns: the page; or, once in a while, the first page
\* again or an empty one.
Served(d, start, page) ==
    \/ page = PageAt(d, start) /\ UNCHANGED faults
    \/ page \in {PageAt(d, 0), <<>>} /\ page # PageAt(d, start) /\ Fault

\* A service stops answering, or answers again.
Outage(s) ==
    /\ reachable[s]
    /\ Fault
    /\ reachable' = [reachable EXCEPT ![s] = FALSE]
    /\ UNCHANGED <<log, world, arrivals, pc, pull, result, directory, verdict, cut>>

Recover(s) ==
    /\ ~reachable[s]
    /\ reachable' = [reachable EXCEPT ![s] = TRUE]
    /\ UNCHANGED <<log, world, faults, arrivals, pc, pull, result, directory,
                   verdict, cut>>

\* Pi-hole's in-memory log drops its oldest record.  It serves the newest
\* first, so that is the last one.
Expire ==
    /\ Fault
    /\ log[Pihole] # <<>>
    /\ log' = [log EXCEPT ![Pihole] = Front(@)]
    /\ UNCHANGED <<reachable, world, arrivals, pc, pull, result, directory,
                   verdict, cut>>

\* A line with a time in the window reaches LibreNMS late; it is served first
\* or last.
Arrive(d) ==
    /\ arrivals < MaxArrivals
    /\ arrivals' = arrivals + 1
    /\ LET r == [id |-> <<"late", arrivals>>, t |-> Length, ok |-> TRUE, ip |-> ""]
       IN  \E new \in {Append(log[d], r), <<r>> \o log[d]} :
               log' = [log EXCEPT ![d] = new]
    /\ UNCHANGED <<reachable, world, faults, pc, pull, result, directory,
                   verdict, cut>>

-----------------------------------------------------------------------------
(* What both pulls share *)

At(s, p)   == pc[s] = p
Goto(s, p) == pc' = [pc EXCEPT ![s] = p]

\* Note an unreachable service, for the properties.
Note(s) == cut' = IF reachable[s] THEN cut ELSE cut \cup {s}

\* A result that carries no data because the pull could not begin or failed.
Nothing(s) == [events |-> {}, reported |-> 0, complete |-> TRUE, errors |-> TRUE,
               from |-> Begin(s)]

\* Leave the pull with a result.
Return(s, r) ==
    /\ result' = [result EXCEPT ![s] = r]
    /\ Goto(s, "pulled")

Normalised(records) == {r \in records : r.ok}

\* Directory updates wait in the thread's queue; the thread makes them all
\* before it goes on.
Enqueue(s, updates) ==
    queue' = [queue EXCEPT ![s] = Directory!Wanted(updates)]

\* What a role knows of an address: a lease always names the MAC.
Known(role, ip) ==
    {f \in {"hostname", "mac"} :
        \/ f = "hostname" /\ <<role, ip>> \in Named
        \/ f = "mac" /\ role = "dhcp-client"}

Learning(s) ==
    /\ pc[s] \in {"clients", "managed", "leases"}
    /\ Directory!Learn(s)
    /\ UNCHANGED <<services, pc, pull, result, verdict, cut>>

-----------------------------------------------------------------------------
(* PiholeDNSSource.collect *)

\* The window's count is asked for once, with one record.
PiholeAuthenticate ==
    /\ At(Pihole, "start")
    /\ Note(Pihole)
    /\ IF Answers(Pihole)
       THEN Goto(Pihole, "count") /\ UNCHANGED result
       ELSE Return(Pihole, Nothing(Pihole))
    /\ UNCHANGED <<services, pull, directory, verdict>>

\* The oldest record in memory, which may be younger than the window.
Earliest == IF log[Pihole] = <<>> THEN 0 ELSE Last(log[Pihole]).t

Broken == [Nothing(Pihole) EXCEPT !.complete = FALSE]

PiholeCount ==
    /\ At(Pihole, "count")
    /\ Note(Pihole)
    /\ IF reachable[Pihole] /\ Earliest < Length
       THEN /\ total' = [total EXCEPT ![Pihole] = Len(Feed(Pihole))]
            /\ result' = [result EXCEPT ![Pihole].from =
                              IF Earliest > Begin(Pihole) THEN Earliest
                              ELSE Begin(Pihole)]
            /\ Goto(Pihole, "page")
       ELSE Return(Pihole, Broken) /\ UNCHANGED total
    /\ UNCHANGED <<services, devices, offset, pages, batch, seen, directory,
                   verdict>>

\* Leave the loop over pages: what was seen becomes the result.
PiholeStop(records, complete) ==
    /\ result' = [result EXCEPT ![Pihole] =
                      [events |-> Normalised(records), reported |-> total[Pihole],
                       complete |-> complete, errors |-> ~complete, from |-> @.from]]
    /\ Enqueue(Pihole, {[ip |-> r.ip, role |-> "dns-client",
                         known |-> Known("dns-client", r.ip)] :
                            r \in {q \in records : q.ip # ""}})
    /\ Goto(Pihole, "clients")
    /\ UNCHANGED entries

PiholePage ==
    /\ At(Pihole, "page")
    /\ offset[Pihole] < total[Pihole]
    /\ reachable[Pihole]
    /\ \E page \in {PageAt(Pihole, offset[Pihole]), PageAt(Pihole, 0), <<>>} :
        /\ Served(Pihole, offset[Pihole], page)
        /\ LET now == seen[Pihole] \cup Range(page) IN
           /\ seen' = [seen EXCEPT ![Pihole] = now]
           /\ pages' = [pages EXCEPT ![Pihole] = @ + 1]
           /\ IF page = <<>> \/ now = seen[Pihole] \/ pages[Pihole] >= MaxPages
              THEN /\ PiholeStop(now, page = <<>>)
                   /\ UNCHANGED offset
              ELSE /\ offset' = [offset EXCEPT ![Pihole] = @ + Len(page)]
                   /\ UNCHANGED <<pc, result, directory>>
    /\ UNCHANGED <<log, reachable, world, arrivals, devices, total, batch,
                   verdict, cut>>

\* A page request that fails discards the pages before it.
PiholePageFails ==
    /\ At(Pihole, "page")
    /\ offset[Pihole] < total[Pihole]
    /\ ~reachable[Pihole]
    /\ Note(Pihole)
    /\ Return(Pihole, [Broken EXCEPT !.from = result[Pihole].from])
    /\ UNCHANGED <<services, pull, directory, verdict>>

PiholeDone ==
    /\ At(Pihole, "page")
    /\ offset[Pihole] >= total[Pihole]
    /\ PiholeStop(seen[Pihole], TRUE)
    /\ UNCHANGED <<services, pull, verdict, cut>>

PiholeReturn ==
    /\ At(Pihole, "clients")
    /\ Directory!Learnt(Pihole)
    /\ Goto(Pihole, "pulled")
    /\ UNCHANGED <<services, pull, result, directory, verdict, cut>>

-----------------------------------------------------------------------------
(* LibreNMSSyslogSource.collect *)

\* _resolve_devices: the configured devices, or every device LibreNMS lists;
\* a failed listing only costs what the list would have told.
Listed == IF Answers(Libre) THEN world.managed ELSE <<>>
Resolved == IF world.explicit # <<>> THEN world.explicit ELSE Listed

LibreDevices ==
    /\ At(Libre, "start")
    /\ Note(Libre)
    /\ IF Resolved = <<>>
       THEN Return(Libre, Nothing(Libre)) /\ UNCHANGED <<devices, directory>>
       ELSE /\ devices' = Resolved
            /\ Enqueue(Libre, {[ip |-> DeviceIp[d], role |-> "librenms-managed",
                                known |-> Known("librenms-managed", DeviceIp[d])] :
                                   d \in {e \in Range(Listed) : DeviceIp[e] # ""}})
            /\ Goto(Libre, "managed")
            /\ UNCHANGED <<result, entries>>
    /\ UNCHANGED <<services, offset, pages, total, batch, seen, verdict>>

LibreManaged ==
    /\ At(Libre, "managed")
    /\ Directory!Learnt(Libre)
    /\ Goto(Libre, "page")
    /\ UNCHANGED <<services, pull, result, directory, verdict, cut>>

\* Slip: the loop relies on the reported total alone.
LastPageByTotal(page, reported) == offset[Libre] + Len(page) >= reported

\* The total drifts while the device logs, so a short page ends the loop too.
LastPage(page, reported) ==
    \/ Len(page) < PageSize
    \/ offset[Libre] + Len(page) >= reported
    \/ pages[Libre] >= MaxPages

\* Slip: the offset of the last device is kept.
NextDeviceSameOffset ==
    /\ devices' = Tail(devices)
    /\ UNCHANGED offset
    /\ pages' = [pages EXCEPT ![Libre] = 0]
    /\ batch' = {}

\* The next device, from its first page on.
NextDevice ==
    /\ devices' = Tail(devices)
    /\ offset' = [offset EXCEPT ![Libre] = 0]
    /\ pages' = [pages EXCEPT ![Libre] = 0]
    /\ batch' = {}

\* _collect_device, one request.
LibrePage ==
    /\ At(Libre, "page")
    /\ devices # <<>>
    /\ Answers(Libre)
    /\ LET d == Head(devices)
           reported == Len(Feed(d))
       IN  \E page \in {PageAt(d, offset[Libre]), PageAt(d, 0), <<>>} :
            /\ Served(d, offset[Libre], page)
            /\ IF LastPage(page, reported)
               THEN /\ NextDevice
                    /\ total' = [total EXCEPT ![Libre] = @ + reported]
                    /\ seen' = [seen EXCEPT ![Libre] =
                                    @ \cup batch \cup Normalised(Range(page))]
               ELSE /\ batch' = batch \cup Normalised(Range(page))
                    /\ offset' = [offset EXCEPT ![Libre] = @ + Len(page)]
                    /\ pages' = [pages EXCEPT ![Libre] =
                                     IF @ <= MaxPages THEN @ + 1 ELSE @]
                    /\ UNCHANGED <<devices, total, seen>>
    /\ UNCHANGED <<log, reachable, world, arrivals, pc, result, directory,
                   verdict, cut>>

\* A failed request, a 401 included, gives the device up and notes an error.
LibrePageFails ==
    /\ At(Libre, "page")
    /\ devices # <<>>
    /\ ~Answers(Libre)
    /\ Note(Libre)
    /\ NextDevice
    /\ result' = [result EXCEPT ![Libre].errors = TRUE]
    /\ UNCHANGED <<services, pc, total, seen, directory, verdict>>

\* All devices done: the events are combined and the leases among them feed
\* the directory.
LibreCombine ==
    /\ At(Libre, "page")
    /\ devices = <<>>
    /\ result' = [result EXCEPT ![Libre].events = seen[Libre],
                                ![Libre].reported = total[Libre]]
    /\ Enqueue(Libre, {[ip |-> r.ip, role |-> "dhcp-client",
                        known |-> Known("dhcp-client", r.ip)] :
                           r \in {q \in seen[Libre] : q.ip # ""}})
    /\ Goto(Libre, "leases")
    /\ UNCHANGED <<services, pull, entries, verdict, cut>>

LibreReturn ==
    /\ At(Libre, "leases")
    /\ Directory!Learnt(Libre)
    /\ Goto(Libre, "pulled")
    /\ UNCHANGED <<services, pull, result, directory, verdict, cut>>

-----------------------------------------------------------------------------
(* verify.classify, once every thread of the pool is back *)

Order == <<Libre, Pihole>>   \* plugins are loaded in the order of their names

InLine(s) ==
    /\ \A t \in Sources : pc[t] \notin {"start", "count", "page", "clients",
                                        "managed", "leases"}
    /\ s = Libre \/ health[Libre] # "none"

Span(events) ==
    LET times == {r.t : r \in events} IN Max(times) - Min(times)

\* A hundredth of an hour is let pass.
Clamped(r) == 100 * r.from > Hour

\* Slip: a pull whose pagination ended without complaint is not counted.
ProblemByPagination(r) ==
    \/ ~r.complete
    \/ 100 * Span(r.events) < 85 * (Length - r.from)

\* The integrity gates.  Keys are unique by then, so only the counts of the
\* service, the pagination and the timestamps can tell.
Problem(r) ==
    \/ 50 * (r.reported - Cardinality(r.events)) > r.reported
    \/ ~r.complete
    \/ 100 * Span(r.events) < 85 * (Length - r.from)

Classify(s) ==
    /\ At(s, "pulled")
    /\ InLine(s)
    /\ result[s].events # {}
    /\ health' = [health EXCEPT ![s] =
                     IF Problem(result[s]) \/ Clamped(result[s]) \/ result[s].errors
                     THEN "DEGRADED" ELSE "OK"]
    /\ Goto(s, "judged")
    /\ UNCHANGED <<services, pull, result, directory, asks, probes, cut>>

\* The probe requests of LibreNMS: two of the first device, one of up to two
\* others, and the device list.
LibreAsks ==
    LET controls == SubSeq(Resolved, 2, Min({3, Len(Resolved)}))
    IN  (IF Resolved = <<>> THEN <<>>
         ELSE << <<"all", Head(Resolved)>>, <<"last hour", Head(Resolved)>> >>)
        \o [i \in 1..Len(controls) |-> <<"window", controls[i]>>]
        \o << <<"devices", Libre>> >>

PiholeAsks == << <<"all", Pihole>>, <<"last hour", Pihole>> >>

\* self_test begins: LibreNMS lists its devices, Pi-hole logs in, and a login
\* that fails is its only probe, without the status of the reply.
Suspect(s) ==
    /\ At(s, "pulled")
    /\ InLine(s)
    /\ result[s].events = {}
    /\ Note(s)
    /\ IF s = Pihole /\ ~Answers(s)
       THEN /\ probes' = [probes EXCEPT ![s] = {"no session"}]
            /\ UNCHANGED asks
       ELSE /\ asks' = [asks EXCEPT ![s] = IF s = Pihole THEN PiholeAsks ELSE LibreAsks]
            /\ UNCHANGED probes
    /\ Goto(s, "probe")
    /\ UNCHANGED <<services, pull, result, directory, health>>

\* What a probe counts.
Count(ask) ==
    CASE ask[1] = "all"       -> Len(log[ask[2]])
      [] ask[1] = "window"    -> Len(Feed(ask[2]))
      [] ask[1] = "last hour" -> Len(Filtered(ask[2], Length - Hour))
      [] OTHER                -> Len(world.managed)

Probe(s) ==
    /\ At(s, "probe")
    /\ asks[s] # <<>>
    /\ Note(s)
    /\ probes' = [probes EXCEPT ![s] = @ \cup
                     {IF ~reachable[s] THEN "no answer"
                      ELSE IF s \notin world.trusted THEN "401"
                      ELSE IF Count(Head(asks[s])) > 0 THEN "records" ELSE "no records"}]
    /\ asks' = [asks EXCEPT ![s] = Tail(@)]
    /\ UNCHANGED <<services, pc, pull, result, directory, health>>

\* Slip: a probe that found records proves nothing.
ProveFailureBlindly(found) == found # {} /\ "401" \notin found

\* _probes_prove_failure
ProveFailure(found) == found # {} /\ "records" \notin found /\ "401" \notin found

Conclude(s) ==
    /\ At(s, "probe")
    /\ asks[s] = <<>>
    /\ health' = [health EXCEPT ![s] =
                     IF ProveFailure(probes[s]) THEN "FAILED" ELSE "SUSPECT"]
    /\ Goto(s, "judged")
    /\ UNCHANGED <<services, pull, result, directory, asks, probes, cut>>

-----------------------------------------------------------------------------

\* A world: the initial logs, the services that accept the credentials, the
\* page cap, how far back Pi-hole is asked, whether time filters and page offsets
\* work as the sources write them, and the devices LibreNMS manages and those the
\* operator configured.
Init ==
    /\ world \in Instances
    /\ log = world.logs
    /\ reachable = [s \in Sources |-> TRUE]
    /\ faults = 0
    /\ arrivals = 0
    /\ pc = [s \in Sources |-> "start"]
    /\ devices = <<>>
    /\ offset = [s \in Sources |-> 0]
    /\ pages = [s \in Sources |-> 0]
    /\ total = [s \in Sources |-> 0]
    /\ batch = {}
    /\ seen = [s \in Sources |-> {}]
    /\ result = [s \in Sources |-> [Nothing(s) EXCEPT !.errors = FALSE]]
    /\ Directory!DirInit
    /\ asks = [s \in Sources |-> <<>>]
    /\ probes = [s \in Sources |-> {}]
    /\ health = [s \in Sources |-> "none"]
    /\ cut = {}

PiholePull ==
    \/ PiholeAuthenticate
    \/ PiholeCount
    \/ PiholePage
    \/ PiholePageFails
    \/ PiholeDone
    \/ PiholeReturn

LibrePull ==
    \/ LibreDevices
    \/ LibreManaged
    \/ LibrePage
    \/ LibrePageFails
    \/ LibreCombine
    \/ LibreReturn

Verify(s) == Classify(s) \/ Suspect(s) \/ Probe(s) \/ Conclude(s)

Judged == \A s \in Sources : At(s, "judged")

Services ==
    \/ \E s \in Sources : Outage(s) \/ Recover(s)
    \/ Expire
    \/ \E d \in DOMAIN DeviceIp : Arrive(d)

Next ==
    \/ PiholePull
    \/ LibrePull
    \/ \E s \in Sources : Learning(s) \/ Verify(s)
    \/ ~Judged /\ Services
    \/ Judged /\ UNCHANGED vars

Spec == Init /\ [][Next]_vars

\* Every request has a timeout, so each thread and then the verification go
\* on; nothing is assumed of the services.
FairSpec ==
    /\ Spec
    /\ WF_vars(PiholePull)
    /\ WF_vars(LibrePull)
    /\ \A s \in Sources : WF_vars(Learning(s)) /\ WF_vars(Verify(s))

-----------------------------------------------------------------------------
(* What stages 1 to 4 promise *)

\* The feeds a source pulls.
Feeds(s) ==
    IF s = Pihole THEN {Pihole}
    ELSE Range(IF world.explicit # <<>> THEN world.explicit ELSE world.managed)

\* What the window held when the pull began, and what of it the source can read.
Asked(s) == {r \in UNION {Range(world.logs[d]) : d \in Feeds(s)} :
                 InWindow(r, 0)}
Held(s)  == Normalised(Asked(s))

\* What a source has to have of it.  The first hundredth of an hour may be missing
\* from Pi-hole's log, or be out of its reach, without notice.
Due(s) == {r \in Held(s) : s = Pihole => 100 * r.t > Hour}

\* A source reported as OK has the window that was requested, up to one record in
\* fifty that the service reported: a log or a reach that is too short, capped,
\* repeated and empty pages, devices that failed, records that expired or came in
\* during the pull, or the same record counted twice, never cost more of the data
\* behind an OK.
OkMeansWhole ==
    \A s \in Sources :
        health[s] = "OK" =>
            50 * Cardinality(Due(s) \ result[s].events) <= result[s].reported

\* Nothing went wrong, nothing arrived late, and no feed is too long to be pulled.
Undisturbed(s) ==
    /\ faults = 0 /\ arrivals = 0
    /\ s \in world.trusted /\ world.filters /\ world.cursor
    /\ world.cap >= PageSize
    /\ \A d \in Feeds(s) : Len(Feed(d)) <= MaxPages * PageSize

\* The readable records span the window, as the gates ask, few others are in it,
\* and Pi-hole may be asked for all of it and has a log that goes back that far.
Filled(s) ==
    /\ Held(s) # {} /\ ~ 100 * Span(Held(s)) < 85 * Length
    /\ 50 * Cardinality(Asked(s) \ Held(s)) <= Cardinality(Asked(s))
    /\ s = Pihole =>
        /\ Length <= world.reach
        /\ \E r \in Range(world.logs[Pihole]) : 100 * r.t <= Hour

\* A pull that nothing disturbed, of a window that is filled, is OK: the gates
\* raise no false alarm, on page boundaries in particular.
UndisturbedIsOk ==
    \A s \in Sources :
        health[s] # "none" /\ Undisturbed(s) /\ Filled(s) => health[s] = "OK"

\* A feed that has records is reported as FAILED only after its service really
\* was out of reach, or refused the login: a query whose filter returns
\* nothing never becomes an outage.
FailedIsNoQueryFault ==
    \A s \in Sources :
        /\ health[s] = "FAILED"
        /\ \E d \in Feeds(s) : log[d] # <<>>
        => s \in cut \/ s \notin world.trusted

\* "Authentication is a configuration fault, never an outage."
AuthIsNeverAnOutage ==
    \A s \in Sources :
        health[s] = "FAILED" => s \in world.trusted \/ s \in cut

\* The threads' updates are atomic to each other: no field of the directory,
\* once filled, is changed or emptied, whichever source comes second.
DirectoryKeepsItsPromise == Promise!Spec

\* Both sources are judged in the end, whatever the services serve.
EverySourceIsJudged == <>Judged
=============================================================================
