------------------------------ MODULE History -------------------------------
(***************************************************************************)
(* What one run leaves behind for the next: the entity baseline, the       *)
(* metrics of the last finished run and the latest report files.  Several  *)
(* processes run the pipeline on one database and one output directory,    *)
(* step by step and without a lock between them; the clock goes on during  *)
(* a run.  Runner.run with Baseline and the analyzers that ask it for      *)
(* novelty, and `run --ephemeral` with its clean-up.                       *)
(***************************************************************************)
EXTENDS EntityBaseline, ReportFiles

CONSTANTS
    Batches,    \* Batches[<<p, n>>]: what the n-th run of a process may collect
    Clis,       \* the processes started with run --ephemeral
    Benign,     \* lower-case domains of the profile's benign list
    Internal,   \* addresses of this network
    Hardware,   \* values shaped like a hardware address
    TopN,       \* how many values of a column an analyzer looks at
    MaxRuns,    \* how many runs each process makes
    MaxFaults,  \* how often a run is left, killed or fails to write
    MaxTime

ASSUME BatchesAssumption ==
    \A p \in Processes :
        /\ MaxRuns[p] \in Nat
        /\ \A n \in 1..MaxRuns[p] : \A b \in Batches[<<p, n>>] :
               IsFiniteSet(b) /\ b \subseteq Events

\* The normalisers fill the user column of logons and of leases only.
ASSUME EventsAssumption ==
    \A ev \in Events : ev.user # NoValue => ev.kind \in {"system", "auth"}

\* Lowering a domain twice is lowering it once; the table may hold any form.
ASSUME LowerAssumption ==
    /\ Lower[NoValue] = NoValue
    /\ \A ev \in Events :
        /\ Lower[Lower[ev.domain]] = Lower[ev.domain]
        /\ ev.domain # NoValue => [type |-> "domain", value |-> ev.domain] \in Entity
    /\ \A e \in Entity : e = [type |-> e.type, value |-> e.value]

ASSUME LimitsAssumption == Grace \in Nat /\ TopN \in Nat

ASSUME RunsAssumption == NoRun \notin Processes \X Nat /\ Len(Formats) \in Nat

VARIABLES
    clock,
    pc,         \* the stage each process is in
    begun,      \* runs each process has begun
    faults,     \* runs that failed to end well
    started,    \* the start of its current run
    ephemeral,
    batch,      \* the events the run collected and stored
    fresh,      \* history: the rows this run inserted in the entities table
    report,     \* what the run's analysis announces, and when it asked
    written,    \* formats written so far, or -1 after a write error
    wasLatest,  \* whether the clean-up found its run in latest.json
    finished,   \* finished runs, when they started and whether they measured
    sightings,  \* history: per entity, how often committed runs saw it
    since,      \* history: the time of the commit that recorded it first
    alone       \* history: no other process changed latest files meanwhile

runVars == <<pc, begun, started, ephemeral, batch, fresh, report>>
outVars == <<written, wasLatest, alone>>
vars == <<tableVars, fileVars, clock, faults, runVars, outVars, finished, sightings, since>>

Run(p) == <<p, begun[p]>>
NoReport == [now |-> Never, baseline |-> FALSE, announced |-> {}]

Init ==
    /\ TableInit
    /\ FilesInit
    /\ clock = 0
    /\ pc = [p \in Processes |-> "idle"]
    /\ begun = [p \in Processes |-> 0]
    /\ faults = 0
    /\ started = [p \in Processes |-> 0]
    /\ ephemeral = [p \in Processes |-> FALSE]
    /\ batch = [p \in Processes |-> {}]
    /\ fresh = [p \in Processes |-> {}]
    /\ report = [p \in Processes |-> NoReport]
    /\ written = [p \in Processes |-> 0]
    /\ wasLatest = [p \in Processes |-> FALSE]
    /\ finished = {}
    /\ sightings = [e \in Entity |-> 0]
    /\ since = [e \in Entity |-> Never]
    /\ alone = [p \in Processes |-> TRUE]

Goto(p, from, to) == pc[p] = from /\ pc' = [pc EXCEPT ![p] = to]

Fault == faults < MaxFaults /\ faults' = faults + 1

\* The analysis is done with: its report is rendered, or there will be none.
Forget(p) ==
    /\ batch' = [batch EXCEPT ![p] = {}]
    /\ fresh' = [fresh EXCEPT ![p] = {}]
    /\ report' = [report EXCEPT ![p] = NoReport]

\* The run is over and its process knows nothing of it any more.
Over(p) ==
    /\ pc' = [pc EXCEPT ![p] = "idle"]
    /\ Forget(p)
    /\ started' = [started EXCEPT ![p] = 0]
    /\ ephemeral' = [ephemeral EXCEPT ![p] = FALSE]
    /\ written' = [written EXCEPT ![p] = 0]
    /\ wasLatest' = [wasLatest EXCEPT ![p] = FALSE]
    /\ UNCHANGED <<clock, begun, sightings, since>>

Tick ==
    /\ clock < MaxTime
    /\ clock' = clock + 1
    /\ UNCHANGED <<faults, tableVars, fileVars, runVars, outVars, finished, sightings, since>>

Start(p) ==
    /\ begun[p] < MaxRuns[p]
    /\ Goto(p, "idle", "collect")
    /\ begun' = [begun EXCEPT ![p] = @ + 1]
    /\ started' = [started EXCEPT ![p] = clock]
    /\ ephemeral' = [ephemeral EXCEPT ![p] = p \in Clis]
    /\ UNCHANGED <<faults, tableVars, fileVars, clock, batch, fresh, report, outVars, finished,
                   sightings, since>>

\* Collect and verify; then the events are stored and the rows of what they
\* mention are read.
Collect(p) ==
    /\ Goto(p, "collect", "write")
    /\ \E b \in Batches[Run(p)] :
        /\ batch' = [batch EXCEPT ![p] = b]
        /\ ReadRows(p, b)
    /\ UNCHANGED <<faults, fileVars, clock, begun, started, ephemeral, fresh, report,
                   outVars, finished, sightings, since>>

Write(p) ==
    /\ Goto(p, "write", "analyze")
    /\ WriteRows(p, batch[p], started[p])
    /\ fresh' = [fresh EXCEPT ![p] = Fresh(p, batch[p])]
    /\ sightings' = [e \in Entity |-> sightings[e] + Occurs(batch[p], e)]
    /\ since' = [e \in Entity |-> IF since[e] = Never /\ e \in Mentions(batch[p])
                                  THEN clock ELSE since[e]]
    /\ UNCHANGED <<faults, fileVars, clock, begun, started, ephemeral, batch, report, outVars,
                   finished>>

\* The run's row is finished; an ephemeral run has its clean-up before it.
Close(p, measured) ==
    /\ finished' = finished \cup {[run |-> Run(p), started |-> started[p], measured |-> measured]}
    /\ UNCHANGED fileVars
    /\ \/ ~ ephemeral[p] /\ Over(p) /\ alone' = [alone EXCEPT ![p] = TRUE]
       \/ /\ ephemeral[p]
          /\ pc' = [pc EXCEPT ![p] = "closed"]
          /\ Forget(p)
          /\ UNCHANGED <<clock, begun, started, ephemeral, outVars, sightings, since>>

\* The insert meets a row of another process: the run is finished as failed.
Clash(p) ==
    /\ pc[p] = "write"
    /\ Clashes(p, batch[p])
    /\ DropRows(p)
    /\ Close(p, FALSE)
    /\ UNCHANGED faults

\* --stop-after, and an exception in a stage before the delivery: the run is
\* finished without one.
Leave(p) ==
    /\ pc[p] \in {"collect", "write", "analyze", "deliver"}
    /\ written[p] = 0
    /\ DropRows(p)
    /\ Close(p, pc[p] = "deliver")
    /\ Fault

\* The process is killed: its run is never finished.
Kill(p) ==
    /\ pc[p] # "idle"
    /\ DropRows(p)
    /\ Over(p)
    /\ alone' = [alone EXCEPT ![p] = TRUE]
    /\ UNCHANGED <<fileVars, finished>>
    /\ Fault

\* last_successful_run: the finished run, other than this one, that started last;
\* its metrics are there if it got as far as its analysis.
Prior(p) ==
    {r \in finished : /\ r.run # Run(p)
                      /\ \A other \in finished : other.run # Run(p) => other.started <= r.started}

Named(type, values) == {[type |-> type, value |-> v] : v \in values}

\* _novel_domains: of the domains looked up most often, those not benign.
DomainCandidates(events) ==
    {Named("domain", {d \in T : Lower[d] \notin Benign}) :
        T \in Top(OfKind(events, "dns"), "domain", TopN)}

\* _novel_ips: the sources the firewall saw most, outsiders included, and the
\* clients that looked up most; then those of this network.
ClientCandidates(events) ==
    {Named("ip", (S \cup C) \cap Internal) :
        S \in Top(OfKind(events, "firewall"), "ip", TopN),
        C \in Top(OfKind(events, "dns"), "ip", TopN)}

\* _novel_macs: of the most frequent users, those shaped like an address.
DeviceCandidates(events) ==
    {Named("device", T \cap Hardware) :
        T \in Top(OfKind(events, "system") \cup OfKind(events, "auth"), "user", TopN)}

\* Who logged on, tried to, or succeeded: not the same on every service.
WindowsActions == {"logon_success", "logon_failed", "privileged", "explicit_creds", "lockout"}
_windows_new_account(events) ==
    Named("user", Distinct(WithAction(events, "auth", WindowsActions), "user"))
_ssh_new_account(events) ==
    Named("user", Distinct(WithAction(events, "auth", {"ssh_accepted"}), "user"))
AccountCandidates(events) == _windows_new_account(events) \cup _ssh_new_account(events)

\* Novelty is a signal only when there is something to compare with.
Announce(baseline, candidates, now) == IF baseline THEN Novel(candidates, now) ELSE {}

Analyse(p) ==
    /\ Goto(p, "analyze", "deliver")
    /\ \E d \in DomainCandidates(batch[p]), c \in ClientCandidates(batch[p]),
          m \in DeviceCandidates(batch[p]), prior \in {r.measured : r \in Prior(p)} \cup
                    (IF Prior(p) = {} THEN {FALSE} ELSE {}) :
        report' = [report EXCEPT ![p] =
            [now |-> clock, baseline |-> prior,
             announced |-> Announce(prior, d \cup c \cup m \cup AccountCandidates(batch[p]),
                                    clock)]]
    /\ UNCHANGED <<faults, tableVars, fileVars, clock, begun, started, ephemeral, batch, fresh,
                   outVars, finished, sightings, since>>

\* The file output writes a format's dated file, which is of no concern to any
\* other run, and its latest file.
Alone(p) ==
    [q \in Processes |-> alone[q] /\ (q = p \/ ~ ephemeral[q] \/ written[q] = 0)]

Emit(p) ==
    /\ pc[p] = "deliver"
    /\ written[p] \in 0..(Len(Formats) - 1)
    /\ WriteFormat(Run(p), Formats[written[p] + 1])
    /\ alone' = Alone(p)
    /\ written' = [written EXCEPT ![p] = @ + 1]
    /\ Forget(p)
    /\ UNCHANGED <<faults, tableVars, clock, pc, begun, started, ephemeral, wasLatest, finished,
                   sightings, since>>

\* A write fails, of either file: the delivery is reported as failed and the
\* run goes on.
EmitFails(p) ==
    /\ pc[p] = "deliver"
    /\ written[p] \in 0..(Len(Formats) - 1)
    /\ WriteReport(Run(p), Formats[written[p] + 1]) \/ UNCHANGED fileVars
    /\ written' = [written EXCEPT ![p] = -1]
    /\ Forget(p)
    /\ Fault
    /\ UNCHANGED <<tableVars, clock, pc, begun, started, ephemeral, wasLatest, alone,
                   finished, sightings, since>>

Finish(p) ==
    /\ pc[p] = "deliver"
    /\ written[p] \in {-1, Len(Formats)}
    /\ Close(p, TRUE)
    /\ UNCHANGED <<faults, tableVars>>

\* _cleanup_ephemeral_run: the rows and the run's dated files go, which nobody
\* else looks for; then latest.json is read, ...
CleanRows(p) ==
    /\ Goto(p, "closed", "cleanLatest")
    /\ finished' = {r \in finished : r.run # Run(p)}
    /\ UnlinkReports(Run(p))
    /\ wasLatest' = [wasLatest EXCEPT ![p] = IsLatest(Run(p))]
    /\ UNCHANGED <<faults, tableVars, clock, begun, started, ephemeral, batch, fresh, report,
                   written, alone, sightings, since>>

\* ... and all latest files are removed if it was this run's.
CleanLatest(p) ==
    /\ pc[p] = "cleanLatest"
    /\ UnlinkLatest(wasLatest[p])
    /\ alone' = [(IF wasLatest[p] THEN Alone(p) ELSE alone) EXCEPT ![p] = TRUE]
    /\ Over(p)
    /\ UNCHANGED <<faults, tableVars, finished>>

Step(p) ==
    \/ Start(p) \/ Collect(p) \/ Write(p) \/ Clash(p) \/ Leave(p) \/ Kill(p)
    \/ Analyse(p) \/ Emit(p) \/ EmitFails(p) \/ Finish(p)
    \/ CleanRows(p) \/ CleanLatest(p)

\* Every process has made its runs.
Rest ==
    /\ \A p \in Processes : pc[p] = "idle" /\ begun[p] = MaxRuns[p]
    /\ UNCHANGED vars

Next == Tick \/ (\E p \in Processes : Step(p)) \/ Rest
Spec == Init /\ [][Next]_vars

----------------------------------------------------------------------------
\* The row a value is stored under: domains are lowered, nothing else is.
Stored(a) == IF a.type = "domain" THEN [a EXCEPT !.value = Lower[@]] ELSE a

\* What the docs promise novelty signals for, without the analyzers' limits:
\* domains, clients of this network, devices, and accounts that logged on.
Reportable(events) ==
    {e \in Mentions(events) :
        \/ e.type = "domain" /\ e.value \notin Benign
        \/ /\ e.type = "ip" /\ e.value \in Internal
           /\ \E ev \in events : ev.ip = e.value /\ ev.kind \in {"dns", "firewall"}
        \/ e.type = "device" /\ e.value \in Hardware
        \/ /\ e.type = "user"
           /\ \E ev \in events : /\ ev.user = e.value /\ ev.kind = "auth"
                                 /\ ev.action \in WindowsActions \cup {"ssh_accepted"}}

\* No analyzer had to leave values of this type out.
Fits(events, type) ==
    LET few(of, col) == Cardinality(Distinct(of, col)) <= TopN
    IN  CASE type = "domain" -> few(OfKind(events, "dns"), "domain")
          [] type = "ip" -> few(OfKind(events, "dns"), "ip") /\ few(OfKind(events, "firewall"), "ip")
          [] type = "device" -> few(OfKind(events, "system") \cup OfKind(events, "auth"), "user")
          [] type = "user" -> TRUE

\* What is new is announced: whatever a run is the first to record, and novelty
\* is promised for, its own report announces, provided that there is a baseline,
\* that no analyzer's limit cut the values off and that the run took no longer
\* than the grace from its start to its analysis.  No other run ever would.
NewIsAnnounced ==
    \A p \in Processes :
        report[p].baseline /\ report[p].now - started[p] <= Grace =>
            \A e \in fresh[p] \cap Reportable(batch[p]) :
                Fits(batch[p], e.type) => \E a \in report[p].announced : Stored(a) = e

\* What is old stays quiet: nothing is announced as new that a run of any
\* process had recorded more than the grace before, for values that have a row
\* in the form in which they are asked for.
OldIsQuiet ==
    \A p \in Processes : \A a \in report[p].announced :
        a \in Mentions(batch[p]) => report[p].now - since[a] <= Grace

\* The table counts what runs saw: an entity has a row exactly when a run that
\* committed saw it, and never more occurrences than those runs had of it.
\* (Two processes can lose some of each other's.)
CountsAreBacked ==
    \A e \in Entity :
        /\ Known(e) <=> sightings[e] > 0
        /\ entities[e].count <= sightings[e]

\* The clean-up of an ephemeral run, when no other process has changed the latest
\* files since the run's first write: it removes the latest files of no other
\* run, provided that latest.json would have been written last or that all or
\* none of them were written, and leaves nothing of a run whose delivery was
\* complete.  (Once another process has written, latest.json says nothing about
\* whose the other latest files are.)
CleanupIsExact ==
    [][\A p \in Processes :
        CleanLatest(p) /\ alone[p] =>
            /\ \/ written[p] \in {0, Len(Formats)}
               \/ \A i \in 1..Len(Formats) : Formats[i] = "json" => i = Len(Formats)
               => \A f \in Format : latest[f] \in {latest'[f], Run(p)}
            /\ written[p] = Len(Formats) /\ "json" \in Format => LeftOf(Run(p))' = {}]_vars
=============================================================================
