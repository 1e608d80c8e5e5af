------------------------------- MODULE Canary -------------------------------
(***************************************************************************)
(* The detection self-test: canary.py, the two analyzers it exercises, and *)
(* the stages of Runner.run that inject, exclude, verify and roll it up.   *)
(*                                                                         *)
(* A process runs one run after another with one CanaryRunner, whose       *)
(* tokens it keeps between runs.  Real traffic is a set of behaviours, a   *)
(* behaviour being what one signal would report.                           *)
(***************************************************************************)
EXTENDS Naturals

CONSTANTS
    Ports,       \* destination ports of the real sustained probes
    WindowHours, \* windows runs are started with
    MaxRuns      \* bound: runs

\* Taxonomy and event kind of each canary, and the analyzer that must see it.
Canaries == {"dns_beacon", "persistent_prober"}
expect_taxonomy ==
    [dns_beacon |-> "c2.beacon_candidate", persistent_prober |-> "scan.persistent_prober"]
requires_kinds == [dns_beacon |-> "dns", persistent_prober |-> "firewall"]
Kinds == {"dns", "firewall"}

\* The reserved names, and the port the prober canary knocks on.
CANARY_ENTITIES ==
    [dns_beacon |-> {"CANARY_DOMAIN", "CANARY_CLIENT"},
     persistent_prober |-> {"CANARY_SRC", "22"}]

\* What a signal says; a canary's own behaviour is like a real one.
Behaviour(kind, taxonomy, entities) ==
    [kind |-> kind, taxonomy |-> taxonomy, entities |-> entities]
Synthetic(c) == Behaviour(requires_kinds[c], expect_taxonomy[c], CANARY_ENTITIES[c])
RealBehaviours ==
    {Behaviour("dns", "c2.beacon_candidate", {"client", "domain"})}
    \cup {Behaviour("firewall", "scan.persistent_prober", {"attacker", p}) : p \in Ports}

Behaviours == RealBehaviours \cup {Synthetic(c) : c \in Canaries}
Taxonomies == {b.taxonomy : b \in Behaviours}

ASSUME BoundsAssumption ==
    /\ WindowHours \subseteq Nat \ {0}
    /\ MaxRuns \in Nat

-----------------------------------------------------------------------------
(* What the analyzers make of a canary's events in a window of that length *)

Minimum(a, b) == IF a < b THEN a ELSE b

\* BeaconCanary: up to 60 queries, one every 300 s, placed to end 5 minutes
\* before the window does, cut off at its end.
SAMPLES == 60
INTERVAL_SECONDS == 300
BeaconSamples(hours) ==
    LET seconds == hours * 3600
        span    == INTERVAL_SECONDS * SAMPLES
        room    == IF seconds > span + 300 THEN span + 300 ELSE seconds
    IN  Minimum(SAMPLES, (room + INTERVAL_SECONDS - 1) \div INTERVAL_SECONDS)

\* beacon_score: enough samples over enough time.
BeaconSeen(hours) ==
    /\ BeaconSamples(hours) >= 12
    /\ (BeaconSamples(hours) - 1) * INTERVAL_SECONDS >= 3 * 3600

\* ProberCanary: 400 drops spread over six hours or the window.
HITS == 400
ProberSpan(hours) == (Minimum(6, hours) * 3600 * (HITS - 1)) \div HITS

\* firewall_patterns: two hours or more, in hundredths of an hour, rounded.
ProberSeen(hours) == (ProberSpan(hours) + 18) \div 36 >= 200

Noticeable(c, hours) ==
    IF c = "dns_beacon" THEN BeaconSeen(hours) ELSE ProberSeen(hours)

-----------------------------------------------------------------------------

VARIABLES
    stage,    \* of the current run
    run,      \* its number
    hours,    \* its window
    kinds,    \* event kinds its sources supplied
    real,     \* behaviours in its real events
    broken,   \* taxonomies the analyzer chain cannot produce in this run
    tokens,   \* CanaryRunner.tokens: canaries with a token
    injected, \* canaries whose events this run stored
    signals,  \* signals of the real analysis, each with its is_canary mark
    counted,  \* behaviours in the reported statistics
    results,  \* canary -> detected
    status    \* the report's status

SelfTestVars ==
    <<stage, run, hours, kinds, real, broken, tokens, injected, signals, counted,
      results, status>>
input == <<run, hours, kinds, real, broken>>

Stages == {"idle", "persist", "analyze", "verify", "adjudicate"}
NoResults == [c \in {} |-> TRUE]
Results == UNION {[s -> BOOLEAN] : s \in SUBSET Canaries}
Rollups == {"", "GREEN", "RED"}

SelfTestTypes ==
    /\ stage \in Stages
    /\ run \in 0..MaxRuns
    /\ hours \in WindowHours
    /\ kinds \subseteq Kinds
    /\ real \subseteq RealBehaviours
    /\ broken \subseteq Taxonomies
    /\ tokens \subseteq Canaries
    /\ injected \subseteq Canaries
    /\ signals \in [Behaviours -> {"none", "real", "canary"}]
    /\ counted \subseteq Behaviours
    /\ results \in Results
    /\ status \in Rollups

NoSignals == [b \in Behaviours |-> "none"]

SelfTestInit ==
    /\ stage = "idle"
    /\ run = 0
    /\ hours \in WindowHours
    /\ kinds = {} /\ real = {} /\ broken = {}
    /\ tokens = {} /\ injected = {}
    /\ signals = NoSignals
    /\ counted = {}
    /\ results = NoResults
    /\ status = ""

\* A run collects what its sources have: all of them or those an MCP client
\* asked for.  Analyzers may be disabled, may raise or may have a bug.
Collect ==
    /\ stage = "idle"
    /\ run < MaxRuns
    /\ run' = run + 1
    /\ hours' \in WindowHours
    /\ kinds' \in SUBSET Kinds
    /\ real' \in SUBSET {b \in RealBehaviours : b.kind \in kinds'}
    /\ broken' \in SUBSET Taxonomies
    /\ injected' = {} /\ signals' = NoSignals /\ counted' = {}
    /\ results' = NoResults /\ status' = ""
    /\ stage' = "persist"
    /\ UNCHANGED tokens

\* A canary applies when a source supplied events of its kind.
applicable(ks) == {c \in Canaries : requires_kinds[c] \in ks}

\* CanaryRunner.inject and insert_events: a canary that applies gets a token;
\* tokens of earlier runs stay.  The token is set before the events are
\* stored, and that may fail.
Inject ==
    /\ stage = "persist"
    /\ tokens' = tokens \cup applicable(kinds)
    /\ \/ injected' = applicable(kinds) /\ stage' = "analyze"
       \/ UNCHANGED injected /\ stage' = "idle"
    /\ UNCHANGED <<input, signals, counted, results, status>>

\* EventQuery(exclude_sources={CANARY_SOURCE}).
RealEvents == real

entity_values == UNION {CANARY_ENTITIES[c] : c \in tokens}

\* _analyze with mark_signals: a signal that names an entity of any token is
\* marked as a canary's.
Analyze ==
    /\ stage = "analyze"
    /\ counted' = RealEvents
    /\ signals' = [b \in Behaviours |->
           IF b \notin RealEvents \/ b.taxonomy \in broken THEN "none"
           ELSE IF b.entities \cap entity_values # {} THEN "canary"
           ELSE "real"]
    /\ stage' = "verify"
    /\ UNCHANGED <<input, tokens, injected, results, status>>

\* Slip: the self-test reads the events of the real analysis instead.
CanarySignalsOfRealEvents == {b \in Behaviours : signals[b] # "none"}

\* Slip: the canary events are not restricted to this run.
CanarySignalsOfAnyRun ==
    {Synthetic(c) : c \in {d \in tokens :
        expect_taxonomy[d] \notin broken /\ Noticeable(d, hours)}}

\* The second pass, over the canary events of this run alone ...
CanarySignals ==
    {Synthetic(c) : c \in {d \in injected :
        expect_taxonomy[d] \notin broken /\ Noticeable(d, hours)}}

\* ... and assert_detected for every canary with a token: a signal of its
\* taxonomy that names one of its entities.
Verify ==
    /\ stage = "verify"
    /\ results' = [c \in tokens |->
           \E s \in CanarySignals :
               /\ s.taxonomy = expect_taxonomy[c]
               /\ s.entities \cap CANARY_ENTITIES[c] # {}]
    /\ stage' = "adjudicate"
    /\ UNCHANGED <<input, tokens, injected, signals, counted, status>>

\* Slip: one canary detected is enough.
rollupAny(res) ==
    IF DOMAIN res = {} \/ \E c \in DOMAIN res : res[c] THEN "GREEN" ELSE "RED"

\* Adjudicator.rollup as far as canaries go, for a run without findings.
rollup(res) == IF \A c \in DOMAIN res : res[c] THEN "GREEN" ELSE "RED"

Adjudicate ==
    /\ stage = "adjudicate"
    /\ status' = rollup(results)
    /\ stage' = "idle"
    /\ UNCHANGED <<input, tokens, injected, signals, counted, results>>

\* An exception in any stage ends the run; Runner and its tokens live on.
Crash ==
    /\ stage \notin {"idle", "persist"}
    /\ stage' = "idle"
    /\ UNCHANGED <<input, tokens, injected, signals, counted, results, status>>

\* The process ends between runs: the next one starts without tokens.
Restart ==
    /\ stage = "idle"
    /\ tokens # {}
    /\ tokens' = {}
    /\ UNCHANGED <<stage, input, injected, signals, counted, results, status>>

\* Only in a bounded instance: the process does not start a run again.
OutOfRuns ==
    /\ stage = "idle"
    /\ run = MaxRuns
    /\ tokens = {}
    /\ UNCHANGED SelfTestVars

SelfTestNext ==
    \/ Collect
    \/ Inject
    \/ Analyze
    \/ Verify
    \/ Adjudicate
    \/ Crash
    \/ Restart
    \/ OutOfRuns

SelfTestSpec == SelfTestInit /\ [][SelfTestNext]_SelfTestVars

-----------------------------------------------------------------------------

\* A canary counts as detected only when its own events of this very run went
\* through an analyzer that works: neither real traffic with the same taxonomy
\* and port nor an earlier run can vouch for it.
DetectedMeansDetected ==
    \A c \in DOMAIN results :
        results[c] => c \in injected /\ expect_taxonomy[c] \notin broken

\* A run whose injected canary met a broken analyzer is never GREEN, whatever
\* the other canary did.
BrokenIsNeverGreen ==
    status = "GREEN" =>
        \A c \in injected : expect_taxonomy[c] \notin broken

\* When a canary failed, its analyzer is broken, or the window is too short
\* for the pattern, or the token is an earlier run's.
FailureIsExplained ==
    \A c \in DOMAIN results :
        ~results[c] =>
            \/ expect_taxonomy[c] \in broken
            \/ ~Noticeable(c, hours)
            \/ c \notin injected /\ requires_kinds[c] \notin kinds

\* A real behaviour that an analyzer saw is never taken for a canary's.
RealSignalsSurvive ==
    \A b \in RealBehaviours : signals[b] # "canary"
=============================================================================
