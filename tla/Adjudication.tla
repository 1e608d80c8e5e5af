----------------------------- MODULE Adjudication -----------------------------
(***************************************************************************)
(* Adjudication: adjudicate.py, the suppressions of store.py, and the      *)
(* commands of cli.py that edit them while runs go on.                     *)
(*                                                                         *)
(* What a suppression can match of a finding (its taxonomy, its entities,  *)
(* the words of its title) is a set of marks.                              *)
(***************************************************************************)
EXTENDS Integers, Sequences, FiniteSets

CONSTANTS
    Signals,      \* ids of analyzer signals
    hint,         \* signal -> its severity_hint
    Marks,        \* values a suppression can match
    Submissions,  \* bound: what the model submits as a finding
    Matchers,     \* bound: matchers the command line is given
    Days,         \* bound: values of --days
    MaxFindings,  \* bound: findings of a run
    MaxIds        \* bound: suppressions ever made

SUSPECTED == -1
INFO == 0
LOW == 1
MEDIUM == 2
HIGH == 3
CRITICAL == 4
Severity == SUSPECTED .. CRITICAL

EvidenceKinds ==
    {"local_behavior", "baseline_delta", "correlation", "policy_violation", "reputation"}
LOCAL_EVIDENCE == EvidenceKinds \ {"reputation"}

\* A raw finding: the signals it cites, whether one of the events it cites is
\* a real one of this run, and what it asks for.
Submission ==
    [title : BOOLEAN, signal_ids : SUBSET Signals, event : BOOLEAN,
     evidence_kinds : SUBSET EvidenceKinds, severity : Severity, marks : SUBSET Marks]

\* A max_severity that is missing or names no severity bounds nothing.
Unbounded == CRITICAL + 1
Matcher == [needs : SUBSET Marks, max_severity : Severity \cup {Unbounded}]

ASSUME SubmissionsAssumption ==
    /\ hint \in [Signals -> INFO .. CRITICAL]
    /\ Submissions \subseteq Submission
    /\ MaxFindings \in Nat

ASSUME SuppressionsAssumption ==
    /\ Matchers \subseteq Matcher
    /\ Days \subseteq Nat
    /\ MaxIds \in Nat

-----------------------------------------------------------------------------
(* What becomes of a raw finding in a run with the signals known *)

StrongestHint(cited) ==
    CHOOSE h \in {hint[s] : s \in cited} : \A s \in cited : hint[s] <= h

Clamped(requested, strongest) ==
    IF requested > strongest + 1 THEN strongest + 1 ELSE requested

OnReputation(kinds) ==
    "reputation" \in kinds /\ kinds \cap (LOCAL_EVIDENCE \ {"baseline_delta"}) = {}

\* Who asks for no rating gets the strongest hint as it is: the rule on
\* reputation is one for those who ask.
_rate(requested, cited, kinds) ==
    LET severity == Clamped(requested, StrongestHint(cited))
    IN  IF requested = SUSPECTED THEN StrongestHint(cited)
        ELSE IF severity = CRITICAL /\ OnReputation(kinds) THEN HIGH
        ELSE severity

kinds_of(raw) ==
    IF raw.evidence_kinds = {} THEN {"local_behavior"} ELSE raw.evidence_kinds

Accepted(raw, known) ==
    /\ raw.title
    /\ raw.signal_ids \cap known # {} \/ raw.event
    /\ kinds_of(raw) \cap LOCAL_EVIDENCE # {}

\* Slip: a finding from raw events is rated as the model asks.
_build_one_rates_events(raw, known) ==
    LET valid == raw.signal_ids \cap known
    IN  [severity |-> IF valid = {} THEN raw.severity
                      ELSE _rate(raw.severity, valid, kinds_of(raw)),
         signal_ids |-> valid, evidence_kinds |-> kinds_of(raw), marks |-> raw.marks]

_build_one(raw, known) ==
    LET valid == raw.signal_ids \cap known
    IN  [severity |-> IF valid = {} THEN SUSPECTED
                      ELSE _rate(raw.severity, valid, kinds_of(raw)),
         signal_ids |-> valid, evidence_kinds |-> kinds_of(raw), marks |-> raw.marks]

Finding ==
    [severity : Severity, signal_ids : SUBSET Signals,
     evidence_kinds : SUBSET EvidenceKinds, marks : SUBSET Marks]

-----------------------------------------------------------------------------

VARIABLES
    stage,        \* of the current run
    signals,      \* its signals
    findings,     \* its findings, F1, F2, ...
    hidden,       \* number of a suppressed finding -> what suppressed it
    canaries_ok,  \* outcome of its self-test
    status,       \* of its report
    suppressions, \* the rows of the table
    made          \* ids given out

vars == <<stage, signals, findings, hidden, canaries_ok, status, suppressions, made>>
report == <<signals, findings, hidden, canaries_ok, status>>
table == <<suppressions, made>>

\* The days left of a row: 0 when it expired, Never when it does not.
Never == -1
Suppression ==
    [id : Nat, needs : SUBSET Marks, max_severity : Severity \cup {Unbounded},
     left : Nat \cup {Never}]

Stages == {"idle", "build", "suppress", "rollup"}
Statuses == {"none", "GREEN", "AMBER", "RED"}
NothingHidden == [i \in {} |-> {}]

TypeOK ==
    /\ stage \in Stages
    /\ signals \subseteq Signals
    /\ findings \in Seq(Finding) /\ Len(findings) <= MaxFindings
    /\ DOMAIN hidden \subseteq DOMAIN findings
    /\ \A i \in DOMAIN hidden : hidden[i] \in Suppression
    /\ canaries_ok \in BOOLEAN
    /\ status \in Statuses
    /\ suppressions \subseteq Suppression
    /\ made \in 0 .. MaxIds

Init ==
    /\ stage = "idle"
    /\ signals = {}
    /\ findings = <<>>
    /\ hidden = NothingHidden
    /\ canaries_ok = TRUE
    /\ status = "none"
    /\ suppressions = {}
    /\ made = 0

\* The stage begins with the run's signals and the model's analysis.
Start ==
    /\ stage = "idle"
    /\ stage' = "build"
    /\ signals' \in SUBSET Signals
    /\ canaries_ok' \in BOOLEAN
    /\ findings' = <<>> /\ hidden' = NothingHidden /\ status' = "none"
    /\ UNCHANGED table

\* build_findings: one raw finding; a rejected one leaves nothing behind here.
Build ==
    /\ stage = "build"
    /\ Len(findings) < MaxFindings
    /\ \E raw \in Submissions :
           /\ Accepted(raw, signals)
           /\ findings' = Append(findings, _build_one(raw, signals))
    /\ UNCHANGED <<stage, signals, hidden, canaries_ok, status, table>>

Built ==
    /\ stage = "build"
    /\ stage' = "suppress"
    /\ UNCHANGED <<report, table>>

active_suppressions == {s \in suppressions : s.left # 0}

matches(s, f) ==
    /\ s.needs # {}
    /\ s.needs \subseteq f.marks
    /\ f.severity <= s.max_severity

covered == {i \in DOMAIN findings :
                \E s \in active_suppressions : matches(s, findings[i])}

\* active_suppressions and apply_suppressions: the query gives the rows in no
\* order, so any row that matches may be the first to.
Suppress ==
    /\ stage = "suppress"
    /\ stage' = "rollup"
    /\ hidden' \in {h \in [covered -> active_suppressions] :
                       \A i \in covered : matches(h[i], findings[i])}
    /\ UNCHANGED <<signals, findings, canaries_ok, status, table>>

kept == DOMAIN findings \ DOMAIN hidden
rated(severity) == Cardinality({i \in kept : findings[i].severity = severity})

\* Slip: one CRITICAL finding counts as one of HIGH does.
rollup_lenient ==
    IF rated(CRITICAL) >= 2 \/ rated(HIGH) >= 2 \/ ~canaries_ok THEN "RED"
    ELSE IF rated(HIGH) > 0 \/ rated(MEDIUM) >= 3 THEN "AMBER"
    ELSE "GREEN"

rollup ==
    IF rated(CRITICAL) > 0 \/ rated(HIGH) >= 2 \/ ~canaries_ok THEN "RED"
    ELSE IF rated(HIGH) > 0 \/ rated(MEDIUM) >= 3 THEN "AMBER"
    ELSE "GREEN"

Rollup ==
    /\ stage = "rollup"
    /\ stage' = "idle"
    /\ status' = rollup
    /\ UNCHANGED <<signals, findings, hidden, canaries_ok, table>>

\* cmd_suppress: a matcher needs something to match; --days 0 means for ever.
AddSuppression ==
    /\ made < MaxIds
    /\ made' = made + 1
    /\ \E m \in Matchers, d \in Days :
           /\ m.needs # {}
           /\ suppressions' = suppressions \cup
                  {[id |-> made + 1, needs |-> m.needs, max_severity |-> m.max_severity,
                    left |-> IF d = 0 THEN Never ELSE d]}
    /\ UNCHANGED <<stage, report>>

\* cmd_unsuppress.
DeleteSuppression ==
    /\ \E s \in suppressions : suppressions' = suppressions \ {s}
    /\ UNCHANGED <<stage, report, made>>

\* A day passes; rows that expired stay in the table.
Day ==
    /\ \E s \in suppressions : s.left > 0
    /\ suppressions' = {[s EXCEPT !.left = IF s.left > 0 THEN s.left - 1 ELSE s.left] :
                            s \in suppressions}
    /\ UNCHANGED <<stage, report, made>>

Next ==
    \/ Start \/ Build \/ Built \/ Suppress \/ Rollup
    \/ AddSuppression \/ DeleteSuppression \/ Day

Spec == Init /\ [][Next]_vars

-----------------------------------------------------------------------------

\* A run whose self-test passed is RED only when a finding it shows rests on a
\* signal of at least MEDIUM, and AMBER only on one of at least LOW: neither raw
\* events nor the model's own rating can raise an alarm.
StatusIsEarned ==
    /\ status = "RED" /\ canaries_ok =>
           \E i \in kept : \E s \in findings[i].signal_ids : hint[s] >= MEDIUM
    /\ status = "AMBER" =>
           \E i \in kept : \E s \in findings[i].signal_ids : hint[s] >= LOW

\* A finding that got more severe than its suppression was made for is shown,
\* whichever suppressions were added, expired or removed since.
EscalationIsSeen ==
    \A i \in DOMAIN hidden : findings[i].severity <= hidden[i].max_severity

\* A CRITICAL finding rests on a signal of at least HIGH; one on no more than
\* reputation and a changed baseline on a signal that is CRITICAL itself.
CriticalIsLocal ==
    \A i \in DOMAIN findings : findings[i].severity = CRITICAL =>
        \E s \in findings[i].signal_ids :
            /\ hint[s] >= HIGH
            /\ OnReputation(findings[i].evidence_kinds) => hint[s] = CRITICAL

\* A GREEN run hides no CRITICAL finding but behind a suppression that nobody
\* bounded below CRITICAL.
GreenHidesNoCritical ==
    status = "GREEN" =>
        \A i \in DOMAIN findings : findings[i].severity = CRITICAL =>
            i \in DOMAIN hidden /\ hidden[i].max_severity >= CRITICAL
=============================================================================
