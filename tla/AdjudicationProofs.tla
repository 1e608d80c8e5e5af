-------------------------- MODULE AdjudicationProofs --------------------------
(***************************************************************************)
(* What holds of Adjudication for any signals, submissions, suppressions   *)
(* and bounds: what the severity of a finding rests on, and what the       *)
(* status of a report says of the findings it shows and hides.             *)
(***************************************************************************)
EXTENDS Adjudication, FiniteSetTheorems, TLAPS

-----------------------------------------------------------------------------
(* Rating a finding *)

LEMMA StrongestIsCited ==
    ASSUME NEW cited \in SUBSET Signals, cited # {}
    PROVE  \E s \in cited : StrongestHint(cited) = hint[s]
<1> DEFINE hints == {hint[s] : s \in cited}
           Top(h) == h \in hints /\ \A s \in cited : hint[s] <= h
<1>1. \A s \in cited : hint[s] \in INFO .. CRITICAL
  BY SubmissionsAssumption
<1>2. \E h \in hints : \A s \in cited : hint[s] <= h
  <2>0. hints # {} /\ \A s \in cited : hint[s] \in {0, 1, 2, 3, 4} /\ hint[s] \in hints
    BY <1>1 DEF INFO, CRITICAL
  <2>1. CASE 4 \in hints
    BY <2>0, <2>1
  <2>2. CASE 4 \notin hints /\ 3 \in hints
    BY <2>0, <2>2
  <2>3. CASE 4 \notin hints /\ 3 \notin hints /\ 2 \in hints
    BY <2>0, <2>3
  <2>4. CASE 4 \notin hints /\ 3 \notin hints /\ 2 \notin hints /\ 1 \in hints
    BY <2>0, <2>4
  <2>5. CASE 4 \notin hints /\ 3 \notin hints /\ 2 \notin hints /\ 1 \notin hints
    BY <2>0, <2>5
  <2> QED BY <2>1, <2>2, <2>3, <2>4, <2>5
<1>3. StrongestHint(cited) \in hints
  BY <1>2 DEF StrongestHint
<1> QED BY <1>3

\* What _rate guarantees of the severity it returns.
LEMMA RateIsBacked ==
    ASSUME NEW cited \in SUBSET Signals, cited # {},
           NEW requested \in Severity, NEW kinds \in SUBSET EvidenceKinds
    PROVE  /\ _rate(requested, cited, kinds) \in Severity
           /\ \E s \in cited : _rate(requested, cited, kinds) <= hint[s] + 1
           /\ _rate(requested, cited, kinds) = CRITICAL =>
                 ~OnReputation(kinds) \/ \E s \in cited : hint[s] = CRITICAL
<1>1. PICK s \in cited : StrongestHint(cited) = hint[s]
  BY StrongestIsCited
<1>2. hint[s] \in 0 .. 4
  BY SubmissionsAssumption DEF INFO, CRITICAL
<1>3. /\ Clamped(requested, hint[s]) \in Int
      /\ Clamped(requested, hint[s]) <= hint[s] + 1
      /\ Clamped(requested, hint[s]) \in -1 .. 4
  BY <1>2 DEF Clamped, Severity, SUSPECTED, CRITICAL
<1> QED BY <1>1, <1>2, <1>3 DEF _rate, Severity, SUSPECTED, CRITICAL, HIGH

\* A rated finding exceeds the hint of some signal it cites by at most a level.
Backed(f) == f.severity = SUSPECTED \/ \E s \in f.signal_ids : f.severity <= hint[s] + 1
\* A CRITICAL one is not on reputation alone unless a signal it cites is CRITICAL.
LocallyCritical(f) ==
    f.severity = CRITICAL =>
        ~OnReputation(f.evidence_kinds) \/ \E s \in f.signal_ids : hint[s] = CRITICAL

LEMMA BuiltFinding ==
    ASSUME NEW raw \in Submission, NEW known \in SUBSET Signals
    PROVE  /\ _build_one(raw, known) \in Finding
           /\ Backed(_build_one(raw, known))
           /\ LocallyCritical(_build_one(raw, known))
<1> DEFINE valid == raw.signal_ids \cap known
           f == _build_one(raw, known)
<1>1. /\ valid \in SUBSET Signals /\ raw.severity \in Severity
      /\ raw.marks \in SUBSET Marks
      /\ kinds_of(raw) \in SUBSET EvidenceKinds
  BY DEF Submission, kinds_of, EvidenceKinds
<1>2. /\ f.signal_ids = valid /\ f.evidence_kinds = kinds_of(raw)
      /\ f.severity = IF valid = {} THEN SUSPECTED
                      ELSE _rate(raw.severity, valid, kinds_of(raw))
  BY DEF _build_one
<1>3. CASE valid = {}
  <2>1. f.severity = SUSPECTED
    BY <1>2, <1>3
  <2>2. SUSPECTED \in Severity /\ SUSPECTED # CRITICAL
    BY DEF SUSPECTED, CRITICAL, Severity
  <2>3. f \in Finding
    BY <1>1, <1>3, <2>2 DEF _build_one, Finding
  <2> QED BY <2>1, <2>2, <2>3 DEF Backed, LocallyCritical
<1>4. CASE valid # {}
  <2> DEFINE v == _rate(raw.severity, valid, kinds_of(raw))
  <2>1. f.severity = v
    BY <1>2, <1>4
  <2>2. /\ v \in Severity
        /\ \E s \in valid : v <= hint[s] + 1
        /\ v = CRITICAL =>
              ~OnReputation(kinds_of(raw)) \/ \E s \in valid : hint[s] = CRITICAL
    BY <1>1, <1>4, RateIsBacked
  <2>3. f \in Finding
    BY <1>1, <1>4, <2>2 DEF _build_one, Finding
  <2> HIDE DEF v, f
  <2> QED BY <1>2, <2>1, <2>2, <2>3 DEF Backed, LocallyCritical, f
<1> QED BY <1>3, <1>4

-----------------------------------------------------------------------------
(* Types *)

LEMMA InitType == Init => TypeOK
BY SubmissionsAssumption, SuppressionsAssumption
   DEF Init, TypeOK, Stages, Statuses, NothingHidden, Finding

LEMMA StartType ==
    ASSUME TypeOK, Start
    PROVE  TypeOK'
BY SubmissionsAssumption DEF TypeOK, Start, table, Stages, Statuses, NothingHidden

LEMMA AppendedFindings ==
    ASSUME TypeOK, Build
    PROVE  /\ findings' \in Seq(Finding)
           /\ Len(findings') = Len(findings) + 1 /\ Len(findings) < MaxFindings
           /\ DOMAIN findings \subseteq DOMAIN findings'
           /\ \A i \in DOMAIN findings' :
                 \/ i \in DOMAIN findings /\ findings'[i] = findings[i]
                 \/ Backed(findings'[i]) /\ LocallyCritical(findings'[i])
<1>1. PICK raw \in Submissions : findings' = Append(findings, _build_one(raw, signals))
  BY DEF Build
<1> DEFINE f == _build_one(raw, signals)
<1>2. f \in Finding /\ Backed(f) /\ LocallyCritical(f)
  BY BuiltFinding, SubmissionsAssumption DEF TypeOK
<1>3. findings \in Seq(Finding) /\ Len(findings) \in Nat /\ Len(findings) < MaxFindings
  BY DEF TypeOK, Build
<1> HIDE DEF f
<1>4. /\ findings' \in Seq(Finding) /\ Len(findings') = Len(findings) + 1
      /\ DOMAIN findings' = 1 .. Len(findings) + 1 /\ DOMAIN findings = 1 .. Len(findings)
      /\ \A i \in 1 .. Len(findings) : findings'[i] = findings[i]
      /\ findings'[Len(findings) + 1] = f
  BY <1>1, <1>2, <1>3 DEF f
<1> QED BY <1>2, <1>3, <1>4

LEMMA BuildType ==
    ASSUME TypeOK, Build
    PROVE  TypeOK'
<1>1. /\ findings' \in Seq(Finding) /\ Len(findings') <= MaxFindings
      /\ DOMAIN findings \subseteq DOMAIN findings'
  BY AppendedFindings, SubmissionsAssumption DEF TypeOK
<1> QED BY <1>1 DEF TypeOK, Build, table

LEMMA SuppressType ==
    ASSUME TypeOK, Suppress
    PROVE  TypeOK'
<1>1. /\ DOMAIN hidden' \subseteq DOMAIN findings
      /\ \A i \in DOMAIN hidden' : hidden'[i] \in Suppression
  BY DEF Suppress, TypeOK, covered, active_suppressions
<1> QED BY <1>1 DEF TypeOK, Suppress, table, Stages

LEMMA TableType ==
    ASSUME TypeOK, AddSuppression \/ DeleteSuppression \/ Day
    PROVE  TypeOK'
<1>1. CASE AddSuppression
  <2>1. PICK m \in Matchers, d \in Days :
            suppressions' = suppressions \cup
                {[id |-> made + 1, needs |-> m.needs, max_severity |-> m.max_severity,
                  left |-> IF d = 0 THEN Never ELSE d]}
    BY <1>1 DEF AddSuppression
  <2>2. /\ m.needs \in SUBSET Marks /\ m.max_severity \in Severity \cup {Unbounded}
        /\ (IF d = 0 THEN Never ELSE d) \in Nat \cup {Never}
        /\ made + 1 \in Nat /\ made' \in 0 .. MaxIds
    BY <1>1, SuppressionsAssumption DEF TypeOK, AddSuppression, Matcher
  <2>3. suppressions' \subseteq Suppression
    BY <2>1, <2>2 DEF Suppression, TypeOK
  <2> QED BY <1>1, <2>2, <2>3 DEF TypeOK, AddSuppression, report
<1>2. CASE DeleteSuppression
  BY <1>2 DEF TypeOK, DeleteSuppression, report
<1>3. CASE Day
  <2>1. ASSUME NEW s \in Suppression
        PROVE  [s EXCEPT !.left = IF s.left > 0 THEN s.left - 1 ELSE s.left] \in Suppression
    BY DEF Suppression, Never
  <2>2. suppressions' \subseteq Suppression
    BY <1>3, <2>1 DEF TypeOK, Day
  <2> QED BY <1>3, <2>2 DEF TypeOK, Day, report
<1> QED BY <1>1, <1>2, <1>3

LEMMA NextType == TypeOK /\ [Next]_vars => TypeOK'
<1> SUFFICES ASSUME TypeOK, [Next]_vars
             PROVE  TypeOK'
  OBVIOUS
<1>1. CASE Start
  BY <1>1, StartType
<1>2. CASE Build
  BY <1>2, BuildType
<1>3. CASE Built
  BY <1>3 DEF TypeOK, Built, report, table, Stages
<1>4. CASE Suppress
  BY <1>4, SuppressType
<1>5. CASE Rollup
  BY <1>5 DEF TypeOK, Rollup, rollup, table, Stages, Statuses
<1>6. CASE AddSuppression \/ DeleteSuppression \/ Day
  BY <1>6, TableType
<1>7. CASE UNCHANGED vars
  BY <1>7 DEF TypeOK, vars
<1> QED BY <1>1, <1>2, <1>3, <1>4, <1>5, <1>6, <1>7 DEF Next

\* Every variable keeps its type.
THEOREM TypeCorrect == Spec => []TypeOK
<1>1. Init => TypeOK
  BY InitType
<1>2. TypeOK /\ [Next]_vars => TypeOK'
  BY NextType
<1> QED BY <1>1, <1>2, PTL DEF Spec

-----------------------------------------------------------------------------
(* The findings of a run *)

FindingsAreRated ==
    \A i \in DOMAIN findings : Backed(findings[i]) /\ LocallyCritical(findings[i])
StatusComesLast == stage # "idle" => status = "none"

FInv == TypeOK /\ FindingsAreRated /\ StatusComesLast /\ EscalationIsSeen

LEMMA InitFindings == Init => FInv
<1> SUFFICES ASSUME Init
             PROVE  FInv
  OBVIOUS
<1>1. DOMAIN findings = {} /\ DOMAIN hidden = {}
  BY DEF Init, NothingHidden
<1> QED BY <1>1, InitType
        DEF Init, FInv, FindingsAreRated, StatusComesLast, EscalationIsSeen

LEMMA StepFindings == FInv /\ [Next]_vars => FInv'
<1> SUFFICES ASSUME FInv, [Next]_vars
             PROVE  FInv'
  OBVIOUS
<1> USE DEF FInv
<1>0. TypeOK'
  BY NextType
<1>1. CASE Start
  <2>1. DOMAIN findings' = {} /\ DOMAIN hidden' = {}
    BY <1>1 DEF Start, NothingHidden
  <2> QED BY <1>0, <1>1, <2>1
          DEF Start, FindingsAreRated, StatusComesLast, EscalationIsSeen
<1>2. CASE Build
  <2>1. FindingsAreRated'
    BY <1>2, AppendedFindings DEF FindingsAreRated, Backed, LocallyCritical
  <2>2. EscalationIsSeen'
    <3>1. SUFFICES ASSUME NEW i \in DOMAIN hidden
                   PROVE  findings'[i].severity <= hidden[i].max_severity
      BY <1>2 DEF Build, EscalationIsSeen
    <3>2. PICK raw \in Submissions : findings' = Append(findings, _build_one(raw, signals))
      BY <1>2 DEF Build
    <3>3. i \in 1 .. Len(findings) /\ findings \in Seq(Finding)
      BY DEF TypeOK
    <3>4. findings'[i] = findings[i]
      BY <3>2, <3>3
    <3> QED BY <3>4 DEF EscalationIsSeen
  <2> QED BY <1>0, <1>2, <2>1, <2>2 DEF Build, StatusComesLast
<1>3. CASE Suppress
  <2>1. \A i \in DOMAIN hidden' : matches(hidden'[i], findings[i])
    BY <1>3 DEF Suppress
  <2> QED BY <1>0, <1>3, <2>1
          DEF Suppress, matches, FindingsAreRated, StatusComesLast, EscalationIsSeen
<1>4. CASE Built \/ Rollup
  BY <1>0, <1>4 DEF Built, Rollup, report, FindingsAreRated, StatusComesLast, EscalationIsSeen
<1>5. CASE AddSuppression \/ DeleteSuppression \/ Day
  BY <1>0, <1>5 DEF AddSuppression, DeleteSuppression, Day, report,
                    FindingsAreRated, StatusComesLast, EscalationIsSeen
<1>6. CASE UNCHANGED vars
  BY <1>0, <1>6 DEF vars, FindingsAreRated, StatusComesLast, EscalationIsSeen
<1> QED BY <1>1, <1>2, <1>3, <1>4, <1>5, <1>6 DEF Next

\* The inductive invariant: findings are rated by their signals (a CRITICAL one
\* on reputation alone only by a CRITICAL signal), a status is given only at the
\* end, and no suppression hides more than it was made for.
THEOREM FindingsInvariant == Spec => []FInv
<1>1. Init => FInv
  BY InitFindings
<1>2. FInv /\ [Next]_vars => FInv'
  BY StepFindings
<1> QED BY <1>1, <1>2, PTL DEF Spec

\* A finding above the severity its suppression was made for is never hidden.
THEOREM EscalatedFindingsAreSeen == Spec => []EscalationIsSeen
<1>1. FInv => EscalationIsSeen
  BY DEF FInv
<1> QED BY <1>1, FindingsInvariant, PTL

\* A CRITICAL finding rests on a signal of at least HIGH, and on local evidence
\* or a signal that is CRITICAL itself.
THEOREM CriticalFindingsAreLocal == Spec => []CriticalIsLocal
<1>1. FInv => CriticalIsLocal
  <2> SUFFICES ASSUME FInv, NEW i \in DOMAIN findings, findings[i].severity = CRITICAL
               PROVE  \E s \in findings[i].signal_ids :
                          /\ hint[s] >= HIGH
                          /\ OnReputation(findings[i].evidence_kinds) => hint[s] = CRITICAL
    BY DEF CriticalIsLocal
  <2>1. findings[i] \in Finding
    BY DEF FInv, TypeOK
  <2>2. PICK s \in findings[i].signal_ids : CRITICAL <= hint[s] + 1
    BY DEF FInv, FindingsAreRated, Backed, CRITICAL, SUSPECTED
  <2>3. hint[s] \in 0 .. 4
    BY <2>1, SubmissionsAssumption DEF Finding, INFO, CRITICAL
  <2>4. hint[s] >= HIGH
    BY <2>2, <2>3 DEF CRITICAL, HIGH
  <2>5. CASE OnReputation(findings[i].evidence_kinds)
    <3>1. PICK t \in findings[i].signal_ids : hint[t] = CRITICAL
      BY <2>5 DEF FInv, FindingsAreRated, LocallyCritical
    <3>2. hint[t] >= HIGH
      BY <3>1 DEF CRITICAL, HIGH
    <3> QED BY <3>1, <3>2
  <2> QED BY <2>4, <2>5
<1> QED BY <1>1, FindingsInvariant, PTL

-----------------------------------------------------------------------------
(* The status of a report *)

LEMMA SomeAreRated ==
    ASSUME TypeOK, NEW v
    PROVE  /\ rated(v) \in Nat
           /\ rated(v) = 0 => \A i \in kept : findings[i].severity # v
           /\ rated(v) > 0 => \E i \in kept : findings[i].severity = v
<1> DEFINE S == {i \in kept : findings[i].severity = v}
<1>1. DOMAIN findings = 1 .. Len(findings) /\ Len(findings) \in Nat
  BY DEF TypeOK
<1>2. IsFiniteSet(DOMAIN findings)
  BY <1>1, FS_Interval
<1>3. S \in SUBSET DOMAIN findings
  BY DEF kept
<1>4. IsFiniteSet(S)
  BY <1>2, <1>3, FS_Subset
<1>5. Cardinality(S) \in Nat /\ (Cardinality(S) = 0 <=> S = {})
  BY <1>4, FS_CardinalityType, FS_EmptySet
<1>6. rated(v) = Cardinality(S)
  BY DEF rated
<1> HIDE DEF S
<1>7. rated(v) \in Nat /\ (rated(v) > 0 => S # {}) /\ (rated(v) = 0 => S = {})
  BY <1>5, <1>6
<1> QED BY <1>7 DEF S

LEMMA HintsShown ==
    ASSUME TypeOK
    PROVE  \A i \in kept : \A s \in findings[i].signal_ids : hint[s] \in 0 .. 4
<1> SUFFICES ASSUME NEW i \in kept, NEW s \in findings[i].signal_ids
             PROVE  hint[s] \in 0 .. 4
  OBVIOUS
<1>1. findings \in Seq(Finding) /\ i \in DOMAIN findings
  BY DEF TypeOK, kept
<1>2. findings[i] \in Finding
  BY <1>1
<1> QED BY <1>2, SubmissionsAssumption DEF Finding, INFO, CRITICAL

\* A finding of severity v rests on a signal of at least a level less.
LEMMA ShownIsEarned ==
    ASSUME FInv, NEW v \in LOW .. CRITICAL, rated(v) > 0
    PROVE  \E i \in kept : \E s \in findings[i].signal_ids : hint[s] >= v - 1
<1>1. PICK i \in kept : findings[i].severity = v
  BY SomeAreRated DEF FInv
<1>2. i \in DOMAIN findings /\ findings[i] \in Finding
  BY <1>1 DEF kept, FInv, TypeOK
<1>3. PICK s \in findings[i].signal_ids : v <= hint[s] + 1
  BY <1>1, <1>2 DEF FInv, FindingsAreRated, Backed, LOW, SUSPECTED
<1>4. hint[s] \in 0 .. 4
  BY <1>2, SubmissionsAssumption DEF Finding, INFO, CRITICAL
<1>5. hint[s] >= v - 1
  BY <1>3, <1>4 DEF LOW, CRITICAL
<1> QED BY <1>5

SInv == FInv /\ StatusIsEarned /\ GreenHidesNoCritical

LEMMA RollupIsEarned ==
    ASSUME FInv, Rollup
    PROVE  StatusIsEarned'
<1>1. ASSUME rollup = "RED", canaries_ok
      PROVE  \E i \in kept : \E s \in findings[i].signal_ids : hint[s] >= MEDIUM
  <2>1. rated(CRITICAL) \in Nat /\ rated(HIGH) \in Nat
    BY SomeAreRated DEF FInv
  <2>2. rated(CRITICAL) > 0 \/ rated(HIGH) > 0
    BY <1>1, <2>1 DEF rollup
  <2>3. /\ HIGH \in LOW .. CRITICAL /\ HIGH - 1 = MEDIUM
        /\ CRITICAL \in LOW .. CRITICAL /\ CRITICAL - 1 = HIGH
    BY DEF LOW, MEDIUM, HIGH, CRITICAL
  <2>4. CASE rated(HIGH) > 0
    BY <2>3, <2>4, ShownIsEarned
  <2>5. CASE rated(CRITICAL) > 0
    <3>1. \E i \in kept : \E s \in findings[i].signal_ids : hint[s] >= HIGH
      BY <2>3, <2>5, ShownIsEarned
    <3>2. \A i \in kept : \A s \in findings[i].signal_ids : hint[s] \in 0 .. 4
      BY HintsShown DEF FInv
    <3> QED BY <3>1, <3>2 DEF HIGH, MEDIUM
  <2> QED BY <2>2, <2>4, <2>5
<1>2. ASSUME rollup = "AMBER"
      PROVE  \E i \in kept : \E s \in findings[i].signal_ids : hint[s] >= LOW
  <2>1. rated(MEDIUM) \in Nat
    BY SomeAreRated DEF FInv
  <2>2. rated(HIGH) > 0 \/ rated(MEDIUM) > 0
    BY <1>2, <2>1 DEF rollup
  <2>3. /\ MEDIUM \in LOW .. CRITICAL /\ MEDIUM - 1 = LOW
        /\ HIGH \in LOW .. CRITICAL /\ HIGH - 1 = MEDIUM
    BY DEF LOW, MEDIUM, HIGH, CRITICAL
  <2>4. CASE rated(MEDIUM) > 0
    BY <2>3, <2>4, ShownIsEarned
  <2>5. CASE rated(HIGH) > 0
    <3>1. \E i \in kept : \E s \in findings[i].signal_ids : hint[s] >= MEDIUM
      BY <2>3, <2>5, ShownIsEarned
    <3>2. \A i \in kept : \A s \in findings[i].signal_ids : hint[s] \in 0 .. 4
      BY HintsShown DEF FInv
    <3> QED BY <3>1, <3>2 DEF MEDIUM, LOW
  <2> QED BY <2>2, <2>4, <2>5
<1>3. /\ status' = rollup /\ kept' = kept
      /\ UNCHANGED <<findings, canaries_ok>>
  BY DEF Rollup, kept
<1> QED BY <1>1, <1>2, <1>3 DEF StatusIsEarned

LEMMA RollupHidesNoCritical ==
    ASSUME FInv, Rollup
    PROVE  GreenHidesNoCritical'
<1>1. UNCHANGED <<findings, hidden>> /\ status' = rollup
  BY DEF Rollup
<1>2. SUFFICES ASSUME rollup = "GREEN",
                      NEW i \in DOMAIN findings, findings[i].severity = CRITICAL
               PROVE  i \in DOMAIN hidden /\ hidden[i].max_severity >= CRITICAL
  BY <1>1 DEF GreenHidesNoCritical
<1>3. rated(CRITICAL) \in Nat /\ ~(rated(CRITICAL) > 0)
  BY <1>2, SomeAreRated DEF FInv, rollup
<1>4. i \notin kept
  BY <1>2, <1>3, SomeAreRated DEF FInv
<1>5. i \in DOMAIN hidden
  BY <1>4 DEF kept
<1>6. hidden[i].max_severity \in Int /\ CRITICAL <= hidden[i].max_severity
  BY <1>2, <1>5 DEF FInv, EscalationIsSeen, TypeOK, Suppression, Severity, Unbounded,
                    SUSPECTED, CRITICAL
<1> QED BY <1>5, <1>6 DEF CRITICAL

LEMMA StepStatus == SInv /\ [Next]_vars => SInv'
<1> SUFFICES ASSUME SInv, [Next]_vars
             PROVE  SInv'
  OBVIOUS
<1>0. FInv /\ FInv'
  BY StepFindings DEF SInv
<1>1. CASE Rollup
  BY <1>0, <1>1, RollupIsEarned, RollupHidesNoCritical DEF SInv
<1>2. CASE Start \/ Build \/ Built \/ Suppress
  <2>1. status' = "none"
    BY <1>0, <1>2 DEF Start, Build, Built, Suppress, report, FInv, StatusComesLast
  <2> QED BY <1>0, <2>1 DEF SInv, StatusIsEarned, GreenHidesNoCritical
<1>3. CASE AddSuppression \/ DeleteSuppression \/ Day \/ UNCHANGED vars
  <2>1. UNCHANGED report
    BY <1>3 DEF AddSuppression, DeleteSuppression, Day, report, vars
  <2>2. kept' = kept
    BY <2>1 DEF report, kept
  <2> QED BY <1>0, <2>1, <2>2 DEF SInv, report, StatusIsEarned, GreenHidesNoCritical
<1> QED BY <1>1, <1>2, <1>3 DEF Next

\* The inductive invariant with what the status says of the findings.
THEOREM StatusInvariant == Spec => []SInv
<1>1. Init => SInv
  <2>1. Init => status = "none"
    BY DEF Init
  <2> QED BY <2>1, InitFindings DEF SInv, StatusIsEarned, GreenHidesNoCritical
<1>2. SInv /\ [Next]_vars => SInv'
  BY StepStatus
<1> QED BY <1>1, <1>2, PTL DEF Spec

\* No status above GREEN without a signal behind a finding that is shown.
THEOREM AlarmsAreEarned == Spec => []StatusIsEarned
<1>1. SInv => StatusIsEarned
  BY DEF SInv
<1> QED BY <1>1, StatusInvariant, PTL

\* A GREEN report hides a CRITICAL finding only where somebody asked for that.
THEOREM GreenIsHonest == Spec => []GreenHidesNoCritical
<1>1. SInv => GreenHidesNoCritical
  BY DEF SInv
<1> QED BY <1>1, StatusInvariant, PTL
=============================================================================
