-------------------------- MODULE InvestigateProofs --------------------------
(***************************************************************************)
(* What the model stage costs, for any chain, any ceiling, any number of   *)
(* turns and any price of a call: what is summed up, what the ceiling      *)
(* bounds, and what ends the chain.  Below it what the self-test's verdict *)
(* is, for any ports, windows and number of runs.                          *)
(***************************************************************************)
EXTENDS Investigate, Canary, SequenceTheorems, TLAPS

-----------------------------------------------------------------------------
(* The invariant *)

Ledger ==
    /\ max_cost \in Nat /\ ceiling \in Nat /\ turns \in Nat
    /\ run_usage \in Nat /\ usage \in Nat /\ spent \in Nat
    /\ cut \in Nat /\ lost \in Nat
    /\ ends \in Seq(Ends)

\* Between attempts nothing of the next one is spent yet; before its first
\* call an attempt has cost nothing; only the last attempt may be cut.
Idle ==
    /\ phase \in {"next", "done", "thrown"} => run_usage = 0 /\ turns = 0
    /\ turns = 0 => run_usage = 0
    /\ phase # "done" => cut = 0

\* A running attempt and those before it are below the run's ceiling together.
WithinCeiling ==
    phase \in {"call", "reply", "tools"} /\ max_cost > 0 =>
        /\ ceiling > 0
        /\ ceiling + usage = max_cost
        /\ run_usage < ceiling

\* What was summed up, is running or was cut overshoots by less than a call.
Overshoot == max_cost > 0 => usage + run_usage + cut < max_cost + MaxCallCost

Inv ==
    /\ Ledger
    /\ Idle
    /\ WithinCeiling
    /\ Overshoot
    /\ UsageAddsUp
    /\ ChainStops

LEMMA CallCostIsNat == MaxCallCost \in Nat /\ MaxCallCost > 0
BY LimitsAssumption

LEMMA InvInit == Init => Inv
<1> SUFFICES ASSUME Init PROVE Inv
  OBVIOUS
<1>1. max_cost \in Nat
  BY LimitsAssumption DEF Init
<1>2. ends = <<>> /\ ends \in Seq(Ends) /\ DOMAIN ends = {}
  BY DEF Init
<1> QED BY <1>1, <1>2, CallCostIsNat
        DEF Init, Inv, Ledger, Idle, WithinCeiling, Overshoot, UsageAddsUp, ChainStops

LEMMA LastIndex == \A n \in Nat : \A j \in 1..(n + 1) : j \notin 1..n => j = n + 1
OBVIOUS

\* However an attempt ends, the chain is over after the ends that stop it.
LEMMA ChainStopsStep ==
    ASSUME Ledger, ChainStops, phase # "done",
           NEW how \in Ends, NEW used, NEW next, End(how, used, next),
           how \in {"ok", "ceiling", "not tried"} => next = "done"
    PROVE  ChainStops' /\ ends' \in Seq(Ends)
<1>1. ends \in Seq(Ends) /\ ends' = Append(ends, how) /\ phase' = next
  BY DEF Ledger, End
<1>2. /\ ends' \in Seq(Ends) /\ Len(ends') = Len(ends) + 1
      /\ \A i \in 1..Len(ends) : ends'[i] = ends[i]
      /\ ends'[Len(ends) + 1] = how
  <2>1. /\ Append(ends, how) \in Seq(Ends)
        /\ Len(Append(ends, how)) = Len(ends) + 1
        /\ \A i \in 1..Len(ends) : Append(ends, how)[i] = ends[i]
        /\ Append(ends, how)[Len(ends) + 1] = how
    <3>1. ends \in Seq(Ends) /\ how \in Ends
      BY <1>1
    <3> QED BY ONLY <3>1, AppendProperties
  <2> QED BY <1>1, <2>1
<1>3. /\ Len(ends) \in Nat /\ DOMAIN ends = 1..Len(ends)
      /\ DOMAIN ends' = 1..Len(ends')
  <2>1. ends' \in Seq(Ends)
    BY <1>2
  <2> QED BY <1>1, <2>1, LenProperties
<1>4. ASSUME NEW i \in DOMAIN ends', ends'[i] \in {"ok", "ceiling", "not tried"}
      PROVE  i = Len(ends') /\ phase' = "done"
  <2>1. CASE i \in DOMAIN ends
    <3>1. ends'[i] = ends[i]
      BY <1>2, <1>3, <2>1
    <3> QED BY <3>1, <1>4, <2>1 DEF ChainStops
  <2>2. CASE i \notin DOMAIN ends
    <3>1. i = Len(ends) + 1 /\ ends'[i] = how
      <4>1. i \in 1..(Len(ends) + 1) /\ i \notin 1..Len(ends) /\ Len(ends) \in Nat
        BY <1>2, <1>3, <2>2
      <4>2. \A n \in Nat : \A j \in 1..(n + 1) : j \notin 1..n => j = n + 1
        BY LastIndex
      <4>3. i = Len(ends) + 1
        BY <4>1, <4>2
      <4> QED BY <4>3, <1>2
    <3> QED BY <3>1, <1>1, <1>2, <1>4
  <2> QED BY <2>1, <2>2
<1> QED BY <1>2, <1>4 DEF ChainStops

-----------------------------------------------------------------------------
(* One step *)

\* What a model call adds while the attempt stays below its ceiling.
LEMMA CallStep == Inv /\ Call => Inv'
<1> SUFFICES ASSUME Inv, Call PROVE Inv'
  OBVIOUS
<1> USE DEF Inv, Ledger, Idle
<1>1. PICK cost \in 0..MaxCallCost :
        /\ run_usage' = run_usage + cost /\ spent' = spent + cost
        /\ ~ Tripped(run_usage + cost)
  BY DEF Call
<1>2. cost \in Nat /\ cost <= MaxCallCost /\ phase = "call" /\ phase' = "reply"
      /\ turns' = turns + 1
      /\ UNCHANGED <<max_cost, ends, ceiling, corrections, usage, cut, lost>>
  BY <1>1, CallCostIsNat DEF Call
<1>3. Ledger' /\ Idle'
  BY <1>1, <1>2
<1>4. UsageAddsUp'
  BY <1>1, <1>2 DEF UsageAddsUp
<1>5. WithinCeiling'
  BY <1>1, <1>2 DEF WithinCeiling, Tripped
<1>6. Overshoot'
  BY <1>1, <1>2, <1>5, CallCostIsNat DEF Overshoot, WithinCeiling
<1>7. ChainStops'
  BY <1>2 DEF ChainStops
<1> QED BY <1>3, <1>4, <1>5, <1>6, <1>7

\* The call that reaches the ceiling costs at most MaxCallCost more.
LEMMA CeilingStep == Inv /\ Ceiling => Inv'
<1> SUFFICES ASSUME Inv, Ceiling PROVE Inv'
  OBVIOUS
<1> USE DEF Inv, Ledger, Idle
<1>1. PICK cost \in 0..MaxCallCost :
        spent' = spent + cost /\ cut' = run_usage + cost
  BY DEF Ceiling
<1>2. cost \in Nat /\ cost <= MaxCallCost /\ phase = "call" /\ phase' = "done"
      /\ cut = 0 /\ usage' = usage + 0 /\ run_usage' = 0 /\ turns' = 0 /\ ceiling' = 0
      /\ max_cost' = max_cost /\ lost' = lost
  BY <1>1, CallCostIsNat DEF Ceiling, End
<1>3. End("ceiling", 0, "done") /\ "ceiling" \in Ends
  BY DEF Ceiling, Ends
<1>4. ChainStops' /\ ends' \in Seq(Ends)
  BY <1>2, <1>3, ChainStopsStep
<1>5. Ledger' /\ Idle' /\ WithinCeiling'
  BY <1>1, <1>2, <1>4 DEF WithinCeiling
<1>6. UsageAddsUp'
  BY <1>1, <1>2 DEF UsageAddsUp
<1>7. Overshoot'
  BY <1>1, <1>2, CallCostIsNat DEF Overshoot, WithinCeiling
<1> QED BY <1>4, <1>5, <1>6, <1>7

\* A reply that ends the attempt moves what it used from the attempt to the
\* sum, or to what is lost.
LEMMA EndStep == Inv /\ (Fail \/ Raise \/ Accept \/ NotTried \/ Unavailable) => Inv'
<1> SUFFICES ASSUME Inv, Fail \/ Raise \/ Accept \/ NotTried \/ Unavailable PROVE Inv'
  OBVIOUS
<1> USE DEF Inv, Ledger, Idle
<1>0. phase \in {"next", "call", "reply", "tools"} /\ cut = 0
      /\ phase' \in {"next", "done"} /\ run_usage' = 0 /\ turns' = 0 /\ ceiling' = 0
      /\ max_cost' = max_cost /\ spent' = spent /\ cut' = cut
  BY DEF Fail, Raise, Accept, NotTried, Unavailable, End
<1>1. ChainStops' /\ ends' \in Seq(Ends)
  <2>1. \E how \in Ends, used \in Nat, next \in Phases :
          /\ End(how, used, next)
          /\ how \in {"ok", "ceiling", "not tried"} => next = "done"
    <3>1. CASE Fail
      BY <3>1 DEF Fail, Ends, Phases
    <3>2. CASE Raise
      BY <3>2 DEF Raise, Ends, Phases
    <3>3. CASE Accept
      BY <3>3 DEF Accept, Ends, Phases
    <3>4. CASE NotTried
      BY <3>4 DEF NotTried, Ends, Phases
    <3>5. CASE Unavailable
      BY <3>5 DEF Unavailable, Ends, Phases
    <3> QED BY <3>1, <3>2, <3>3, <3>4, <3>5
  <2> QED BY <1>0, <2>1, ChainStopsStep
<1>2. \/ usage' = usage + run_usage /\ lost' = lost
      \/ usage' = usage /\ lost' = lost + run_usage
  <2>1. CASE Fail
    BY <2>1 DEF Fail, End
  <2>2. CASE Raise
    BY <2>2 DEF Raise, End
  <2>3. CASE Accept
    BY <2>3 DEF Accept, End
  <2>4. CASE NotTried
    BY <2>4 DEF NotTried, End
  <2>5. CASE Unavailable
    BY <2>5 DEF Unavailable, End
  <2> QED BY <2>1, <2>2, <2>3, <2>4, <2>5
<1>3. Ledger' /\ Idle' /\ WithinCeiling'
  BY <1>0, <1>1, <1>2 DEF WithinCeiling
<1>4. UsageAddsUp'
  BY <1>0, <1>2 DEF UsageAddsUp
<1>5. Overshoot'
  BY <1>0, <1>2, CallCostIsNat DEF Overshoot
<1> QED BY <1>1, <1>3, <1>4, <1>5

\* A plugin that fails with a cost no ceiling was checked against.
LEMMA FailUncheckedStep == Inv /\ FailUnchecked => Inv'
<1> SUFFICES ASSUME Inv, FailUnchecked PROVE Inv'
  OBVIOUS
<1> USE DEF Inv, Ledger, Idle
<1>1. PICK cost \in 0..MaxCallCost : spent' = spent + cost /\ End("error", cost, "next")
  BY DEF FailUnchecked
<1>2. cost \in Nat /\ cost <= MaxCallCost /\ phase = "call" /\ phase' = "next"
      /\ run_usage = 0 /\ usage' = usage + cost /\ run_usage' = 0 /\ turns' = 0
      /\ ceiling' = 0 /\ max_cost' = max_cost /\ cut' = cut /\ lost' = lost
  BY <1>1, CallCostIsNat DEF FailUnchecked, End
<1>3. ChainStops' /\ ends' \in Seq(Ends)
  BY <1>1, <1>2, ChainStopsStep DEF Ends
<1>4. Ledger' /\ Idle' /\ WithinCeiling'
  BY <1>1, <1>2, <1>3 DEF WithinCeiling
<1>5. UsageAddsUp'
  BY <1>1, <1>2 DEF UsageAddsUp
<1>6. Overshoot'
  BY <1>1, <1>2, CallCostIsNat DEF Overshoot, WithinCeiling
<1> QED BY <1>3, <1>4, <1>5, <1>6

\* An attempt starts with what is left of the run's ceiling.
LEMMA AttemptStep == Inv /\ Attempt => Inv'
<1> SUFFICES ASSUME Inv, Attempt PROVE Inv'
  OBVIOUS
<1> USE DEF Inv, Ledger, Idle
<1>1. /\ phase = "next" /\ phase' = "call" /\ ceiling' = Remaining /\ ~NothingLeft
      /\ UNCHANGED <<max_cost, ends, turns, corrections, run_usage, usage, spent, cut, lost>>
  BY DEF Attempt
<1>2. max_cost > 0 => ceiling' = max_cost - usage /\ usage < max_cost
  BY <1>1 DEF Remaining, NothingLeft
<1>3. ceiling' \in Nat
  BY <1>1, <1>2 DEF Remaining
<1>4. Ledger' /\ Idle'
  BY <1>1, <1>3
<1>5. WithinCeiling'
  BY <1>1, <1>2 DEF WithinCeiling
<1>6. UsageAddsUp' /\ Overshoot' /\ ChainStops'
  BY <1>1 DEF UsageAddsUp, Overshoot, ChainStops
<1> QED BY <1>4, <1>5, <1>6

\* Steps that neither cost anything nor end an attempt.
LEMMA FreeStep ==
    Inv /\ (Disabled \/ Throw \/ Exhausted \/ UseTool \/ Correct \/ NextTurn
            \/ UNCHANGED vars) => Inv'
<1> SUFFICES ASSUME Inv, \/ Disabled \/ Throw \/ Exhausted \/ UseTool \/ Correct
                         \/ NextTurn \/ UNCHANGED vars
             PROVE  Inv'
  OBVIOUS
<1>1. /\ UNCHANGED <<max_cost, ends, ceiling, turns, run_usage, usage, spent, cut, lost>>
      /\ \/ phase = "next" /\ phase' \in {"done", "thrown"}
         \/ phase \in {"reply", "tools"} /\ phase' \in {"tools", "call"}
         \/ phase' = phase
  BY DEF Disabled, Throw, Exhausted, UseTool, Correct, NextTurn, vars, attempt
<1> QED BY <1>1 DEF Inv, Ledger, Idle, WithinCeiling, Overshoot, UsageAddsUp, ChainStops

\* The inductive invariant of the model stage.
THEOREM StageInvariant == Spec => []Inv
<1>1. Inv /\ [Next]_vars => Inv'
  BY CallStep, CeilingStep, EndStep, FailUncheckedStep, AttemptStep, FreeStep
     DEF Next, Done
<1> QED BY <1>1, InvInit, PTL DEF Spec

-----------------------------------------------------------------------------
(* The theorems *)

\* What the run reports, what it is at, what the ceiling cut off and what
\* unreadable replies cost add up to what was really paid.
THEOREM NoCostIsCountedTwice == Spec => []UsageAddsUp
<1>1. Inv => UsageAddsUp
  BY DEF Inv
<1> QED BY <1>1, StageInvariant, PTL

\* All attempts of the chain together overshoot the ceiling by less than one
\* call, those apart that ended in an unreadable reply.
THEOREM OneCeilingForAllAttempts == Spec => []CeilingCoversTheRun
<1>1. Inv => CeilingCoversTheRun
  <2> SUFFICES ASSUME Inv, max_cost > 0
               PROVE  spent < max_cost + MaxCallCost + lost
    BY DEF CeilingCoversTheRun
  <2>1. usage + run_usage + cut < max_cost + MaxCallCost
    BY DEF Inv, Overshoot
  <2>2. usage + run_usage + cut + lost = spent
    BY DEF Inv, UsageAddsUp
  <2> QED BY <2>1, <2>2, CallCostIsNat DEF Inv, Ledger
<1> QED BY <1>1, StageInvariant, PTL

\* An accepted analysis and a reached ceiling are the end of the chain.
THEOREM TheChainStops == Spec => []ChainStops
<1>1. Inv => ChainStops
  BY DEF Inv
<1> QED BY <1>1, StageInvariant, PTL

-----------------------------------------------------------------------------
(* The self-test: what the second pass makes of one canary *)

\* assert_detected of Verify, for the canary c.
Seen(c) ==
    \E s \in CanarySignals :
        /\ s.taxonomy = expect_taxonomy[c]
        /\ s.entities \cap CANARY_ENTITIES[c] # {}

\* A canary is seen exactly when its own events of this run met an analyzer
\* that works, in a window long enough for the pattern: the other canary's
\* events never stand in for it.
LEMMA SeenIsEarned ==
    ASSUME NEW c \in Canaries, injected \subseteq Canaries
    PROVE  Seen(c) <=> /\ c \in injected
                       /\ expect_taxonomy[c] \notin broken
                       /\ Noticeable(c, hours)
<1>1. \A d \in Canaries :
        /\ Synthetic(d).taxonomy = expect_taxonomy[d]
        /\ Synthetic(d).entities = CANARY_ENTITIES[d]
  BY DEF Synthetic, Behaviour
<1>2. \A d \in Canaries : expect_taxonomy[d] = expect_taxonomy[c] => d = c
  BY DEF Canaries, expect_taxonomy
<1>3. CANARY_ENTITIES[c] \cap CANARY_ENTITIES[c] # {}
  BY DEF Canaries, CANARY_ENTITIES
<1>4. ASSUME Seen(c)
      PROVE  c \in injected /\ expect_taxonomy[c] \notin broken /\ Noticeable(c, hours)
  <2>1. PICK s \in CanarySignals : s.taxonomy = expect_taxonomy[c]
    BY <1>4 DEF Seen
  <2>2. PICK d \in injected : /\ s = Synthetic(d)
                              /\ expect_taxonomy[d] \notin broken
                              /\ Noticeable(d, hours)
    BY <2>1 DEF CanarySignals
  <2>3. d = c
    BY <1>1, <1>2, <2>1, <2>2
  <2> QED BY <2>2, <2>3
<1>5. ASSUME c \in injected, expect_taxonomy[c] \notin broken, Noticeable(c, hours)
      PROVE  Seen(c)
  <2>1. Synthetic(c) \in CanarySignals
    BY <1>5 DEF CanarySignals
  <2> QED BY <1>1, <1>3, <2>1 DEF Seen
<1> QED BY <1>4, <1>5

-----------------------------------------------------------------------------
(* The self-test: types *)

\* Types are preserved by every step of the self-test.
LEMMA TypeStep == SelfTestTypes /\ [SelfTestNext]_SelfTestVars => SelfTestTypes'
<1> SUFFICES ASSUME SelfTestTypes, [SelfTestNext]_SelfTestVars PROVE SelfTestTypes'
  OBVIOUS
<1> USE DEF SelfTestTypes
<1>1. CASE Collect
  <2>1. NoResults \in Results
    <3>1. NoResults \in [{} -> BOOLEAN]
      BY DEF NoResults
    <3> QED BY <3>1 DEF Results
  <2>2. NoSignals \in [Behaviours -> {"none", "real", "canary"}]
    BY DEF NoSignals
  <2>3. run' \in 0..MaxRuns
    <3>1. run \in 0..MaxRuns /\ run < MaxRuns /\ run' = run + 1
      BY <1>1 DEF Collect
    <3>2. MaxRuns \in Nat
      BY BoundsAssumption
    <3> HIDE DEF SelfTestTypes
    <3> QED BY <3>1, <3>2
  <2> QED BY <1>1, <2>1, <2>2, <2>3 DEF Collect, Stages, Rollups
<1>2. CASE Inject
  BY <1>2 DEF Inject, input, applicable, Stages
<1>3. CASE Analyze
  <2>1. counted' \subseteq Behaviours
    BY <1>3 DEF Analyze, RealEvents, Behaviours
  <2>2. signals' \in [Behaviours -> {"none", "real", "canary"}]
    BY <1>3 DEF Analyze
  <2> QED BY <1>3, <2>1, <2>2 DEF Analyze, input, Stages
<1>4. CASE Verify
  <2>1. results' \in [tokens -> BOOLEAN]
    BY <1>4 DEF Verify
  <2>2. results' \in Results
    BY <2>1 DEF Results
  <2> QED BY <1>4, <2>2 DEF Verify, input, Stages
<1>5. CASE Adjudicate
  BY <1>5 DEF Adjudicate, input, rollup, Stages, Rollups
<1>6. CASE Crash
  BY <1>6 DEF Crash, input, Stages
<1>7. CASE Restart
  BY <1>7 DEF Restart, input
<1>8. CASE UNCHANGED SelfTestVars
  BY <1>8 DEF SelfTestVars
<1> QED BY <1>1, <1>2, <1>3, <1>4, <1>5, <1>6, <1>7, <1>8 DEF SelfTestNext, OutOfRuns

LEMMA TypeInit == SelfTestInit => SelfTestTypes
<1> SUFFICES ASSUME SelfTestInit PROVE SelfTestTypes
  OBVIOUS
<1>1. NoResults \in [{} -> BOOLEAN]
  BY DEF NoResults
<1>2. results \in Results
  BY <1>1 DEF SelfTestInit, Results
<1>3. signals \in [Behaviours -> {"none", "real", "canary"}]
  BY DEF SelfTestInit, NoSignals
<1>4. run \in 0..MaxRuns
  <2>1. run = 0 /\ MaxRuns \in Nat
    BY BoundsAssumption DEF SelfTestInit
  <2> QED BY <2>1
<1> QED BY <1>2, <1>3, <1>4 DEF SelfTestInit, SelfTestTypes, Stages, Rollups

\* Every variable of the self-test keeps its type.
THEOREM TypeCorrect == SelfTestSpec => []SelfTestTypes
BY TypeInit, TypeStep, PTL DEF SelfTestSpec

-----------------------------------------------------------------------------
(* The self-test: the verdict *)

\* Before verify a run has no verdict; between the stages that follow the
\* injection the canaries injected are those whose kind was supplied, and they
\* have tokens; the verdict is about every canary with a token.
Fresh == stage \in {"persist", "analyze", "verify"} => DOMAIN results = {} /\ status = ""
InjectedForThisRun ==
    stage \in {"analyze", "verify"} => injected = applicable(kinds) /\ injected \subseteq tokens
Judged == stage = "adjudicate" => injected \subseteq DOMAIN results /\ status = ""

Verdict ==
    /\ SelfTestTypes
    /\ Fresh
    /\ InjectedForThisRun
    /\ Judged
    /\ DetectedMeansDetected
    /\ BrokenIsNeverGreen
    /\ FailureIsExplained

LEMMA VerdictInit == SelfTestInit => Verdict
<1> SUFFICES ASSUME SelfTestInit PROVE Verdict
  OBVIOUS
<1>1. DOMAIN results = {}
  BY DEF SelfTestInit, NoResults
<1> QED BY <1>1, TypeInit
        DEF SelfTestInit, Verdict, Fresh, InjectedForThisRun, Judged, DetectedMeansDetected,
            BrokenIsNeverGreen, FailureIsExplained

\* The verdict is about this run: every step keeps that.
LEMMA VerdictStep == Verdict /\ [SelfTestNext]_SelfTestVars => Verdict'
<1> SUFFICES ASSUME Verdict, [SelfTestNext]_SelfTestVars PROVE Verdict'
  OBVIOUS
<1>0. SelfTestTypes'
  BY TypeStep DEF Verdict
<1> USE DEF Verdict, Fresh, InjectedForThisRun, Judged, DetectedMeansDetected,
            BrokenIsNeverGreen, FailureIsExplained
<1>1. CASE Collect
  <2>1. DOMAIN results' = {}
    BY <1>1 DEF Collect, NoResults
  <2> QED BY <1>0, <1>1, <2>1 DEF Collect
<1>2. CASE Inject
  BY <1>0, <1>2 DEF Inject, input
<1>3. CASE Analyze
  BY <1>0, <1>3 DEF Analyze, input
<1>4. CASE Verify
  <2>1. /\ stage' = "adjudicate" /\ status' = "" /\ DOMAIN results' = tokens
        /\ \A c \in tokens : results'[c] = Seen(c)
        /\ UNCHANGED <<hours, kinds, broken, injected, tokens, status>>
    BY <1>4 DEF Verify, input, Seen
  <2>2. tokens \subseteq Canaries /\ injected \subseteq Canaries
    BY DEF SelfTestTypes
  <2>3. \A c \in tokens : Seen(c) <=> /\ c \in injected
                                      /\ expect_taxonomy[c] \notin broken
                                      /\ Noticeable(c, hours)
    BY <2>2, SeenIsEarned
  <2>4. injected = applicable(kinds) /\ injected \subseteq tokens
    BY <1>4 DEF Verify
  <2>5. DetectedMeansDetected'
    BY <2>1, <2>3
  <2>6. FailureIsExplained'
    <3> SUFFICES ASSUME NEW c \in tokens, ~results'[c]
                 PROVE  \/ expect_taxonomy[c] \in broken
                        \/ ~Noticeable(c, hours)
                        \/ c \notin injected /\ requires_kinds[c] \notin kinds
      BY <2>1
    <3>1. ~Seen(c)
      BY <2>1
    <3> QED BY <3>1, <2>2, <2>3, <2>4 DEF applicable
  <2> QED BY <1>0, <2>1, <2>4, <2>5, <2>6
<1>5. CASE Adjudicate
  <2>1. status' = "GREEN" => \A c \in DOMAIN results : results[c]
    BY <1>5 DEF Adjudicate, rollup
  <2>2. injected \subseteq DOMAIN results
    BY <1>5 DEF Adjudicate
  <2>3. BrokenIsNeverGreen'
    BY <1>5, <2>1, <2>2 DEF Adjudicate, input
  <2> QED BY <1>0, <1>5, <2>3 DEF Adjudicate, input
<1>6. CASE Crash
  BY <1>0, <1>6 DEF Crash, input
<1>7. CASE Restart
  BY <1>0, <1>7 DEF Restart, input
<1>8. CASE UNCHANGED SelfTestVars
  BY <1>0, <1>8 DEF SelfTestVars, applicable
<1> QED BY <1>1, <1>2, <1>3, <1>4, <1>5, <1>6, <1>7, <1>8 DEF SelfTestNext, OutOfRuns

\* The inductive invariant of the self-test.
THEOREM VerdictInvariant == SelfTestSpec => []Verdict
BY VerdictInit, VerdictStep, PTL DEF SelfTestSpec

\* A canary is reported as detected only when its own events of this run went
\* through an analyzer that works.
THEOREM DetectionIsGenuine == SelfTestSpec => []DetectedMeansDetected
<1>1. Verdict => DetectedMeansDetected
  BY DEF Verdict
<1> QED BY <1>1, VerdictInvariant, PTL

\* A run whose injected canary met a broken analyzer is never GREEN.
THEOREM BrokenAnalyzersShow == SelfTestSpec => []BrokenIsNeverGreen
<1>1. Verdict => BrokenIsNeverGreen
  BY DEF Verdict
<1> QED BY <1>1, VerdictInvariant, PTL

\* A failed canary has one of three causes: a broken analyzer, a window too
\* short for the pattern, a token left over from an earlier run.
THEOREM FailuresAreExplained == SelfTestSpec => []FailureIsExplained
<1>1. Verdict => FailureIsExplained
  BY DEF Verdict
<1> QED BY <1>1, VerdictInvariant, PTL

-----------------------------------------------------------------------------
(* The self-test: what the canaries hide *)

\* The names of real traffic differ from the reserved ones.
RealNames == {"client", "domain", "attacker"}

\* Only the port can make mark_signals hide a real signal: where no real probe
\* knocks on the port the prober canary uses, every real signal stays.
THEOREM OnlyThePortHidesSignals ==
    ASSUME Ports \cap UNION {CANARY_ENTITIES[c] : c \in Canaries} = {}
    PROVE  SelfTestSpec => []RealSignalsSurvive
<1> DEFINE Names == UNION {CANARY_ENTITIES[c] : c \in Canaries}
<1>1. \A b \in RealBehaviours : b.entities \cap Names = {}
  <2>1. RealNames \cap Names = {}
    BY DEF RealNames, Canaries, CANARY_ENTITIES
  <2>2. \A b \in RealBehaviours : b.entities \subseteq RealNames \cup Ports
    BY DEF RealBehaviours, Behaviour, RealNames
  <2> QED BY <2>1, <2>2
<1>2. RealBehaviours \subseteq Behaviours
  BY DEF Behaviours
<1>3. SelfTestInit => RealSignalsSurvive
  BY <1>2 DEF SelfTestInit, NoSignals, RealSignalsSurvive
<1>4. SelfTestTypes /\ RealSignalsSurvive /\ [SelfTestNext]_SelfTestVars => RealSignalsSurvive'
  <2> SUFFICES ASSUME SelfTestTypes, RealSignalsSurvive, [SelfTestNext]_SelfTestVars
               PROVE  RealSignalsSurvive'
    OBVIOUS
  <2>1. CASE Collect
    BY <2>1, <1>2 DEF Collect, NoSignals, RealSignalsSurvive
  <2>2. CASE Analyze
    <3>1. entity_values \subseteq Names
      BY DEF SelfTestTypes, entity_values
    <3> QED BY <2>2, <3>1, <1>1, <1>2 DEF Analyze, RealSignalsSurvive
  <2>3. CASE UNCHANGED signals
    BY <2>3 DEF RealSignalsSurvive
  <2> QED BY <2>1, <2>2, <2>3
        DEF SelfTestNext, Inject, Verify, Adjudicate, Crash, Restart, OutOfRuns, SelfTestVars
<1> QED BY <1>3, <1>4, TypeCorrect, PTL DEF SelfTestSpec
=============================================================================
