---------------------------- MODULE Investigate ----------------------------
(***************************************************************************)
(* The model stage: Runner._investigate with its fallback chain, the       *)
(* harness around one attempt, the agent loop every provider implements,   *)
(* and the cost ceiling that spans them.                                   *)
(*                                                                         *)
(* A model's reply is what it makes the loop do: call tools, submit a well *)
(* or badly formed analysis, stop without one, or be unreadable.  Costs    *)
(* are whole units; tools change nothing here, their budget only changes   *)
(* what they answer.                                                       *)
(***************************************************************************)
EXTENDS Naturals, Sequences

CONSTANTS
    Chain,       \* length of settings.ai_chain: the active model and fallbacks
    Ceilings,    \* values of DAWNPATROL_AI_MAX_COST_USD, 0 for none
    MaxTurns,    \* DAWNPATROL_AI_MAX_TURNS
    MaxCallCost  \* bound: what one model call costs at most

\* Follow-ups a model gets to fix a badly formed submission.
FORMAT_CORRECTIONS == 1

ASSUME ChainAssumption == Chain \in Nat \ {0}

ASSUME LimitsAssumption ==
    /\ Ceilings \subseteq Nat
    /\ MaxTurns \in Nat \ {0}
    /\ MaxCallCost \in Nat \ {0}

\* How an attempt may end.
Ends == {"ok", "unavailable", "error", "raised", "ceiling", "not tried"}

VARIABLES
    max_cost,    \* the run's ceiling
    phase,       \* where the stage is
    ends,        \* how each attempt so far ended
    ceiling,     \* what Budget.check allows this attempt, 0 for anything
    turns,       \* model calls of this attempt
    corrections, \* format corrections of this attempt
    run_usage,   \* AgentRun.usage: cost of this attempt so far
    usage,       \* the cost _investigate sums up and the run reports
    spent,       \* what all model calls really cost
    cut,         \* cost of the attempt the ceiling stopped
    lost         \* cost of attempts that ended in an unreadable reply

attempt == <<ceiling, turns, corrections, run_usage>>
vars == <<max_cost, phase, ends, attempt, usage, spent, cut, lost>>

Phases == {"next", "call", "reply", "tools", "done", "thrown"}

TypeOK ==
    /\ max_cost \in Ceilings
    /\ phase \in Phases
    /\ ends \in Seq(Ends) /\ Len(ends) <= Chain
    /\ ceiling \in 0..max_cost
    /\ turns \in 0..MaxTurns
    /\ corrections \in 0..FORMAT_CORRECTIONS
    /\ run_usage \in 0..(MaxTurns * MaxCallCost)
    /\ {usage, spent, cut, lost} \subseteq 0..(Chain * MaxTurns * MaxCallCost)

Init ==
    /\ max_cost \in Ceilings
    /\ phase = "next"
    /\ ends = <<>>
    /\ ceiling = 0 /\ turns = 0 /\ corrections = 0 /\ run_usage = 0
    /\ usage = 0 /\ spent = 0 /\ cut = 0 /\ lost = 0

-----------------------------------------------------------------------------
(* The chain *)

\* The attempt is over: what it used is added up and the loop goes on, or not.
End(how, used, next) ==
    /\ ends' = Append(ends, how)
    /\ usage' = usage + used
    /\ phase' = next
    /\ ceiling' = 0 /\ turns' = 0 /\ corrections' = 0 /\ run_usage' = 0

\* DAWNPATROL_AI_ENABLED is off.
Disabled ==
    /\ phase = "next"
    /\ ends = <<>>
    /\ phase' = "done"
    /\ UNCHANGED <<max_cost, ends, attempt, usage, spent, cut, lost>>

\* Nothing is left of the run's ceiling for another attempt.
NothingLeft == max_cost > 0 /\ usage >= max_cost

\* Slip: every attempt gets the whole ceiling.
WholeCeiling == max_cost

\* A fallback gets what the failed attempts left of the ceiling.
Remaining == IF max_cost > 0 THEN max_cost - usage ELSE 0

NotTried ==
    /\ phase = "next"
    /\ Len(ends) < Chain
    /\ NothingLeft
    /\ End("not tried", 0, "done")
    /\ UNCHANGED <<max_cost, spent, cut, lost>>

\* The provider cannot be built or says that it is not available.
Unavailable ==
    /\ phase = "next"
    /\ Len(ends) < Chain
    /\ ~NothingLeft
    /\ End("unavailable", 0, "next")
    /\ UNCHANGED <<max_cost, spent, cut, lost>>

Attempt ==
    /\ phase = "next"
    /\ Len(ends) < Chain
    /\ ~NothingLeft
    /\ ceiling' = Remaining
    /\ phase' = "call"
    /\ UNCHANGED <<max_cost, ends, turns, corrections, run_usage, usage, spent,
                   cut, lost>>

\* Building the tools, the bundle or the prompt throws before the model is
\* called: the exception ends the stage and with it the run.
Throw ==
    /\ phase = "next"
    /\ Len(ends) < Chain
    /\ ~NothingLeft
    /\ phase' = "thrown"
    /\ UNCHANGED <<max_cost, ends, attempt, usage, spent, cut, lost>>

\* No model is left: the run degrades to a statistics-only report.
Exhausted ==
    /\ phase = "next"
    /\ Len(ends) = Chain
    /\ phase' = "done"
    /\ UNCHANGED <<max_cost, ends, attempt, usage, spent, cut, lost>>

-----------------------------------------------------------------------------
(* The agent loop of one attempt *)

\* Budget.check
Tripped(cost) == ceiling > 0 /\ cost >= ceiling

\* Slip: a model call after a format correction is not counted as a turn.
UncountedCall ==
    /\ phase = "call"
    /\ turns < MaxTurns
    /\ turns' = turns + 1 - corrections
    /\ \E cost \in 0..MaxCallCost :
        /\ run_usage' = run_usage + cost
        /\ spent' = spent + cost
        /\ ~ Tripped(run_usage + cost)
    /\ phase' = "reply"
    /\ UNCHANGED <<max_cost, ends, ceiling, corrections, usage, cut, lost>>

\* A model call answers, its cost is added and on_turn finds it below the
\* ceiling.
Call ==
    /\ phase = "call"
    /\ turns < MaxTurns
    /\ turns' = turns + 1
    /\ \E cost \in 0..MaxCallCost :
        /\ run_usage' = run_usage + cost
        /\ spent' = spent + cost
        /\ ~ Tripped(run_usage + cost)
    /\ phase' = "reply"
    /\ UNCHANGED <<max_cost, ends, ceiling, corrections, usage, cut, lost>>

\* ... or at the ceiling: BudgetExceeded leaves run_agent, the harness returns
\* a result without usage, and the chain stops.  The reply is not looked at.
Ceiling ==
    /\ phase = "call"
    /\ turns < MaxTurns
    /\ \E cost \in 0..MaxCallCost :
        /\ Tripped(run_usage + cost)
        /\ spent' = spent + cost
        /\ cut' = run_usage + cost
    /\ End("ceiling", 0, "done")
    /\ UNCHANGED <<max_cost, lost>>

\* Slip: a failed attempt's usage is not added up.
FailedUnbilled ==
    /\ \/ phase \in {"call", "reply"}
       \/ phase = "tools" /\ corrections = FORMAT_CORRECTIONS
    /\ End("error", 0, "next")
    /\ UNCHANGED <<max_cost, spent, cut, lost>>

\* run_agent returns an error: the call failed or there are no turns left
\* ("call"), the model declined or stopped without calling anything
\* ("reply"), or its submission is still badly formed after the correction.
Fail ==
    /\ \/ phase \in {"call", "reply"}
       \/ phase = "tools" /\ corrections = FORMAT_CORRECTIONS
    /\ End("error", run_usage, "next")
    /\ UNCHANGED <<max_cost, spent, cut, lost>>

\* on_turn is optional in the provider contract: a plugin may fail with a cost
\* that no ceiling was checked against (the built-in providers never do).
FailUnchecked ==
    /\ phase = "call"
    /\ turns = 0
    /\ \E cost \in 0..MaxCallCost :
        /\ spent' = spent + cost
        /\ End("error", cost, "next")
    /\ UNCHANGED <<max_cost, cut, lost>>

\* The reply has a shape the provider's code does not expect: the exception
\* leaves run_agent, and the harness returns a result without usage.
Raise ==
    /\ phase = "reply"
    /\ lost' = lost + run_usage
    /\ End("raised", 0, "next")
    /\ UNCHANGED <<max_cost, spent, cut>>

\* A tool answers, with a result, an error or that the tool budget is spent.
UseTool ==
    /\ phase = "reply"
    /\ phase' = "tools"
    /\ UNCHANGED <<max_cost, ends, attempt, usage, spent, cut, lost>>

\* A badly formed submission is sent back for correction.
Correct ==
    /\ phase \in {"reply", "tools"}
    /\ corrections < FORMAT_CORRECTIONS
    /\ corrections' = corrections + 1
    /\ phase' = "tools"
    /\ UNCHANGED <<max_cost, ends, ceiling, turns, run_usage, usage, spent,
                   cut, lost>>

\* Everything the reply called has answered: the next turn.
NextTurn ==
    /\ phase = "tools"
    /\ phase' = "call"
    /\ UNCHANGED <<max_cost, ends, attempt, usage, spent, cut, lost>>

\* A well formed submission ends the attempt and the chain.
Accept ==
    /\ phase \in {"reply", "tools"}
    /\ End("ok", run_usage, "done")
    /\ UNCHANGED <<max_cost, spent, cut, lost>>

Done == phase \in {"done", "thrown"} /\ UNCHANGED vars

Next ==
    \/ Disabled
    \/ NotTried
    \/ Unavailable
    \/ Attempt
    \/ Throw
    \/ Exhausted
    \/ Call
    \/ Ceiling
    \/ Fail
    \/ FailUnchecked
    \/ Raise
    \/ UseTool
    \/ Correct
    \/ NextTurn
    \/ Accept
    \/ Done

Spec == Init /\ [][Next]_vars

\* Every model call has a timeout and every tool returns.
FairSpec == Spec /\ WF_vars(Next)

-----------------------------------------------------------------------------

\* Whatever the chain does, all attempts together overshoot the ceiling by
\* less than one call, those apart that ended in an unreadable reply.
CeilingCoversTheRun ==
    max_cost > 0 => spent < max_cost + MaxCallCost + lost

\* The usage of a failed or successful attempt is never lost or counted twice:
\* only attempts left by an exception are missing from the sum.
UsageAddsUp == usage + run_usage + cut + lost = spent

\* A run stopped by its ceiling never falls back, and an accepted analysis
\* ends the chain: nothing comes after either.
ChainStops ==
    \A i \in DOMAIN ends :
        ends[i] \in {"ok", "ceiling", "not tried"} =>
            i = Len(ends) /\ phase = "done"

\* The stage ends: with an analysis or without one, or it throws.
StageEnds == <>(phase \in {"done", "thrown"})
=============================================================================
