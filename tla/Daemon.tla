------------------------------- MODULE Daemon -------------------------------
(***************************************************************************)
(* `dawnpatrol serve` over time: the cron loop of Scheduler.serve with its *)
(* one-slice sleeps and its heartbeat, the lock it shares with triggered   *)
(* runs, the stop signal, and what the health check sees.  What a run does *)
(* is RunPipeline's subject; here it is something that takes time.         *)
(*                                                                         *)
(* The clock counts modulo the schedule's period, so nothing bounds how    *)
(* long the daemon lives.  It moves while the loop sleeps or works; what   *)
(* the loop does between two sleeps takes no time.                         *)
(***************************************************************************)
EXTENDS Integers, FiniteSets, FiniteSetsExt

CONSTANTS
    Period,      \* length of the schedule's period
    Schedules,   \* sets of fire times within a period; {} is no schedule
    Jitters,     \* values of DAWNPATROL_SCHEDULE_JITTER_SECONDS
    Slice,       \* longest sleep (60 s)
    HealthLimit  \* heartbeat age the health check accepts (900 s)

ASSUME TimesAssumption ==
    /\ Period \in Nat \ {0}
    /\ Schedules \subseteq SUBSET (0..(Period - 1))
    /\ Jitters \subseteq Nat
    /\ Slice \in Nat \ {0}
    /\ HealthLimit \in Nat /\ HealthLimit >= Slice

VARIABLES
    cron,         \* the schedule
    jitter,       \* added to every delay
    run_on_start, \* DAWNPATROL_RUN_ON_START
    clock,        \* time within the period
    phase,        \* where Scheduler.serve is
    trigger,      \* what _run_once is called for
    delay,        \* Scheduler.serve's delay
    slice,        \* what is left of the current sleep
    age,          \* age of the heartbeat, HealthLimit + 1 when older or torn
    missed,       \* heartbeats that could not be written since, see Many
    stop,         \* whether a stop signal came
    lock          \* who holds run_lock

settings == <<cron, jitter, run_on_start>>
file == <<age, missed>>
vars == <<settings, clock, phase, trigger, delay, slice, file, stop, lock>>

\* As many sleeps as the health check waits for a heartbeat.  `missed` counts up to
\* it, and is there at once when the heartbeat is torn or a run went by without any.
Many == HealthLimit \div Slice

Phases == {"boot", "plan", "wait", "due", "run", "exiting", "exited"}

TypeOK ==
    /\ cron \in Schedules
    /\ jitter \in Jitters
    /\ run_on_start \in BOOLEAN
    /\ clock \in 0..(Period - 1)
    /\ phase \in Phases
    /\ trigger \in {"", "startup", "scheduled"}
    /\ delay \in 0..(Period + jitter)
    /\ slice \in 0..Slice
    /\ age \in 0..(HealthLimit + 1)
    /\ missed \in 0..Many
    /\ stop \in BOOLEAN
    /\ lock \in {"free", "job", "trigger"}

Init ==
    /\ cron \in Schedules
    /\ jitter \in Jitters
    /\ run_on_start \in BOOLEAN
    /\ clock \in 0..(Period - 1)
    /\ phase = "boot"
    /\ trigger = ""
    /\ delay = 0 /\ slice = 0
    /\ age \in 0..(HealthLimit + 1)
    /\ missed = Many
    /\ stop = FALSE
    /\ lock = "free"

-----------------------------------------------------------------------------
(* Time *)

\* croniter's next fire strictly after now.
UntilFire(now) == Min({d \in 1..Period : (now + d) % Period \in cron})

\* Slip: the fire times are computed in another time zone than the clock's.
UntilFireElsewhere(now) == UntilFire((now + 1) % Period)

next_fire(now) == UntilFire(now)

\* Slip: one sleep for the whole delay.
WholeDelay(d) == d

\* min(delay, 60.0)
slice_seconds(d) == IF d < Slice THEN d ELSE Slice

Tick ==
    /\ \/ phase = "wait" /\ slice > 0 /\ ~stop /\ slice' = slice - 1
       \/ phase \in {"run", "exiting"} /\ UNCHANGED slice
    /\ clock' = (clock + 1) % Period
    /\ age' = IF age > HealthLimit THEN age ELSE age + 1
    /\ UNCHANGED <<settings, phase, trigger, delay, missed, stop, lock>>

\* touch_heartbeat.  An OSError is swallowed: it leaves the old heartbeat, or, after
\* the file was truncated, none that can be read.
Written == age' = 0 /\ missed' = 0
Kept    == UNCHANGED age /\ missed' = IF missed < Many THEN missed + 1 ELSE Many
Torn    == age' = HealthLimit + 1 /\ missed' = Many
Touch   == Written \/ Kept \/ Torn

\* What cmd_healthcheck says of the file.
Healthy == age <= HealthLimit

-----------------------------------------------------------------------------
(* Scheduler.serve *)

\* The first heartbeat, and the startup run when one is asked for or there is
\* no schedule.
Boot ==
    /\ phase = "boot"
    /\ Touch
    /\ IF run_on_start \/ cron = {}
       THEN phase' = "due" /\ trigger' = "startup"
       ELSE phase' = "plan" /\ UNCHANGED trigger
    /\ UNCHANGED <<settings, clock, delay, slice, stop, lock>>

\* The head of the loop: how long until the next fire.
Plan ==
    /\ phase = "plan"
    /\ ~stop
    /\ delay' = next_fire(clock) + jitter
    /\ slice' = slice_seconds(delay')
    /\ phase' = "wait"
    /\ UNCHANGED <<settings, clock, trigger, file, stop, lock>>

\* A sleep is over: touch the heartbeat, then sleep on or run.
SliceOver ==
    /\ phase = "wait"
    /\ slice = 0
    /\ ~stop
    /\ delay' = delay - slice_seconds(delay)
    /\ Touch
    /\ IF delay' > 0
       THEN slice' = slice_seconds(delay') /\ UNCHANGED <<phase, trigger>>
       ELSE phase' = "due" /\ trigger' = "scheduled" /\ UNCHANGED slice
    /\ UNCHANGED <<settings, clock, stop, lock>>

\* Slip: only the head of the loop looks at the stop signal.
StopAtLoopHead ==
    /\ phase = "plan"
    /\ stop
    /\ phase' = "exiting"
    /\ UNCHANGED <<settings, clock, trigger, delay, slice, file, stop, lock>>

\* A stop signal ends the sleep and the loop.
StopLoop ==
    /\ phase \in {"plan", "wait"}
    /\ stop
    /\ phase' = "exiting"
    /\ UNCHANGED <<settings, clock, trigger, delay, slice, file, stop, lock>>

\* After _run_once: without a schedule there is nothing to wait for.
AfterRun == IF cron = {} THEN "exiting" ELSE "plan"

\* guarded_run gets the lock, or _run_once is over at once; a skipped run is
\* not made up for.  No heartbeat is written until the run is over.
StartJob ==
    /\ phase = "due"
    /\ lock = "free"
    /\ lock' = "job"
    /\ phase' = "run"
    /\ missed' = Many
    /\ UNCHANGED <<settings, clock, trigger, delay, slice, age, stop>>

SkipJob ==
    /\ phase = "due"
    /\ lock # "free"
    /\ Touch
    /\ phase' = AfterRun
    /\ UNCHANGED <<settings, clock, trigger, delay, slice, stop, lock>>

\* Slip: an exception out of the run is not caught.
JobMayEndTheLoop ==
    /\ phase = "run"
    /\ lock' = "free"
    /\ Touch
    /\ phase' \in {AfterRun, "exiting"}
    /\ UNCHANGED <<settings, clock, trigger, delay, slice, stop>>

\* The run returns or throws, which changes nothing for the loop.
EndJob ==
    /\ phase = "run"
    /\ lock' = "free"
    /\ Touch
    /\ phase' = AfterRun
    /\ UNCHANGED <<settings, clock, trigger, delay, slice, stop>>

-----------------------------------------------------------------------------
(* Around it *)

\* The signal handler sets an event and does nothing else.
Signal ==
    /\ phase \notin {"exiting", "exited"}
    /\ ~stop
    /\ stop' = TRUE
    /\ UNCHANGED <<settings, clock, phase, trigger, delay, slice, file, lock>>

\* trigger_analysis in a worker thread of the MCP server, which starts before
\* the loop.
StartTrigger ==
    /\ phase \notin {"exiting", "exited"}
    /\ lock = "free"
    /\ lock' = "trigger"
    /\ UNCHANGED <<settings, clock, phase, trigger, delay, slice, file, stop>>

EndTrigger ==
    /\ lock = "trigger"
    /\ lock' = "free"
    /\ UNCHANGED <<settings, clock, phase, trigger, delay, slice, file, stop>>

\* serve has returned; the interpreter joins the worker thread of a triggered
\* run before the process ends.
Exit ==
    /\ phase = "exiting"
    /\ lock # "trigger"
    /\ phase' = "exited"
    /\ UNCHANGED <<settings, clock, trigger, delay, slice, file, stop, lock>>

Exited == phase = "exited" /\ UNCHANGED vars

Loop == Boot \/ Plan \/ SliceOver \/ StopLoop \/ StartJob \/ SkipJob

Next ==
    \/ Tick
    \/ Loop
    \/ EndJob
    \/ Signal
    \/ StartTrigger
    \/ EndTrigger
    \/ Exit
    \/ Exited

Spec == Init /\ [][Next]_vars

\* Time passes, the loop goes on, and a run ends: each of its calls has a
\* timeout.  Whether signals and triggers come is open.
FairSpec ==
    /\ Spec
    /\ WF_vars(Tick)
    /\ WF_vars(Loop)
    /\ WF_vars(EndJob)
    /\ WF_vars(EndTrigger)
    /\ WF_vars(Exit)

-----------------------------------------------------------------------------

\* A scheduled job starts exactly at a fire time plus the jitter.
JobsAreOnSchedule ==
    phase = "due" /\ trigger = "scheduled" => (clock - jitter) % Period \in cron

\* However far the next fire is, a waiting loop keeps the heartbeat young enough for
\* the health check.  That fails only inside a run, when the loop has ended, or when
\* so many writes in a row failed as the check waits for: at once only if they left
\* the file torn, or a run had gone by.
WaitingIsHealthy ==
    phase \in {"plan", "wait", "due"} /\ missed < Many => Healthy

\* As long as nobody stops it, the loop gets to its next job again and again.
SchedulerKeepsGoing ==
    cron = {} \/ <>stop \/ []<>(phase = "due")

\* A stop signal ends the process once the work at hand is done, and so does
\* a daemon without a schedule.
StopEndsTheProcess == stop \/ cron = {} ~> phase = "exited"
=============================================================================
