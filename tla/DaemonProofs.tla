----------------------------- MODULE DaemonProofs -----------------------------
(***************************************************************************)
(* What the cron loop keeps to for any period, schedule, jitter, sleep and *)
(* limit of the health check: scheduled jobs are on time, and a waiting    *)
(* daemon is healthy unless its heartbeat could not be written.            *)
(***************************************************************************)
EXTENDS Daemon, WellFoundedInduction, TLAPS

-----------------------------------------------------------------------------
(* Time within a period *)

LEMMA PeriodIsPositive == Period \in Nat /\ Period > 0
BY TimesAssumption

LEMMA ModInRange == ASSUME NEW y \in Int PROVE y % Period \in 0..(Period - 1)
BY PeriodIsPositive

\* What a remainder is.
LEMMA ModUnique ==
    ASSUME NEW y \in Int, NEW q \in Int, NEW r \in Int,
           y = q * Period + r, 0 <= r, r < Period
    PROVE  y % Period = r
BY PeriodIsPositive

LEMMA ModSplit ==
    ASSUME NEW y \in Int
    PROVE  \E q \in Int, r \in Int : y = q * Period + r /\ 0 <= r /\ r < Period
<1>1. /\ y \div Period \in Int /\ y % Period \in Int
      /\ y = (y \div Period) * Period + (y % Period)
      /\ 0 <= y % Period /\ y % Period < Period
  BY PeriodIsPositive
<1> QED BY <1>1

\* A period later is the same time.
LEMMA ModPeriod == ASSUME NEW y \in Int PROVE (y + Period) % Period = y % Period
<1>1. PICK q \in Int, r \in Int : y = q * Period + r /\ 0 <= r /\ r < Period
  BY ModSplit
<1>2. (q + 1) * Period = q * Period + Period
  BY PeriodIsPositive
<1>3. q + 1 \in Int /\ y + Period \in Int /\ y + Period = (q + 1) * Period + r
  BY <1>1, <1>2, PeriodIsPositive
<1>4. (y + Period) % Period = r
  BY <1>1, <1>3, ModUnique
<1>5. y % Period = r
  BY <1>1, ModUnique
<1> QED BY <1>4, <1>5

\* The clock goes on and what is left of a sleep shrinks: their sum stays.
LEMMA ModTick ==
    ASSUME NEW now \in 0..(Period - 1), NEW x \in Int
    PROVE  (((now + 1) % Period) + x) % Period = (now + 1 + x) % Period
<1>1. now \in Int /\ 0 <= now /\ now < Period
  BY PeriodIsPositive
<1>2. CASE now + 1 < Period
  <2>1. (now + 1) % Period = now + 1
    <3>1. now + 1 = 0 * Period + (now + 1) /\ 0 <= now + 1 /\ now + 1 \in Int /\ 0 \in Int
      BY <1>1, PeriodIsPositive
    <3> QED BY <1>2, <3>1, ModUnique
  <2> QED BY <2>1
<1>3. CASE now + 1 = Period
  <2>1. (now + 1) % Period = 0
    <3>1. now + 1 \in Int /\ now + 1 = 1 * Period + 0
      BY <1>1, <1>3, PeriodIsPositive
    <3> QED BY <3>1, ModUnique, PeriodIsPositive
  <2>2. (now + 1 + x) % Period = x % Period
    <3>1. now + 1 + x = x + Period
      BY <1>1, <1>3
    <3>2. (x + Period) % Period = x % Period
      BY ModPeriod
    <3> QED BY <3>1, <3>2
  <2>3. ((now + 1) % Period) + x = x
    BY <2>1
  <2>4. (((now + 1) % Period) + x) % Period = x % Period
    BY <2>3
  <2> QED BY <2>2, <2>4
<1>4. now + 1 < Period \/ now + 1 = Period
  BY <1>1, PeriodIsPositive
<1> QED BY <1>2, <1>3, <1>4

LEMMA LessThan == \A x, y \in Nat : <<y, x>> \in OpToRel(<, Nat) <=> y < x
BY DEF OpToRel

\* A set of numbers that is not empty has a least member.
LEMMA MinIsLeast ==
    ASSUME NEW T \in SUBSET Nat, T # {}
    PROVE  Min(T) \in T
<1>1. PICK x \in T : \A y \in T : ~(<<y, x>> \in OpToRel(<, Nat))
  BY WFMin, NatLessThanWellFounded
<1>2. \A y \in T : ~(y < x)
  BY <1>1, LessThan
<1>3. \A y \in T : x <= y
  BY <1>2
<1> QED BY <1>3 DEF Min

\* croniter finds a fire time within a period when there is one at all.
LEMMA FireIsFound ==
    ASSUME cron \subseteq 0..(Period - 1), cron # {}, clock \in 0..(Period - 1)
    PROVE  next_fire(clock) \in 1..Period /\ (clock + next_fire(clock)) % Period \in cron
<1> DEFINE Fires == {d \in 1..Period : (clock + d) % Period \in cron}
<1>1. PICK c \in cron : TRUE
  OBVIOUS
<1>2. /\ c \in Int /\ 0 <= c /\ c < Period
      /\ clock \in Int /\ 0 <= clock /\ clock < Period
  BY PeriodIsPositive
<1>3. c % Period = c
  <2>1. c = 0 * Period + c /\ 0 \in Int
    BY <1>2, PeriodIsPositive
  <2> QED BY <1>2, <2>1, ModUnique
<1>4. \E d \in 1..Period : (clock + d) % Period \in cron
  <2>1. CASE clock < c
    <3>1. c - clock \in 1..Period /\ clock + (c - clock) = c
      BY <1>2, <2>1, PeriodIsPositive
    <3> QED BY <3>1, <1>3
  <2>2. CASE c <= clock
    <3>1. c - clock + Period \in 1..Period /\ clock + (c - clock + Period) = c + Period
      BY <1>2, <2>2, PeriodIsPositive
    <3>2. (c + Period) % Period = c
      BY <1>2, <1>3, ModPeriod
    <3> QED BY <3>1, <3>2
  <2> QED BY <1>2, <2>1, <2>2
<1>5. Fires \in SUBSET Nat /\ Fires # {}
  BY <1>4
<1>6. Min(Fires) \in Fires
  BY <1>5, MinIsLeast
<1> QED BY <1>6 DEF next_fire, UntilFire

-----------------------------------------------------------------------------
(* The invariant *)

\* What is left to sleep once the current slice is over.
Rest == delay - slice_seconds(delay)

\* The loop waits only with a schedule, and its sleeps end at the fire time
\* plus the jitter.
Aims ==
    /\ phase \in {"plan", "wait"} => cron # {}
    /\ phase = "wait" => (clock + slice + Rest - jitter) % Period \in cron

\* The heartbeat is older by a slice than it should be for every write that
\* failed since the last one.
Fresh ==
    /\ phase \in {"boot", "run"} => missed = Many
    /\ phase \in {"plan", "due"} /\ missed < Many => age <= Slice * missed
    /\ phase = "wait" /\ missed < Many => age + slice <= Slice * missed + Slice

Inv ==
    /\ TypeOK
    /\ Aims
    /\ Fresh
    /\ JobsAreOnSchedule

\* Sleeps that fit into what the health check allows.
LEMMA ManyFits == Many \in Nat /\ Many > 0 /\ Slice * Many <= HealthLimit
<1>1. Slice \in Nat /\ Slice > 0 /\ HealthLimit \in Nat /\ HealthLimit >= Slice
  BY TimesAssumption
<1>2. /\ Many \in Int /\ HealthLimit % Slice \in Int
      /\ HealthLimit = Slice * Many + (HealthLimit % Slice)
      /\ 0 <= HealthLimit % Slice /\ HealthLimit % Slice < Slice
  BY <1>1 DEF Many
<1>3. Many > 0
  <2>1. Slice * Many > 0
    BY <1>1, <1>2
  <2> QED BY <1>1, <1>2, <2>1
<1> QED BY <1>1, <1>2, <1>3

LEMMA OneMore ==
    ASSUME NEW m \in Nat
    PROVE  /\ Slice * m \in Nat
           /\ Slice * (m + 1) = Slice * m + Slice
           /\ m < Many => Slice * m + Slice <= HealthLimit
<1>1. Slice \in Nat /\ Slice > 0 /\ HealthLimit \in Nat
  BY TimesAssumption
<1>2. Slice * m \in Nat /\ Slice * (m + 1) = Slice * m + Slice
  BY <1>1
<1>3. m < Many => Slice * (m + 1) <= Slice * Many
  BY <1>1, ManyFits
<1>4. Slice * Many \in Nat /\ Slice * Many <= HealthLimit
  BY <1>1, ManyFits
<1> QED BY <1>1, <1>2, <1>3, <1>4

LEMMA TypesAreNumbers ==
    ASSUME TypeOK
    PROVE  /\ Slice \in Nat /\ Slice > 0 /\ HealthLimit \in Nat /\ HealthLimit >= Slice
           /\ jitter \in Nat /\ clock \in Nat /\ delay \in Nat /\ slice \in Nat /\ age \in Nat
           /\ slice <= Slice /\ delay <= Period + jitter
           /\ missed \in Nat /\ missed <= Many
           /\ slice_seconds(delay) \in Nat /\ slice_seconds(delay) <= delay
           /\ slice_seconds(delay) <= Slice
           /\ Rest \in Nat /\ Rest <= delay
           /\ cron \subseteq 0..(Period - 1)
<1>1. Slice \in Nat /\ Slice > 0 /\ HealthLimit \in Nat /\ HealthLimit >= Slice
  BY TimesAssumption
<1>2. cron \in Schedules /\ jitter \in Jitters
  BY DEF TypeOK
<1>3. jitter \in Nat /\ cron \subseteq 0..(Period - 1)
  BY <1>2, TimesAssumption
<1>4. /\ clock \in 0..(Period - 1) /\ delay \in 0..(Period + jitter)
      /\ slice \in 0..Slice /\ age \in 0..(HealthLimit + 1) /\ missed \in 0..Many
  BY DEF TypeOK
<1>5. clock \in Nat /\ delay \in Nat /\ slice \in Nat /\ age \in Nat
      /\ slice <= Slice /\ delay <= Period + jitter
      /\ missed \in Nat /\ missed <= Many
  BY <1>1, <1>3, <1>4, PeriodIsPositive, ManyFits
<1>6. slice_seconds(delay) \in Nat /\ slice_seconds(delay) <= delay
      /\ slice_seconds(delay) <= Slice
  BY <1>1, <1>5 DEF slice_seconds
<1> QED BY <1>1, <1>3, <1>5, <1>6 DEF Rest

\* What a heartbeat, written or not, leaves when the last one is a slice old at most.
LEMMA TouchKeepsCount ==
    ASSUME TypeOK, Touch, missed < Many => age <= Slice * missed + Slice
    PROVE  /\ age' \in 0..(HealthLimit + 1) /\ missed' \in 0..Many
           /\ missed' < Many => age' <= Slice * missed'
<1>1. CASE Written
  <2>1. Slice * 0 = 0
    BY TypesAreNumbers
  <2> QED BY <1>1, <2>1, TypesAreNumbers, ManyFits DEF Written
<1>2. CASE Kept
  <2>1. age' = age /\ missed' = IF missed < Many THEN missed + 1 ELSE Many
    BY <1>2 DEF Kept
  <2>2. age' \in 0..(HealthLimit + 1) /\ missed' \in 0..Many
    <3>1. age' \in 0..(HealthLimit + 1)
      BY <2>1 DEF TypeOK
    <3> QED BY <2>1, <3>1, TypesAreNumbers, ManyFits
  <2>3. CASE missed < Many
    <3>1. missed' = missed + 1 /\ age' <= Slice * missed + Slice
      BY <2>1, <2>3
    <3>2. Slice * missed' = Slice * missed + Slice
      BY <3>1, TypesAreNumbers, OneMore
    <3> QED BY <2>2, <3>1, <3>2
  <2>4. CASE ~(missed < Many)
    BY <2>1, <2>2, <2>4, ManyFits
  <2> QED BY <2>3, <2>4
<1>3. CASE Torn
  BY <1>3, TypesAreNumbers, ManyFits DEF Torn
<1> QED BY <1>1, <1>2, <1>3 DEF Touch

LEMMA InvInit == Init => Inv
<1> SUFFICES ASSUME Init PROVE Inv
  OBVIOUS
<1>1. cron \in Schedules /\ jitter \in Jitters /\ clock \in 0..(Period - 1)
  BY DEF Init
<1>2. jitter \in Nat /\ Slice \in Nat /\ HealthLimit \in Nat
  BY <1>1, TimesAssumption
<1>3. delay = 0 /\ slice = 0 /\ age \in 0..(HealthLimit + 1) /\ missed = Many
  BY DEF Init
<1>4. delay \in 0..(Period + jitter) /\ slice \in 0..Slice /\ missed \in 0..Many
  BY <1>2, <1>3, PeriodIsPositive, ManyFits
<1>5. TypeOK
  BY <1>1, <1>3, <1>4 DEF Init, TypeOK, Phases
<1> QED BY <1>5 DEF Init, Inv, Aims, Fresh, JobsAreOnSchedule

\* Time passes in a sleep, in a run, or while the daemon waits for a trigger.
LEMMA TickStep == Inv /\ Tick => Inv'
<1> SUFFICES ASSUME Inv, Tick PROVE Inv'
  OBVIOUS
<1> USE DEF Inv
<1>1. /\ UNCHANGED <<cron, jitter, run_on_start, phase, trigger, delay, missed, stop, lock>>
      /\ clock' = (clock + 1) % Period
      /\ age' = IF age > HealthLimit THEN age ELSE age + 1
      /\ \/ phase = "wait" /\ slice > 0 /\ slice' = slice - 1
         \/ phase \in {"run", "exiting"} /\ slice' = slice
  BY DEF Tick, settings
<1>2. clock' \in 0..(Period - 1)
  <2>1. clock + 1 \in Int
    BY TypesAreNumbers
  <2> QED BY <1>1, <2>1, ModInRange
<1>3. age' \in 0..(HealthLimit + 1) /\ slice' \in 0..Slice
  <2>1. age \in 0..(HealthLimit + 1)
    BY DEF TypeOK
  <2> QED BY <1>1, <2>1, TypesAreNumbers
<1>4. TypeOK'
  BY <1>1, <1>2, <1>3 DEF TypeOK
<1>5. CASE phase = "wait"
  <2>1. slice > 0 /\ slice' = slice - 1 /\ age' <= age + 1
    BY <1>1, <1>5, TypesAreNumbers
  <2>2. Fresh'
    <3>1. Many' = Many
      BY DEF Many
    <3>2. Slice * missed \in Nat
      BY TypesAreNumbers
    <3>3. missed < Many => age + slice <= Slice * missed + Slice
      BY <1>5 DEF Fresh
    <3>4. age' + slice' <= age + slice
      BY <1>1, <1>3, <2>1, TypesAreNumbers
    <3>5. age' \in Nat /\ slice' \in Int
      BY <1>3, <2>1, TypesAreNumbers
    <3>6. missed < Many => age' + slice' <= Slice * missed + Slice
      BY <3>2, <3>3, <3>4, <3>5, TypesAreNumbers
    <3> QED BY <1>1, <1>5, <3>1, <3>6 DEF Fresh
  <2>3. (clock' + slice' + Rest - jitter) % Period = (clock + slice + Rest - jitter) % Period
    <3> DEFINE x == slice - 1 + Rest - jitter
    <3>1. x \in Int
      BY TypesAreNumbers
    <3>2. (((clock + 1) % Period) + x) % Period = (clock + 1 + x) % Period
      <4>1. clock \in 0..(Period - 1)
        BY DEF TypeOK
      <4> QED BY <3>1, <4>1, ModTick
    <3>3. clock' \in Int
      BY <1>2, PeriodIsPositive
    <3>4. clock' + x = clock' + slice' + Rest - jitter
      BY <2>1, <3>3, TypesAreNumbers
    <3>5. clock + 1 + x = clock + slice + Rest - jitter
      BY TypesAreNumbers
    <3> QED BY <1>1, <3>2, <3>4, <3>5
  <2>4. Rest' = Rest
    BY <1>1 DEF Rest, slice_seconds
  <2>5. Aims'
    BY <1>1, <1>5, <2>3, <2>4 DEF Aims
  <2> QED BY <1>1, <1>4, <1>5, <2>2, <2>5 DEF JobsAreOnSchedule
<1>6. CASE phase # "wait"
  BY <1>1, <1>4, <1>6 DEF Aims, Fresh, JobsAreOnSchedule, Many
<1> QED BY <1>5, <1>6

\* The head of the loop aims at the next fire time.
LEMMA PlanStep == Inv /\ Plan => Inv'
<1> SUFFICES ASSUME Inv, Plan PROVE Inv'
  OBVIOUS
<1> USE DEF Inv
<1>1. /\ phase = "plan" /\ phase' = "wait" /\ delay' = next_fire(clock) + jitter
      /\ slice' = slice_seconds(delay')
      /\ UNCHANGED <<cron, jitter, run_on_start, clock, trigger, age, missed, stop, lock>>
  BY DEF Plan, settings, file
<1>2. next_fire(clock) \in 1..Period /\ (clock + next_fire(clock)) % Period \in cron
  <2>1. cron # {} /\ cron \subseteq 0..(Period - 1) /\ clock \in 0..(Period - 1)
    BY <1>1, TypesAreNumbers DEF Aims, TypeOK
  <2> QED BY <2>1, FireIsFound
<1>3. delay' \in Nat /\ delay' <= Period + jitter
  BY <1>1, <1>2, TypesAreNumbers, PeriodIsPositive
<1>4. slice' \in Nat /\ slice' <= Slice /\ slice' <= delay'
  BY <1>1, <1>3, TypesAreNumbers DEF slice_seconds
<1>5. TypeOK'
  <2>1. delay' \in 0..(Period + jitter) /\ slice' \in 0..Slice
    BY <1>3, <1>4, TypesAreNumbers, PeriodIsPositive
  <2> QED BY <1>1, <2>1 DEF TypeOK, Phases, Many
<1>6. (clock' + slice' + Rest' - jitter') % Period \in cron'
  <2>1. Rest' = delay' - slice'
    BY <1>1 DEF Rest
  <2>2. clock' + slice' + Rest' - jitter' = clock + next_fire(clock)
    BY <1>1, <1>2, <1>3, <1>4, <2>1, TypesAreNumbers
  <2> QED BY <1>1, <1>2, <2>2
<1>7. Aims'
  BY <1>1, <1>6 DEF Aims
<1>8. Fresh'
  <2>1. Slice * missed \in Nat /\ Many' = Many
    BY TypesAreNumbers DEF Many
  <2>2. missed < Many => age <= Slice * missed
    BY <1>1 DEF Fresh
  <2>3. missed < Many => age + slice' <= Slice * missed + Slice
    BY <1>4, <2>1, <2>2, TypesAreNumbers
  <2> QED BY <1>1, <2>1, <2>3 DEF Fresh
<1> QED BY <1>1, <1>5, <1>7, <1>8 DEF JobsAreOnSchedule

\* The next sleep starts where the last one ended; the job is due when nothing
\* is left.
LEMMA SliceOverStep == Inv /\ SliceOver => Inv'
<1> SUFFICES ASSUME Inv, SliceOver PROVE Inv'
  OBVIOUS
<1> USE DEF Inv
<1>1. /\ phase = "wait" /\ slice = 0 /\ delay' = Rest /\ Touch
      /\ UNCHANGED <<cron, jitter, run_on_start, clock, stop, lock>>
      /\ \/ /\ delay' > 0 /\ slice' = slice_seconds(delay')
            /\ UNCHANGED <<phase, trigger>>
         \/ /\ ~(delay' > 0) /\ phase' = "due" /\ trigger' = "scheduled"
            /\ slice' = slice
  BY DEF SliceOver, settings, Rest
<1>2. delay' \in Nat /\ delay' <= Period + jitter
  BY <1>1, TypesAreNumbers, PeriodIsPositive
<1>3. slice' \in Nat /\ slice' <= Slice
  BY <1>1, <1>2, TypesAreNumbers DEF slice_seconds
<1>9. /\ age' \in 0..(HealthLimit + 1) /\ missed' \in 0..Many
      /\ missed' < Many => age' <= Slice * missed'
  <2>1. missed < Many => age <= Slice * missed + Slice
    BY <1>1, TypesAreNumbers DEF Fresh
  <2> QED BY <1>1, <2>1, TouchKeepsCount
<1>4. TypeOK'
  <2>1. delay' \in 0..(Period + jitter) /\ slice' \in 0..Slice
    BY <1>2, <1>3, TypesAreNumbers, PeriodIsPositive
  <2>2. Many' = Many
    BY DEF Many
  <2> QED BY <1>1, <1>9, <2>1, <2>2 DEF TypeOK, Phases
<1>8. Fresh'
  <2>1. Many' = Many /\ age' \in Nat /\ missed' \in Nat
    BY <1>9, TypesAreNumbers, ManyFits DEF Many
  <2>2. Slice * missed' \in Nat
    BY <2>1, TypesAreNumbers
  <2>3. missed' < Many => age' + slice' <= Slice * missed' + Slice
    BY <1>3, <1>9, <2>1, <2>2, TypesAreNumbers
  <2> QED BY <1>1, <1>9, <2>1, <2>3 DEF Fresh
<1>5. (clock + delay' - jitter) % Period \in cron
  <2>1. clock + slice + Rest - jitter = clock + delay' - jitter
    BY <1>1, TypesAreNumbers
  <2> QED BY <1>1, <2>1 DEF Aims
<1>6. CASE delay' > 0
  <2>1. phase' = "wait" /\ slice' = slice_seconds(delay') /\ Rest' = delay' - slice'
    BY <1>1, <1>6 DEF Rest
  <2>2. clock' + slice' + Rest' - jitter' = clock + delay' - jitter
    BY <1>1, <1>2, <1>3, <2>1, TypesAreNumbers
  <2> QED BY <1>1, <1>4, <1>5, <1>8, <2>1, <2>2 DEF Aims, JobsAreOnSchedule
<1>7. CASE ~(delay' > 0)
  <2>1. delay' = 0 /\ phase' = "due"
    BY <1>1, <1>2, <1>7
  <2>2. clock' - jitter' = clock + delay' - jitter
    BY <1>1, <2>1, TypesAreNumbers
  <2> QED BY <1>1, <1>4, <1>5, <1>8, <2>1, <2>2 DEF Aims, JobsAreOnSchedule
<1> QED BY <1>6, <1>7

\* What neither sleeps nor plans: the loop gets back to its head only with a
\* schedule and after a heartbeat.
LEMMA OtherStep ==
    Inv /\ (Boot \/ StopLoop \/ StartJob \/ SkipJob \/ EndJob \/ Signal
            \/ StartTrigger \/ EndTrigger \/ Exit \/ UNCHANGED vars) => Inv'
<1> SUFFICES ASSUME Inv, \/ Boot \/ StopLoop \/ StartJob \/ SkipJob \/ EndJob \/ Signal
                         \/ StartTrigger \/ EndTrigger \/ Exit \/ UNCHANGED vars
             PROVE  Inv'
  OBVIOUS
<1> USE DEF Inv
<1>1. UNCHANGED <<cron, jitter, run_on_start, clock, delay, slice>>
  BY DEF Boot, StopLoop, StartJob, SkipJob, EndJob, Signal, StartTrigger, EndTrigger,
         Exit, vars, settings
<1>2. Rest' = Rest
  BY <1>1 DEF Rest, slice_seconds
<1>3. CASE Boot \/ SkipJob \/ EndJob
  <2>1. /\ Touch /\ phase' \in {"plan", "due", "exiting"} /\ phase \in {"boot", "due", "run"}
        /\ phase' = "plan" => cron # {}
        /\ phase' = "due" => trigger' = "startup"
        /\ trigger' \in {trigger, "startup"} /\ lock' \in {"free", lock} /\ stop' = stop
    BY <1>3 DEF Boot, SkipJob, EndJob, AfterRun
  <2>2. /\ age' \in 0..(HealthLimit + 1) /\ missed' \in 0..Many
        /\ missed' < Many => age' <= Slice * missed'
    <3>1. Slice * missed \in Nat
      BY TypesAreNumbers
    <3>2. missed < Many => age <= Slice * missed + Slice
      BY <2>1, <3>1, TypesAreNumbers DEF Fresh
    <3> QED BY <2>1, <3>2, TouchKeepsCount
  <2>3. TypeOK'
    BY <1>1, <2>1, <2>2 DEF TypeOK, Phases, Many
  <2>4. Fresh'
    BY <2>1, <2>2 DEF Fresh, Many
  <2> QED BY <1>1, <2>1, <2>3, <2>4 DEF Aims, JobsAreOnSchedule
<1>4. CASE StopLoop \/ StartJob \/ Exit
  <2>1. /\ age' = age /\ missed' \in {missed, Many} /\ phase' \in {"exiting", "exited", "run"}
        /\ phase' = "run" => missed' = Many
        /\ trigger' = trigger /\ lock' \in {"job", lock} /\ stop' = stop
    BY <1>4 DEF StopLoop, StartJob, Exit, file
  <2>2. Many' = Many /\ missed' \in 0..Many
    BY <2>1, TypesAreNumbers, ManyFits DEF Many
  <2>4. TypeOK'
    BY <1>1, <2>1, <2>2 DEF TypeOK, Phases
  <2> QED BY <1>1, <2>1, <2>2, <2>4 DEF Aims, Fresh, JobsAreOnSchedule
<1>5. CASE Signal \/ StartTrigger \/ EndTrigger \/ UNCHANGED vars
  <2>1. /\ UNCHANGED <<age, missed, phase, trigger>>
        /\ lock' \in {"free", "trigger", lock} /\ stop' \in {TRUE, stop}
    BY <1>5 DEF Signal, StartTrigger, EndTrigger, vars, file
  <2>2. TypeOK'
    BY <1>1, <2>1 DEF TypeOK, Many
  <2> QED BY <1>1, <1>2, <2>1, <2>2 DEF Aims, Fresh, JobsAreOnSchedule, Many
<1> QED BY <1>3, <1>4, <1>5

\* The inductive invariant of the cron loop.
THEOREM LoopInvariant == Spec => []Inv
<1>1. Inv /\ [Next]_vars => Inv'
  BY TickStep, PlanStep, SliceOverStep, OtherStep DEF Next, Loop, Exited
<1> QED BY <1>1, InvInit, PTL DEF Spec

-----------------------------------------------------------------------------
(* The theorems *)

\* A scheduled job starts exactly at a fire time plus the jitter, however the
\* wait was cut into sleeps.
THEOREM JobsStartOnTime == Spec => []JobsAreOnSchedule
<1>1. Inv => JobsAreOnSchedule
  BY DEF Inv
<1> QED BY <1>1, LoopInvariant, PTL

\* A waiting daemon passes the health check, whenever its limit is at least
\* one sleep, until as many heartbeats in a row could not be written as there
\* are sleeps within that limit.
THEOREM WaitingDaemonsAreHealthy == Spec => []WaitingIsHealthy
<1>1. Inv => WaitingIsHealthy
  <2> SUFFICES ASSUME Inv, phase \in {"plan", "wait", "due"}, missed < Many
               PROVE  age <= HealthLimit
    BY DEF WaitingIsHealthy, Healthy
  <2>1. TypeOK
    BY DEF Inv
  <2>2. Slice * missed \in Nat /\ Slice * missed + Slice <= HealthLimit
    BY <2>1, TypesAreNumbers, OneMore
  <2>3. age <= Slice * missed + Slice
    BY <2>1, <2>2, TypesAreNumbers DEF Inv, Fresh
  <2> QED BY <2>1, <2>2, <2>3, TypesAreNumbers
<1> QED BY <1>1, LoopInvariant, PTL
=============================================================================
