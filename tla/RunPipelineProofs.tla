------------------------- MODULE RunPipelineProofs -------------------------
(***************************************************************************)
(* What holds of RunPipeline for every set of runs, workers and outputs    *)
(* and every number of faults.  The argument has layers, each an inductive *)
(* invariant on top of the ones before it: the types and who holds which   *)
(* run, which nothing can disturb (Ownership); what the rows of a held run *)
(* look like, which needs that nobody forces the deletion of an open run   *)
(* (Rows); what a run has stored when it gets to a stage (Whole); what it  *)
(* was asked not to do (Quiet for emails, Obedient for stop points); and   *)
(* what a deletion and the clean-up of an ephemeral run leave (Clean).     *)
(***************************************************************************)
EXTENDS RunPipeline, TLAPS

-----------------------------------------------------------------------------
(* Control *)

LEMMA ControlPoints ==
    /\ Working \subseteq Control
    /\ TryBlock \subseteq Working
    /\ {"idle", "begin", "return", "unlink", "except"} \subseteq Control
    /\ "except" \in Working
    /\ {"idle", "begin", "return", "unlink"} \cap Working = {}
BY DEF Control, Working, TryBlock

LEMMA FaultType ==
    ASSUME faults \in 0..MaxFaults, Fault
    PROVE  faults' \in 0..MaxFaults
<1>1. MaxFaults \in Nat
  BY BoundsAssumption
<1> QED BY <1>1 DEF Fault

\* Most stages only insert rows of one table for the worker's run ...
InsertStep(w) ==
    \E at \in TryBlock, t \in Tables, next \in TryBlock : Stores(w, at, t, next)

\* ... and the others stay in the try block without touching what is stored.
Move(w) ==
    /\ pc[w] \in TryBlock
    /\ \E next \in TryBlock : Goto(w, next)
    /\ todo' \in {todo, [todo EXCEPT ![w] = ChosenOutputs(w)]}
    /\ investigated' \in {investigated, investigated \cup {run[w]}}
    /\ UNCHANGED <<up, lock, run, store, outside, args, faults, lost>>

\* What serving one output changes outside the database.
Served(w, o) ==
    /\ todo' = [todo EXCEPT ![w] = @ \ {o}]
    /\ \/ sent' = sent /\ files' = files
       \/ /\ sent' = [sent EXCEPT ![run[w]] = @ \cup {o}]
          /\ files' \in {files, files \cup {run[w]}}

LEMMA EmitServes ==
    ASSUME NEW w \in Workers, Emit(w)
    PROVE  \E o \in todo[w] : Served(w, o)
BY Zenon DEF Emit, Served, outside

LEMMA UnlessStays ==
    ASSUME NEW w, NEW stage, NEW next \in TryBlock
    PROVE  Unless(w, stage, next) \in TryBlock
BY DEF Unless, TryBlock

LEMMA StepKinds ==
    ASSUME NEW w \in Workers, Pipeline(w)
    PROVE  \/ StartRun(w) \/ InsertStep(w) \/ Move(w) \/ Emit(w) \/ Purge(w)
           \/ Finish(w) \/ RecordFailure(w) \/ Release(w) \/ CliReturn(w) \/ Unlink(w)
<1> DEFINE stages == {"verify", "persist", "metrics", "signals", "ioc", "canaries",
                      "adjudicate", "record", "collect", "investigate", "render",
                      "deliver", "purge", "abort"}
<1>0. stages \subseteq TryBlock
  BY DEF TryBlock
<1>1. CASE Verify(w)
  <2>1. Unless(w, "collect", "persist") \in TryBlock
    BY <1>0, UnlessStays
  <2> QED BY <1>0, <1>1, <2>1 DEF Verify, InsertStep, Tables
<1>2. CASE Persist(w)
  <2>1. Unless(w, "persist", "metrics") \in TryBlock
    BY <1>0, UnlessStays
  <2> QED BY <1>0, <1>2, <2>1 DEF Persist, InsertStep, Tables
<1>3. CASE SaveMetrics(w)
  BY <1>0, <1>3 DEF SaveMetrics, InsertStep, Tables
<1>4. CASE SaveSignals(w)
  BY <1>0, <1>4 DEF SaveSignals, InsertStep, Tables
<1>5. CASE PersistIoc(w)
  <2>1. CASE Stores(w, "ioc", "ioc", "canaries")
    BY <1>0, <2>1 DEF InsertStep, Tables
  <2>2. CASE At(w, "ioc") /\ Goto(w, "canaries")
             /\ UNCHANGED <<up, lock, run, todo, store, outside, history>>
    BY <1>0, <2>2 DEF Move, At, history
  <2> QED BY <1>5, <2>1, <2>2 DEF PersistIoc
<1>6. CASE VerifyCanaries(w)
  <2>1. Unless(w, "analyze", "investigate") \in TryBlock
    BY <1>0, UnlessStays
  <2> QED BY <1>0, <1>6, <2>1 DEF VerifyCanaries, InsertStep, Tables
<1>7. CASE Adjudicate(w)
  <2>1. Unless(w, "adjudicate", "render") \in TryBlock
    BY <1>0, UnlessStays
  <2> QED BY <1>0, <1>7, <2>1 DEF Adjudicate, InsertStep, Tables
<1>8. CASE SaveDeliveries(w)
  BY <1>0, <1>8 DEF SaveDeliveries, InsertStep, Tables
<1>9. CASE Collect(w)
  BY <1>0, <1>9 DEF Collect, Move, At, history
<1>10. CASE Investigate(w)
  BY <1>0, <1>10 DEF Investigate, Move, At, args
<1>11. CASE Render(w)
  <2>1. Unless(w, "render", "deliver") \in TryBlock
    BY <1>0, UnlessStays
  <2> QED BY <1>0, <1>11, <2>1 DEF Render, Move, At, history
<1>12. CASE Delivered(w)
  BY <1>0, <1>12 DEF Delivered, Move, At, history
<1> QED BY <1>1, <1>2, <1>3, <1>4, <1>5, <1>6, <1>7, <1>8, <1>9, <1>10, <1>11, <1>12
        DEF Pipeline

-----------------------------------------------------------------------------
(* Type correctness *)

LEMMA TypesAtStart == Init => TypeOK
<1> SUFFICES ASSUME Init PROVE TypeOK
  OBVIOUS
<1>1. faults \in 0..MaxFaults
  <2>1. MaxFaults \in Nat
    BY BoundsAssumption
  <2>2. faults = 0
    BY DEF Init
  <2> QED BY <2>1, <2>2
<1>2. pc \in [Workers -> Control]
  BY ControlPoints DEF Init
<1>3. row \in [Runs -> RowState]
  BY DEF Init, RowState
<1>4. stopAfter \in [Runs -> STOP_STAGES \cup {""}]
  BY DEF Init
<1> QED BY <1>1, <1>2, <1>3, <1>4 DEF Init, TypeOK

\* A worker from new_run_id until it leaves Runner.run, and until cmd_run has
\* cleaned up after it.
Owns(w) ==
    \/ pc[w] \in Working \cup {"begin"}
    \/ pc[w] = "return" /\ run[w] # NoRun

\* Its run is its own; the types rest on it.
OwnRun == \A w \in Workers : Owns(w) => run[w] \in Runs /\ by[run[w]] = w

\* A worker's own steps keep the types.
LEMMA PipelineTypes ==
    ASSUME TypeOK, OwnRun, NEW w \in Workers, Pipeline(w)
    PROVE  TypeOK'
<1>1. CASE StartRun(w)
  <2>1. pc' \in [Workers -> Control]
    BY <1>1, ControlPoints DEF StartRun, TypeOK, Goto, TryBlock
  <2>2. row' \in [Runs -> RowState]
    BY <1>1 DEF StartRun, TypeOK, RowState
  <2> QED BY <1>1, <2>1, <2>2 DEF StartRun, TypeOK, outside, history, args
<1>2. CASE InsertStep(w)
  <2>1. PICK at \in TryBlock, t \in Tables, next \in TryBlock : Stores(w, at, t, next)
    BY <1>2 DEF InsertStep
  <2>2. pc' \in [Workers -> Control]
    BY <2>1, ControlPoints DEF Stores, TypeOK, Goto
  <2>3. owned' \in [Runs -> SUBSET Tables]
    <3>1. PICK rows \in SUBSET {t} : owned' = [owned EXCEPT ![run[w]] = @ \cup rows]
      BY <2>1 DEF Stores, Insert
    <3>2. rows \subseteq Tables
      OBVIOUS
    <3> QED BY <3>1, <3>2 DEF TypeOK
  <2> QED BY <2>1, <2>2, <2>3 DEF Stores, TypeOK, outside, history, args
<1>3. CASE Move(w)
  <2>1. pc' \in [Workers -> Control]
    BY <1>3, ControlPoints DEF Move, TypeOK, Goto
  <2>2. todo' \in [Workers -> SUBSET Outputs]
    BY <1>3 DEF Move, TypeOK, ChosenOutputs
  <2>3. investigated' \in SUBSET Runs
    <3>1. run[w] \in Runs
      BY <1>3, ControlPoints DEF Move, OwnRun, Owns
    <3> QED BY <1>3, <3>1 DEF Move, TypeOK
  <2> QED BY <1>3, <2>1, <2>2, <2>3 DEF Move, TypeOK, store, outside, args
<1>4. CASE Emit(w)
  <2>0. run[w] \in Runs
    BY <1>4, ControlPoints DEF Emit, At, OwnRun, Owns, TryBlock
  <2>5. PICK o \in todo[w] : Served(w, o)
    BY <1>4, EmitServes
  <2>6. o \in Outputs
    BY DEF TypeOK
  <2>1. todo' \in [Workers -> SUBSET Outputs]
    <3>1. todo \in [Workers -> SUBSET Outputs]
      BY DEF TypeOK
    <3>2. todo' = [todo EXCEPT ![w] = @ \ {o}]
      BY <2>5 DEF Served
    <3> QED BY <3>1, <3>2
  <2>2. sent' \in [Runs -> SUBSET Outputs]
    <3>1. sent \in [Runs -> SUBSET Outputs]
      BY DEF TypeOK
    <3>2. sent' = sent \/ sent' = [sent EXCEPT ![run[w]] = @ \cup {o}]
      BY <2>5 DEF Served
    <3> QED BY <2>0, <2>6, <3>1, <3>2
  <2>3. files' \in SUBSET Runs
    BY <2>0, <2>5 DEF TypeOK, Served
  <2> QED BY <1>4, <2>1, <2>2, <2>3 DEF Emit, TypeOK, store, history, args
<1>5. CASE Purge(w)
  <2>1. pc' \in [Workers -> Control]
    BY <1>5, ControlPoints DEF Purge, TypeOK, Goto, TryBlock
  <2>2. owned' \in [Runs -> SUBSET Tables]
    BY <1>5 DEF Purge, TypeOK
  <2> QED BY <1>5, <2>1, <2>2 DEF Purge, TypeOK, outside, history, args
<1>6. CASE Finish(w)
  <2>1. pc' \in [Workers -> Control]
    BY <1>6, ControlPoints DEF Finish, TypeOK, Goto
  <2>2. row' \in [Runs -> RowState]
    <3>1. OutcomeAt[pc[w]] \in RowState
      BY <1>6 DEF Finish, OutcomeAt, RowState, Closed
    <3> QED BY <1>6, <3>1 DEF Finish, TypeOK, Close
  <2> QED BY <1>6, <2>1, <2>2 DEF Finish, TypeOK, outside, history, args
<1>7. CASE RecordFailure(w)
  <2>1. pc' \in [Workers -> Control]
    BY <1>7, ControlPoints DEF RecordFailure, TypeOK, Goto
  <2>2. row' \in [Runs -> RowState]
    BY <1>7 DEF RecordFailure, TypeOK, Close, RowState, Closed
  <2> QED BY <1>7, <2>1, <2>2 DEF RecordFailure, TypeOK, outside, history, args
<1>8. CASE Release(w)
  <2>1. pc' \in [Workers -> Control]
    BY <1>8, ControlPoints DEF Release, TypeOK, Goto
  <2> QED BY <1>8, <2>1 DEF Release, TypeOK, store, outside, history, args
<1>9. CASE CliReturn(w)
  <2>1. pc' \in [Workers -> Control]
    BY <1>9, ControlPoints DEF CliReturn, TypeOK, Goto
  <2>2. row' \in [Runs -> RowState]
    BY <1>9 DEF CliReturn, TypeOK, EraseRows, RowState
  <2>3. owned' \in [Runs -> SUBSET Tables]
    BY <1>9 DEF CliReturn, TypeOK, EraseRows
  <2>4. run' \in [Workers -> Runs \cup {NoRun}]
    BY <1>9 DEF CliReturn, TypeOK
  <2> QED BY <1>9, <2>1, <2>2, <2>3, <2>4 DEF CliReturn, TypeOK, outside, history, args
<1>10. CASE Unlink(w)
  <2>1. pc' \in [Workers -> Control]
    BY <1>10, ControlPoints DEF Unlink, TypeOK, Goto
  <2> QED BY <1>10, <2>1 DEF Unlink, TypeOK, store, history, args
<1> QED BY StepKinds, <1>1, <1>2, <1>3, <1>4, <1>5, <1>6, <1>7, <1>8, <1>9, <1>10

\* Exceptions and kills keep the types.
LEMMA FailureTypes ==
    ASSUME TypeOK, NEW w \in Workers, Failure(w)
    PROVE  TypeOK'
<1>1. CASE Raise(w)
  <2>1. faults' \in 0..MaxFaults
    BY <1>1, FaultType DEF Raise, TypeOK
  <2>2. pc' \in [Workers -> Control]
    BY <1>1, ControlPoints DEF Raise, TypeOK, Goto
  <2> QED BY <1>1, <2>1, <2>2 DEF Raise, TypeOK, store, outside, args
<1>2. CASE Unwind(w)
  <2>1. faults' \in 0..MaxFaults
    BY <1>2, FaultType DEF Unwind, TypeOK
  <2>2. pc' \in [Workers -> Control]
    BY <1>2, ControlPoints DEF Unwind, TypeOK, Goto
  <2>3. lost' \in SUBSET Runs
    BY <1>2 DEF Unwind, TypeOK, Gone
  <2> QED BY <1>2, <2>1, <2>2, <2>3 DEF Unwind, TypeOK, store, outside, args
<1>3. CASE KillCli(w)
  <2>1. faults' \in 0..MaxFaults
    BY <1>3, FaultType DEF KillCli, TypeOK
  <2>2. pc' \in [Workers -> Control]
    BY <1>3, ControlPoints DEF KillCli, TypeOK, Goto
  <2>3. lost' \in SUBSET Runs
    BY <1>3 DEF KillCli, TypeOK, Gone
  <2> QED BY <1>3, <2>1, <2>2, <2>3 DEF KillCli, TypeOK, store, outside, args
<1> QED BY <1>1, <1>2, <1>3 DEF Failure

LEMMA TypesStep ==
    ASSUME TypeOK, OwnRun, [Next]_vars
    PROVE  TypeOK'
<1>1. ASSUME NEW w \in Workers, Acquire(w) PROVE TypeOK'
  <2>1. PICK r \in Runs : Enter(w, r)
    BY <1>1 DEF Acquire
  <2>2. pc' \in [Workers -> Control]
    BY <2>1, ControlPoints DEF Enter, TypeOK, Goto
  <2>3. by' \in [Runs -> Workers \cup {Nobody}]
    BY <2>1 DEF Enter, TypeOK
  <2>4. run' \in [Workers -> Runs \cup {NoRun}]
    BY <2>1 DEF Enter, TypeOK
  <2> QED BY <1>1, <2>2, <2>3, <2>4 DEF Acquire, TypeOK, store, outside
<1>2. ASSUME NEW w \in Workers, CliRun(w) PROVE TypeOK'
  <2>1. PICK r \in Runs :
            /\ Enter(w, r)
            /\ \E s \in StopChoices : stopAfter' = [stopAfter EXCEPT ![r] = s]
            /\ ephemeral' \in {ephemeral, ephemeral \cup {r}}
    BY <1>2 DEF CliRun
  <2>2. pc' \in [Workers -> Control]
    BY <2>1, ControlPoints DEF Enter, TypeOK, Goto
  <2>3. by' \in [Runs -> Workers \cup {Nobody}]
    BY <2>1 DEF Enter, TypeOK
  <2>4. run' \in [Workers -> Runs \cup {NoRun}]
    BY <2>1 DEF Enter, TypeOK
  <2>5. stopAfter' \in [Runs -> STOP_STAGES \cup {""}]
    BY <2>1, BoundsAssumption DEF TypeOK
  <2>6. ephemeral' \in SUBSET Runs
    BY <2>1 DEF TypeOK
  <2> QED BY <1>2, <2>2, <2>3, <2>4, <2>5, <2>6 DEF CliRun, TypeOK, store, outside
<1>3. ASSUME NEW w \in Workers, DeleteRun(w) PROVE TypeOK'
  <2>1. PICK r \in Runs : EraseRows(r) /\ run' = [run EXCEPT ![w] = r]
    BY <1>3 DEF DeleteRun
  <2>2. pc' \in [Workers -> Control]
    BY <1>3, ControlPoints DEF DeleteRun, TypeOK, Goto
  <2>3. row' \in [Runs -> RowState]
    BY <2>1 DEF EraseRows, TypeOK, RowState
  <2>4. owned' \in [Runs -> SUBSET Tables]
    BY <2>1 DEF EraseRows, TypeOK
  <2>5. run' \in [Workers -> Runs \cup {NoRun}]
    BY <2>1 DEF TypeOK
  <2> QED BY <1>3, <2>2, <2>3, <2>4, <2>5 DEF DeleteRun, TypeOK, outside, history, args
<1>4. ASSUME NEW r \in Runs, Age(r) PROVE TypeOK'
  <2>1. expired' \in [Runs -> SUBSET Retained]
    <3>1. Aging \subseteq Retained
      BY BoundsAssumption
    <3>2. PICK t \in Aging : expired' = [expired EXCEPT ![r] = @ \cup {t}]
      BY <1>4 DEF Age
    <3> QED BY <3>1, <3>2 DEF TypeOK
  <2> QED BY <1>4, <2>1 DEF Age, TypeOK, process, outside, history, args
<1>5. CASE KillDaemon
  <2>1. faults' \in 0..MaxFaults
    BY <1>5, FaultType DEF KillDaemon, TypeOK
  <2>2. pc' \in [Workers -> Control]
    BY <1>5, ControlPoints DEF KillDaemon, TypeOK
  <2>3. lost' \in SUBSET Runs
    <3>1. \A w \in Daemon : Gone(w) \subseteq Runs
      BY DEF Gone, TypeOK, Workers
    <3>2. UNION {Gone(w) : w \in Daemon} \subseteq Runs
      BY <3>1
    <3>3. lost' = lost \cup UNION {Gone(w) : w \in Daemon}
      BY <1>5 DEF KillDaemon
    <3> QED BY <3>2, <3>3 DEF TypeOK
  <2>4. run' \in [Workers -> Runs \cup {NoRun}]
    BY <1>5 DEF KillDaemon, TypeOK
  <2>5. todo' \in [Workers -> SUBSET Outputs]
    BY <1>5 DEF KillDaemon, TypeOK
  <2> QED BY <1>5, <2>1, <2>2, <2>3, <2>4, <2>5 DEF KillDaemon, TypeOK, store, outside, args
<1>6. CASE Restart
  BY <1>6 DEF Restart, TypeOK, store, outside, history, args
<1>7. CASE UNCHANGED vars
  BY <1>7 DEF vars, TypeOK, process, store, outside, history, args
<1> QED BY <1>1, <1>2, <1>3, <1>4, <1>5, <1>6, <1>7, PipelineTypes, FailureTypes
        DEF Next, OutOfRunIds

-----------------------------------------------------------------------------
(* Who holds which run *)

\* A step of a worker that does not enter Runner.run leaves the others alone
\* and does not give the worker a run to own.
LEMMA KeepsRun ==
    ASSUME TypeOK, NEW w \in Workers, Pipeline(w) \/ Failure(w) \/ DeleteRun(w)
    PROVE  /\ by' = by
           /\ \A v \in Workers : v # w => pc'[v] = pc[v] /\ run'[v] = run[v]
           /\ Owns(w)' => Owns(w) /\ run'[w] = run[w]
           /\ pc'[w] # "begin"
<1> USE ControlPoints
<1>1. CASE StartRun(w)
  BY <1>1 DEF StartRun, Goto, At, Owns, TypeOK, history, args
<1>2. CASE InsertStep(w)
  BY <1>2 DEF InsertStep, Stores, Goto, At, Owns, TypeOK, history, args
<1>3. CASE Move(w)
  BY <1>3 DEF Move, Goto, Owns, TypeOK, args
<1>4. CASE Emit(w)
  BY <1>4 DEF Emit, At, Owns, TypeOK, history, args
<1>5. CASE Purge(w)
  BY <1>5 DEF Purge, Goto, At, Owns, TypeOK, history, args, TryBlock
<1>6. CASE Finish(w)
  <2>1. pc[w] \in TryBlock
    BY <1>6 DEF Finish, OutcomeAt, TryBlock
  <2> QED BY <1>6, <2>1 DEF Finish, Goto, Owns, TypeOK, history, args
<1>7. CASE RecordFailure(w)
  BY <1>7 DEF RecordFailure, Goto, At, Owns, TypeOK, history, args
<1>8. CASE Release(w)
  BY <1>8 DEF Release, Goto, At, Owns, TypeOK, history, args
<1>9. CASE CliReturn(w)
  BY <1>9 DEF CliReturn, Goto, At, Owns, TypeOK, history, args
<1>10. CASE Unlink(w)
  BY <1>10 DEF Unlink, Goto, At, Owns, TypeOK, history, args
<1>11. CASE Raise(w)
  BY <1>11 DEF Raise, Goto, Owns, TypeOK, args
<1>12. CASE Unwind(w)
  BY <1>12 DEF Unwind, Goto, Owns, TypeOK, args
<1>13. CASE KillCli(w)
  BY <1>13 DEF KillCli, Goto, Owns, TypeOK, args
<1>14. CASE DeleteRun(w)
  BY <1>14 DEF DeleteRun, Goto, Owns, TypeOK, history, args
<1> QED BY StepKinds, <1>1, <1>2, <1>3, <1>4, <1>5, <1>6, <1>7, <1>8, <1>9, <1>10,
           <1>11, <1>12, <1>13, <1>14 DEF Failure

\* Nothing is known of a run whose id nobody has drawn yet.
Untouched(r) ==
    /\ row[r] = "absent"
    /\ owned[r] = {}
    /\ sent[r] = {}
    /\ r \notin files

Fresh ==
    /\ \A r \in Runs : by[r] = Nobody => Untouched(r)
    /\ \A w \in Workers : pc[w] = "begin" => Untouched(run[w])

\* ... and no step touches such a run but its owner's.
LEMMA StaysUntouched ==
    ASSUME TypeOK, OwnRun, NEW w \in Workers, Pipeline(w) \/ Failure(w) \/ DeleteRun(w),
           NEW r \in Runs, Untouched(r), ~(Owns(w) /\ run[w] = r)
    PROVE  Untouched(r)'
<1> USE ControlPoints
<1>1. CASE StartRun(w)
  BY <1>1 DEF StartRun, At, Owns, OwnRun, TypeOK, Untouched, outside
<1>2. CASE InsertStep(w)
  <2>1. PICK at \in TryBlock, t \in Tables, next \in TryBlock : Stores(w, at, t, next)
    BY <1>2 DEF InsertStep
  <2>2. run[w] # r
    BY <2>1 DEF Stores, At, Owns
  <2>3. owned'[r] = owned[r]
    BY <2>1, <2>2 DEF Stores, Insert, TypeOK
  <2> QED BY <2>1, <2>3 DEF Stores, Untouched, outside
<1>3. CASE Move(w)
  BY <1>3 DEF Move, Untouched, store, outside
<1>4. CASE Emit(w)
  <2>1. run[w] # r
    BY <1>4 DEF Emit, At, Owns, TryBlock
  <2>2. PICK o \in todo[w] : Served(w, o)
    BY <1>4, EmitServes
  <2>3. sent'[r] = sent[r]
    <3>1. sent' = sent \/ sent' = [sent EXCEPT ![run[w]] = @ \cup {o}]
      BY <2>2 DEF Served
    <3> QED BY <2>1, <3>1 DEF TypeOK
  <2>4. r \notin files'
    BY <2>1, <2>2 DEF Served, Untouched
  <2> QED BY <1>4, <2>3, <2>4 DEF Emit, Untouched, store
<1>5. CASE Purge(w)
  BY <1>5 DEF Purge, Untouched, outside
<1>6. CASE Finish(w)
  BY <1>6 DEF Finish, Close, TypeOK, Untouched, outside
<1>7. CASE RecordFailure(w)
  BY <1>7 DEF RecordFailure, Close, TypeOK, Untouched, outside
<1>8. CASE Release(w)
  BY <1>8 DEF Release, Untouched, store, outside
<1>9. CASE CliReturn(w)
  <2>1. CASE run[w] \in ephemeral /\ row[run[w]] # "deleted"
    <3>1. run[w] # r
      BY <1>9, <2>1, DistinctAssumption DEF CliReturn, At, Owns, TypeOK
    <3> QED BY <1>9, <2>1, <3>1 DEF CliReturn, EraseRows, TypeOK, Untouched, outside
  <2>2. CASE ~(run[w] \in ephemeral /\ row[run[w]] # "deleted")
    BY <1>9, <2>2 DEF CliReturn, Untouched, outside
  <2> QED BY <2>1, <2>2
<1>10. CASE Unlink(w)
  BY <1>10 DEF Unlink, Untouched, store
<1>11. CASE Raise(w)
  BY <1>11 DEF Raise, Untouched, store, outside
<1>12. CASE Unwind(w)
  BY <1>12 DEF Unwind, Untouched, store, outside
<1>13. CASE KillCli(w)
  BY <1>13 DEF KillCli, Untouched, store, outside
<1>14. CASE DeleteRun(w)
  <2>1. PICK d \in Runs : /\ row[d] \in Closed \/ row[d] = "open"
                          /\ EraseRows(d)
    BY <1>14 DEF DeleteRun
  <2>2. d # r
    BY <2>1 DEF Closed, Untouched
  <2> QED BY <1>14, <2>1, <2>2 DEF DeleteRun, EraseRows, TypeOK, Untouched, outside
<1> QED BY StepKinds, <1>1, <1>2, <1>3, <1>4, <1>5, <1>6, <1>7, <1>8, <1>9, <1>10,
           <1>11, <1>12, <1>13, <1>14 DEF Failure

\* Entering Runner.run takes a run id nobody has drawn.
LEMMA EnterKeeps ==
    ASSUME TypeOK, OwnRun, Fresh, NEW w \in Workers, NEW r \in Runs, Enter(w, r),
           UNCHANGED <<row, owned, files, sent>>
    PROVE  /\ OwnRun'
           /\ Fresh'
           /\ by' = [by EXCEPT ![r] = w]
           /\ \A v \in Workers : v # w => pc'[v] = pc[v]
<1>0. Nobody \notin Workers
  BY DistinctAssumption
<1>1. /\ by[r] = Nobody
      /\ by' = [by EXCEPT ![r] = w]
      /\ run' = [run EXCEPT ![w] = r]
      /\ pc' = [pc EXCEPT ![w] = "begin"]
  BY DEF Enter, Goto
<1>2. ASSUME NEW v \in Workers, Owns(v)'
      PROVE  run'[v] \in Runs /\ by'[run'[v]] = v
  <2>1. CASE v = w
    BY <1>1, <2>1 DEF TypeOK
  <2>2. CASE v # w
    <3>1. pc'[v] = pc[v] /\ run'[v] = run[v]
      BY <1>1, <2>2 DEF TypeOK
    <3>2. run[v] \in Runs /\ by[run[v]] = v
      BY <1>2, <3>1 DEF Owns, OwnRun
    <3>3. run[v] # r
      BY <1>0, <1>1, <3>2
    <3> QED BY <1>1, <3>1, <3>2, <3>3 DEF TypeOK
  <2> QED BY <2>1, <2>2
<1>3. ASSUME NEW q \in Runs, by'[q] = Nobody
      PROVE  Untouched(q)'
  <2>1. q # r
    BY <1>0, <1>1, <1>3 DEF TypeOK
  <2>2. by[q] = Nobody
    BY <1>1, <1>3, <2>1 DEF TypeOK
  <2> QED BY <2>2 DEF Fresh, Untouched
<1>4. ASSUME NEW v \in Workers, pc'[v] = "begin"
      PROVE  Untouched(run[v])'
  <2>1. CASE v = w
    <3>1. run'[v] = r
      BY <1>1, <2>1 DEF TypeOK
    <3>2. Untouched(r)
      BY <1>1 DEF Fresh
    <3> QED BY <3>1, <3>2 DEF Untouched
  <2>2. CASE v # w
    <3>1. pc[v] = "begin" /\ run'[v] = run[v]
      BY <1>1, <1>4, <2>2 DEF TypeOK
    <3>2. Untouched(run[v])
      BY <3>1 DEF Fresh
    <3> QED BY <3>1, <3>2 DEF Untouched
  <2> QED BY <2>1, <2>2
<1>5. OwnRun'
  BY <1>2 DEF OwnRun
<1>6. Fresh'
  BY <1>3, <1>4 DEF Fresh
<1> QED BY <1>1, <1>5, <1>6 DEF TypeOK

\* Whoever is between acquiring and releasing run_lock holds it.
LockHeld == \A w \in Daemon : pc[w] # "idle" => lock = w

\* A daemon's worker steps only between the two, and only Release frees it.
LEMMA LockFrame ==
    ASSUME TypeOK, NEW w \in Workers, Pipeline(w) \/ Failure(w) \/ DeleteRun(w)
    PROVE  /\ w \in Daemon => pc[w] # "idle"
           /\ \/ lock' = lock
              \/ w \in Daemon /\ pc'[w] = "idle" /\ lock' = Nobody
<1> USE ControlPoints
<1>1. CASE StartRun(w)
  BY <1>1 DEF StartRun, At
<1>2. CASE InsertStep(w)
  BY <1>2 DEF InsertStep, Stores, At
<1>3. CASE Move(w)
  BY <1>3 DEF Move
<1>4. CASE Emit(w)
  BY <1>4 DEF Emit, At
<1>5. CASE Purge(w)
  BY <1>5 DEF Purge, At
<1>6. CASE Finish(w)
  BY <1>6 DEF Finish, OutcomeAt
<1>7. CASE RecordFailure(w)
  BY <1>7 DEF RecordFailure, At
<1>8. CASE Release(w)
  BY <1>8 DEF Release, At, Goto, TypeOK
<1>9. CASE CliReturn(w)
  BY <1>9 DEF CliReturn, At
<1>10. CASE Unlink(w)
  BY <1>10 DEF Unlink, At
<1>11. CASE Raise(w)
  BY <1>11 DEF Raise
<1>12. CASE Unwind(w)
  BY <1>12 DEF Unwind
<1>13. CASE KillCli(w)
  BY <1>13, DistinctAssumption DEF KillCli
<1>14. CASE DeleteRun(w)
  BY <1>14, DistinctAssumption DEF DeleteRun
<1> QED BY StepKinds, <1>1, <1>2, <1>3, <1>4, <1>5, <1>6, <1>7, <1>8, <1>9, <1>10,
           <1>11, <1>12, <1>13, <1>14 DEF Failure

Ownership ==
    /\ TypeOK
    /\ OwnRun
    /\ Fresh
    /\ LockHeld

LEMMA OwnershipAtStart == Init => Ownership
<1> SUFFICES ASSUME Init PROVE Ownership
  OBVIOUS
<1>1. \A w \in Workers : pc[w] = "idle"
  BY DEF Init
<1>2. OwnRun
  BY <1>1, ControlPoints DEF OwnRun, Owns
<1>3. Fresh
  BY <1>1 DEF Fresh, Untouched, Init
<1>4. LockHeld
  BY <1>1 DEF LockHeld, Workers
<1> QED BY <1>2, <1>3, <1>4, TypesAtStart DEF Ownership

LEMMA OwnershipStep == Ownership /\ [Next]_vars => Ownership'
<1> SUFFICES ASSUME Ownership, [Next]_vars PROVE Ownership'
  OBVIOUS
<1>0. TypeOK /\ OwnRun /\ Fresh /\ LockHeld
  BY DEF Ownership
<1>1. TypeOK'
  BY <1>0, TypesStep
<1>2. ASSUME NEW w \in Workers, Pipeline(w) \/ Failure(w) \/ DeleteRun(w)
      PROVE  OwnRun' /\ Fresh' /\ LockHeld'
  <2>1. /\ by' = by
        /\ \A v \in Workers : v # w => pc'[v] = pc[v] /\ run'[v] = run[v]
        /\ Owns(w)' => Owns(w) /\ run'[w] = run[w]
        /\ pc'[w] # "begin"
    BY <1>0, <1>2, KeepsRun
  <2>2. OwnRun'
    <3> SUFFICES ASSUME NEW v \in Workers, Owns(v)'
                 PROVE  run'[v] \in Runs /\ by'[run'[v]] = v
      BY DEF OwnRun
    <3>1. Owns(v) /\ run'[v] = run[v]
      BY <2>1 DEF Owns
    <3> QED BY <1>0, <2>1, <3>1 DEF OwnRun
  <2>3. Fresh'
    <3>1. ASSUME NEW r \in Runs, by'[r] = Nobody PROVE Untouched(r)'
      <4>1. Untouched(r)
        BY <1>0, <2>1, <3>1 DEF Fresh
      <4>2. ~(Owns(w) /\ run[w] = r)
        BY <1>0, <2>1, <3>1, DistinctAssumption DEF OwnRun
      <4> QED BY <1>0, <1>2, <4>1, <4>2, StaysUntouched
    <3>2. ASSUME NEW v \in Workers, pc'[v] = "begin" PROVE Untouched(run[v])'
      <4>1. v # w /\ pc[v] = "begin" /\ run'[v] = run[v]
        BY <2>1, <3>2
      <4>2. Untouched(run[v]) /\ run[v] \in Runs /\ by[run[v]] = v
        BY <1>0, <4>1 DEF Fresh, OwnRun, Owns
      <4>3. ~(Owns(w) /\ run[w] = run[v])
        BY <1>0, <4>1, <4>2 DEF OwnRun
      <4>4. ASSUME NEW r \in Runs, r = run[v] PROVE Untouched(r)'
        BY <1>0, <1>2, <4>2, <4>3, <4>4, StaysUntouched
      <4> QED BY <4>1, <4>2, <4>4 DEF Untouched
    <3> QED BY <3>1, <3>2 DEF Fresh
  <2>4. LockHeld'
    <3>1. /\ w \in Daemon => pc[w] # "idle"
          /\ \/ lock' = lock
             \/ w \in Daemon /\ pc'[w] = "idle" /\ lock' = Nobody
      BY <1>0, <1>2, LockFrame
    <3> SUFFICES ASSUME NEW v \in Daemon, pc'[v] # "idle"
                 PROVE  lock' = v
      BY DEF LockHeld
    <3>2. pc[v] # "idle"
      BY <2>1, <3>1 DEF Workers
    <3>3. lock = v
      BY <1>0, <3>2 DEF LockHeld
    <3>4. lock' = lock
      BY <1>0, <3>1, <3>3 DEF LockHeld
    <3> QED BY <3>3, <3>4
  <2> QED BY <2>2, <2>3, <2>4
<1>3. ASSUME NEW w \in Workers, Acquire(w)
      PROVE  OwnRun' /\ Fresh' /\ LockHeld'
  <2>1. PICK r \in Runs : Enter(w, r)
    BY <1>3 DEF Acquire
  <2>2. OwnRun' /\ Fresh' /\ \A v \in Workers : v # w => pc'[v] = pc[v]
    BY <1>0, <1>3, <2>1, EnterKeeps DEF Acquire, store, outside
  <2>3. \A v \in Daemon : pc[v] = "idle"
    BY <1>0, <1>3, DistinctAssumption DEF Acquire, LockHeld, Workers
  <2>4. LockHeld'
    BY <1>3, <2>2, <2>3 DEF Acquire, LockHeld, Workers
  <2> QED BY <2>2, <2>4
<1>4. ASSUME NEW w \in Workers, CliRun(w)
      PROVE  OwnRun' /\ Fresh' /\ LockHeld'
  <2>1. PICK r \in Runs : Enter(w, r)
    BY <1>4 DEF CliRun
  <2>2. OwnRun' /\ Fresh' /\ \A v \in Workers : v # w => pc'[v] = pc[v]
    BY <1>0, <1>4, <2>1, EnterKeeps DEF CliRun, store, outside
  <2>3. LockHeld'
    BY <1>0, <1>4, <2>2, DistinctAssumption DEF CliRun, LockHeld, Workers
  <2> QED BY <2>2, <2>3
<1>5. ASSUME NEW r \in Runs, Age(r)
      PROVE  OwnRun' /\ Fresh' /\ LockHeld'
  BY <1>0, <1>5 DEF Age, process, outside, history, args, OwnRun, Owns, Fresh, Untouched,
     LockHeld
<1>6. CASE KillDaemon
  <2>1. \A w \in Workers :
           \/ pc'[w] = "idle" /\ run'[w] = NoRun
           \/ w \notin Daemon /\ pc'[w] = pc[w] /\ run'[w] = run[w]
    BY <1>6 DEF KillDaemon
  <2>2. OwnRun'
    BY <1>0, <1>6, <2>1, ControlPoints DEF KillDaemon, OwnRun, Owns, args
  <2>3. Fresh'
    BY <1>0, <1>6, <2>1 DEF KillDaemon, Fresh, Untouched, store, outside, args
  <2>4. LockHeld'
    BY <2>1 DEF LockHeld, Workers
  <2> QED BY <1>1, <2>2, <2>3, <2>4 DEF Ownership
<1>7. CASE Restart
  BY <1>0, <1>1, <1>7 DEF Ownership, Restart, store, outside, history, args, OwnRun, Owns, Fresh, Untouched,
     LockHeld
<1>8. CASE UNCHANGED vars
  BY <1>0, <1>1, <1>8 DEF Ownership, vars, process, store, outside, history, args, OwnRun, Owns, Fresh,
     Untouched, LockHeld
<1> QED BY <1>1, <1>2, <1>3, <1>4, <1>5, <1>6, <1>7, <1>8 DEF Next, OutOfRunIds, Ownership

\* Every reachable state is well typed, every working worker has a run of its
\* own, and run_lock is held by the daemon's worker that is at work.
THEOREM OwnershipInvariant == Spec => []Ownership
BY OwnershipAtStart, OwnershipStep, PTL DEF Spec

\* TypeOK of the pipeline, for any number of runs and workers.
THEOREM TypeCorrect == Spec => []TypeOK
<1>1. Ownership => TypeOK
  BY DEF Ownership
<1> QED BY <1>1, OwnershipInvariant, PTL

\* guarded_run: the scheduler's job and the MCP trigger exclude each other,
\* through exceptions, kills and restarts of the daemon.
THEOREM DaemonMutualExclusion == Spec => []OneDaemonRun
<1>1. Ownership => OneDaemonRun
  BY DEF Ownership, LockHeld, OneDaemonRun
<1> QED BY <1>1, OwnershipInvariant, PTL

-----------------------------------------------------------------------------
(* What the rows of a held run look like, when open runs are not deleted *)

\* The row of the run a worker holds, by where the worker is.
Fits(w) ==
    /\ pc[w] \in Working => row[run[w]] = "open"
    /\ pc[w] = "return" /\ run[w] # NoRun => row[run[w]] \in Closed \cup {"deleted"}
    /\ pc[w] = "unlink" => run[w] \in Runs /\ row[run[w]] = "deleted"

Rows == (\A w \in Workers : Fits(w)) /\ NoOrphanRows

\* What a step of a worker may do to rows: those of its own run, whatever it
\* needs; another run's row it can only delete, when that run is closed.
RowFrame(w) ==
    \A r \in Runs :
        /\ \/ row'[r] = row[r]
           \/ Owns(w) /\ run[w] = r
           \/ row[r] \in Closed /\ row'[r] = "deleted"
        /\ row[r] = "deleted" => row'[r] = "deleted"

LEMMA RowsOfWorker ==
    ASSUME AllowForce = FALSE, Ownership, Rows,
           NEW w \in Workers, Pipeline(w) \/ Failure(w) \/ DeleteRun(w)
    PROVE  RowFrame(w) /\ Fits(w)' /\ NoOrphanRows'
<1>0. TypeOK /\ OwnRun /\ Fresh /\ Fits(w) /\ NoOrphanRows
  BY DEF Ownership, Rows
<1> USE ControlPoints
<1>a. "open" \notin Closed /\ "deleted" \notin Closed /\ "absent" \notin Closed
  BY DEF Closed
<1>b. pc[w] \in Working \cup {"begin"} => run[w] \in Runs /\ Owns(w)
  BY <1>0 DEF OwnRun, Owns
<1>1. CASE StartRun(w)
  <2>1. Owns(w) /\ run[w] \in Runs /\ row[run[w]] = "absent" /\ pc[w] = "begin"
    BY <1>0, <1>1, <1>b DEF StartRun, At, Fresh, Untouched
  <2>2. /\ row' = [row EXCEPT ![run[w]] = "open"]
        /\ pc' = [pc EXCEPT ![w] = "collect"]
        /\ run' = run /\ owned' = owned
    BY <1>1 DEF StartRun, Goto
  <2>3. RowFrame(w)
    BY <1>0, <2>1, <2>2 DEF RowFrame, TypeOK
  <2>4. Fits(w)'
    BY <1>0, <2>1, <2>2 DEF Fits, TypeOK, TryBlock
  <2>5. NoOrphanRows'
    BY <1>0, <2>1, <2>2 DEF NoOrphanRows, TypeOK
  <2> QED BY <2>3, <2>4, <2>5
<1>2. CASE InsertStep(w)
  <2>1. PICK at \in TryBlock, t \in Tables, next \in TryBlock : Stores(w, at, t, next)
    BY <1>2 DEF InsertStep
  <2>2. Owns(w) /\ run[w] \in Runs /\ row[run[w]] = "open" /\ row' = row /\ run' = run
    BY <1>0, <1>b, <2>1 DEF Stores, At, Fits
  <2>3. PICK new \in SUBSET {t} : owned' = [owned EXCEPT ![run[w]] = @ \cup new]
    BY <2>1 DEF Stores, Insert
  <2>4. pc'[w] = next
    BY <1>0, <2>1 DEF Stores, Goto, TypeOK
  <2>5. Fits(w)'
    BY <2>2, <2>4 DEF Fits
  <2>6. NoOrphanRows'
    BY <1>0, <2>2, <2>3 DEF NoOrphanRows, TypeOK
  <2> QED BY <2>2, <2>5, <2>6 DEF RowFrame
<1>3. CASE Move(w)
  <2>1. row' = row /\ owned' = owned /\ run' = run /\ pc[w] \in Working /\ pc'[w] \in Working
    BY <1>0, <1>3 DEF Move, Goto, TypeOK, store
  <2> QED BY <1>0, <2>1 DEF RowFrame, Fits, NoOrphanRows
<1>4. CASE Emit(w)
  <2>1. row' = row /\ owned' = owned /\ run' = run /\ pc' = pc
    BY <1>4 DEF Emit, store
  <2> QED BY <1>0, <2>1 DEF RowFrame, Fits, NoOrphanRows
<1>5. CASE Purge(w)
  <2>1. row' = row /\ run' = run /\ pc[w] \in Working /\ pc'[w] \in Working
    BY <1>0, <1>5 DEF Purge, Goto, At, TypeOK, TryBlock
  <2>2. NoOrphanRows'
    BY <1>0, <1>5 DEF Purge, NoOrphanRows
  <2> QED BY <1>0, <2>1, <2>2 DEF RowFrame, Fits
<1>6. CASE Finish(w)
  <2>1. OutcomeAt[pc[w]] \in Closed /\ pc[w] \in TryBlock
    BY <1>6 DEF Finish, OutcomeAt, Closed, TryBlock
  <2>2. Owns(w) /\ run[w] \in Runs /\ row[run[w]] = "open"
    BY <1>0, <1>b, <2>1 DEF Fits
  <2>3. /\ row' = [row EXCEPT ![run[w]] = OutcomeAt[pc[w]]]
        /\ owned' = owned /\ run' = run /\ pc'[w] = "return"
    BY <1>0, <1>6, <2>2 DEF Finish, Close, Goto, TypeOK
  <2>4. RowFrame(w)
    BY <1>0, <2>2, <2>3 DEF RowFrame, TypeOK
  <2>5. Fits(w)'
    BY <1>0, <2>1, <2>2, <2>3 DEF Fits, TypeOK
  <2>6. NoOrphanRows'
    BY <1>0, <2>1, <2>2, <2>3 DEF NoOrphanRows, TypeOK
  <2> QED BY <2>4, <2>5, <2>6
<1>7. CASE RecordFailure(w)
  <2>1. "error" \in Closed /\ pc[w] = "except"
    BY <1>7 DEF RecordFailure, At, Closed
  <2>2. Owns(w) /\ run[w] \in Runs /\ row[run[w]] = "open"
    BY <1>0, <1>b, <2>1 DEF Fits
  <2>3. /\ row' = [row EXCEPT ![run[w]] = "error"]
        /\ owned' = owned /\ run' = run /\ pc'[w] = "return"
    BY <1>0, <1>7, <2>2 DEF RecordFailure, Close, Goto, TypeOK
  <2>4. RowFrame(w)
    BY <1>0, <2>2, <2>3 DEF RowFrame, TypeOK
  <2>5. Fits(w)'
    BY <1>0, <2>1, <2>2, <2>3 DEF Fits, TypeOK
  <2>6. NoOrphanRows'
    BY <1>0, <2>1, <2>2, <2>3 DEF NoOrphanRows, TypeOK
  <2> QED BY <2>4, <2>5, <2>6
<1>8. CASE Release(w)
  <2>1. row' = row /\ owned' = owned /\ pc'[w] = "idle"
    BY <1>0, <1>8 DEF Release, Goto, TypeOK, store
  <2> QED BY <1>0, <2>1 DEF RowFrame, Fits, NoOrphanRows
<1>9. CASE CliReturn(w)
  <2>1. CASE run[w] \in ephemeral /\ row[run[w]] # "deleted"
    <3>1. run[w] \in Runs /\ Owns(w) /\ row[run[w]] \in Closed
      BY <1>0, <1>9, <2>1, DistinctAssumption DEF CliReturn, At, Owns, TypeOK, Fits
    <3>2. /\ row' = [row EXCEPT ![run[w]] = "deleted"]
          /\ owned' = [owned EXCEPT ![run[w]] = {}]
          /\ run' = run /\ pc'[w] = "unlink"
      BY <1>0, <1>9, <2>1 DEF CliReturn, EraseRows, Goto, TypeOK
    <3>3. RowFrame(w)
      BY <1>0, <3>1, <3>2 DEF RowFrame, TypeOK
    <3>4. Fits(w)'
      BY <1>0, <3>1, <3>2 DEF Fits, TypeOK
    <3>5. NoOrphanRows'
      BY <1>0, <3>1, <3>2 DEF NoOrphanRows, TypeOK
    <3> QED BY <3>3, <3>4, <3>5
  <2>2. CASE ~(run[w] \in ephemeral /\ row[run[w]] # "deleted")
    <3>1. row' = row /\ owned' = owned /\ pc'[w] = "idle"
      BY <1>0, <1>9, <2>2 DEF CliReturn, Goto, TypeOK
    <3> QED BY <1>0, <3>1 DEF RowFrame, Fits, NoOrphanRows
  <2> QED BY <2>1, <2>2
<1>10. CASE Unlink(w)
  <2>1. row' = row /\ owned' = owned /\ pc'[w] = "idle"
    BY <1>0, <1>10 DEF Unlink, Goto, TypeOK, store
  <2> QED BY <1>0, <2>1 DEF RowFrame, Fits, NoOrphanRows
<1>11. CASE Raise(w)
  <2>1. row' = row /\ owned' = owned /\ run' = run /\ pc[w] \in Working /\ pc'[w] = "except"
    BY <1>0, <1>11 DEF Raise, Goto, TypeOK, store
  <2> QED BY <1>0, <2>1 DEF RowFrame, Fits, NoOrphanRows
<1>12. CASE Unwind(w)
  <2>1. row' = row /\ owned' = owned /\ run'[w] = NoRun /\ pc'[w] \in {"return", "idle"}
    BY <1>0, <1>12 DEF Unwind, Goto, TypeOK, store
  <2> QED BY <1>0, <2>1 DEF RowFrame, Fits, NoOrphanRows
<1>13. CASE KillCli(w)
  <2>1. row' = row /\ owned' = owned /\ pc'[w] = "idle"
    BY <1>0, <1>13 DEF KillCli, Goto, TypeOK, store
  <2> QED BY <1>0, <2>1 DEF RowFrame, Fits, NoOrphanRows
<1>14. CASE DeleteRun(w)
  <2>1. PICK d \in Runs : /\ row[d] \in Closed \/ (AllowForce /\ row[d] = "open")
                          /\ EraseRows(d)
                          /\ run' = [run EXCEPT ![w] = d]
    BY <1>14 DEF DeleteRun
  <2>2. row[d] \in Closed
    BY <2>1
  <2>3. pc'[w] = "unlink"
    BY <1>0, <1>14 DEF DeleteRun, Goto, TypeOK
  <2>4. RowFrame(w)
    BY <1>0, <2>1, <2>2 DEF RowFrame, EraseRows, TypeOK
  <2>5. Fits(w)'
    BY <1>0, <2>1, <2>3 DEF Fits, EraseRows, TypeOK
  <2>6. NoOrphanRows'
    BY <1>0, <2>1 DEF NoOrphanRows, EraseRows, TypeOK
  <2> QED BY <2>4, <2>5, <2>6
<1> QED BY StepKinds, <1>1, <1>2, <1>3, <1>4, <1>5, <1>6, <1>7, <1>8, <1>9, <1>10,
           <1>11, <1>12, <1>13, <1>14 DEF Failure

LEMMA RowsAtStart == Init => Rows
<1> SUFFICES ASSUME Init PROVE Rows
  OBVIOUS
<1>1. \A w \in Workers : pc[w] = "idle"
  BY DEF Init
<1>2. NoOrphanRows
  BY DEF Init, NoOrphanRows
<1> QED BY <1>1, <1>2, ControlPoints DEF Rows, Fits

LEMMA RowsStep ==
    ASSUME AllowForce = FALSE, Ownership, Rows, [Next]_vars
    PROVE  Rows'
<1>0. TypeOK /\ OwnRun /\ Fresh /\ NoOrphanRows /\ \A w \in Workers : Fits(w)
  BY DEF Ownership, Rows
<1> USE ControlPoints
<1>1. ASSUME NEW w \in Workers, Pipeline(w) \/ Failure(w) \/ DeleteRun(w)
      PROVE  Rows'
  <2>1. RowFrame(w) /\ Fits(w)' /\ NoOrphanRows'
    BY <1>1, RowsOfWorker
  <2>2. \A v \in Workers : v # w => pc'[v] = pc[v] /\ run'[v] = run[v]
    BY <1>0, <1>1, KeepsRun
  <2>3. ASSUME NEW v \in Workers, v # w PROVE Fits(v)'
    <3>1. pc'[v] = pc[v] /\ run'[v] = run[v]
      BY <2>2, <2>3
    <3>2. CASE Owns(v)
      <4>1. run[v] \in Runs /\ ~(Owns(w) /\ run[w] = run[v])
        BY <1>0, <2>3, <3>2 DEF OwnRun
      <4>2. \/ row'[run[v]] = row[run[v]]
            \/ row[run[v]] \in Closed /\ row'[run[v]] = "deleted"
        BY <2>1, <4>1 DEF RowFrame
      <4> QED BY <1>0, <3>1, <3>2, <4>2 DEF Fits, Owns, Closed
    <3>3. CASE pc[v] = "unlink"
      <4>1. run[v] \in Runs /\ row[run[v]] = "deleted"
        BY <1>0, <3>3 DEF Fits
      <4> QED BY <2>1, <3>1, <3>3, <4>1 DEF RowFrame, Fits
    <3>4. CASE ~Owns(v) /\ pc[v] # "unlink"
      BY <3>1, <3>4 DEF Owns, Fits
    <3> QED BY <3>2, <3>3, <3>4
  <2> QED BY <2>1, <2>3 DEF Rows
<1>2. ASSUME NEW w \in Workers, NEW r \in Runs, Enter(w, r), row' = row, owned' = owned
      PROVE  Rows'
  <2>1. ASSUME NEW v \in Workers PROVE Fits(v)'
    <3>1. CASE v = w
      BY <1>0, <1>2, <3>1 DEF Enter, Goto, Fits, TypeOK
    <3>2. CASE v # w
      <4>1. pc'[v] = pc[v] /\ run'[v] = run[v]
        BY <1>0, <1>2, <3>2 DEF Enter, Goto, TypeOK
      <4> QED BY <1>0, <1>2, <4>1 DEF Fits
    <3> QED BY <3>1, <3>2
  <2> QED BY <1>0, <1>2, <2>1 DEF Rows, NoOrphanRows
<1>3. ASSUME NEW w \in Workers, Acquire(w) \/ CliRun(w) PROVE Rows'
  BY <1>2, <1>3 DEF Acquire, CliRun, store
<1>4. ASSUME NEW r \in Runs, Age(r) PROVE Rows'
  BY <1>0, <1>4 DEF Age, process, Rows, Fits, NoOrphanRows
<1>5. CASE KillDaemon
  <2>1. \A w \in Workers :
           \/ pc'[w] = "idle"
           \/ pc'[w] = pc[w] /\ run'[w] = run[w]
    BY <1>5 DEF KillDaemon
  <2> QED BY <1>0, <1>5, <2>1 DEF KillDaemon, store, Rows, Fits, NoOrphanRows
<1>6. CASE Restart
  BY <1>0, <1>6 DEF Restart, store, Rows, Fits, NoOrphanRows
<1>7. CASE UNCHANGED vars
  BY <1>0, <1>7 DEF vars, process, store, Rows, Fits, NoOrphanRows
<1> QED BY <1>1, <1>3, <1>4, <1>5, <1>6, <1>7 DEF Next, OutOfRunIds

\* While nobody forces the deletion of an open run, a worker inside the try
\* block of Runner.run has an open row, and so no orphan row is ever written.
THEOREM RowsInvariant ==
    ASSUME AllowForce = FALSE
    PROVE  Spec => [](Ownership /\ Rows)
<1>1. Init => Ownership /\ Rows
  BY OwnershipAtStart, RowsAtStart
<1>2. (Ownership /\ Rows) /\ [Next]_vars => (Ownership /\ Rows)'
  BY OwnershipStep, RowsStep
<1> QED BY <1>1, <1>2, PTL DEF Spec

\* Deletion without --force, exceptions, kills, retention and runs beside each
\* other never leave rows of a run that the runs table does not list.
THEOREM RowsAreNeverOrphaned ==
    ASSUME AllowForce = FALSE
    PROVE  Spec => []NoOrphanRows
<1>1. Ownership /\ Rows => NoOrphanRows
  BY DEF Rows
<1> QED BY <1>1, RowsInvariant, PTL

-----------------------------------------------------------------------------
(* The pipeline implements the ledger *)

LEMMA LedgerUnchanged ==
    ASSUME UNCHANGED <<row, owned, files, sent>>
    PROVE  [Ledger!Next]_Ledger!vars
BY DEF Ledger!vars

LEMMA LedgerStepOfWorker ==
    ASSUME AllowForce = FALSE, Ownership, Rows,
           NEW w \in Workers, Pipeline(w) \/ Failure(w) \/ DeleteRun(w)
    PROVE  [Ledger!Next]_Ledger!vars
<1>0. TypeOK /\ OwnRun /\ Fresh /\ Fits(w)
  BY DEF Ownership, Rows
<1> USE ControlPoints
<1>a. pc[w] \in Working => run[w] \in Runs /\ row[run[w]] = "open"
  BY <1>0 DEF OwnRun, Owns, Fits
<1>b. Closed = Ledger!Outcomes
  BY DEF Closed, Ledger!Outcomes
<1>1. CASE StartRun(w)
  <2>1. run[w] \in Runs /\ row[run[w]] = "absent"
    BY <1>0, <1>1 DEF StartRun, At, Fresh, Untouched, OwnRun, Owns
  <2>2. Ledger!Open(run[w])
    BY <1>1, <2>1 DEF StartRun, Ledger!Open, outside
  <2> QED BY <2>1, <2>2 DEF Ledger!Next
<1>2. CASE InsertStep(w)
  <2>1. PICK at \in TryBlock, t \in Tables, next \in TryBlock : Stores(w, at, t, next)
    BY <1>2 DEF InsertStep
  <2>2. run[w] \in Runs /\ row[run[w]] = "open"
    BY <1>a, <2>1 DEF Stores, At
  <2>3. PICK new \in {{}, {t}} : owned' = [owned EXCEPT ![run[w]] = @ \cup new]
    BY <2>1 DEF Stores, Insert
  <2>4. CASE new = {}
    <3>1. owned' = owned
      BY <1>0, <2>2, <2>3, <2>4 DEF TypeOK
    <3> QED BY <2>1, <3>1, LedgerUnchanged DEF Stores, outside
  <2>5. CASE new = {t}
    <3>1. Ledger!Append(run[w])
      BY <2>1, <2>2, <2>3, <2>5 DEF Stores, Ledger!Append, outside
    <3> QED BY <2>2, <3>1 DEF Ledger!Next
  <2> QED BY <2>4, <2>5
<1>3. CASE Move(w)
  BY <1>3, LedgerUnchanged DEF Move, store, outside
<1>4. CASE Emit(w)
  <2>1. run[w] \in Runs /\ row[run[w]] = "open" /\ row' = row /\ owned' = owned
    BY <1>4, <1>a DEF Emit, At, TryBlock, store
  <2>2. PICK o \in todo[w] :
           \/ UNCHANGED outside
           \/ /\ sent' = [sent EXCEPT ![run[w]] = @ \cup {o}]
              /\ files' = IF o = "file" THEN files \cup {run[w]} ELSE files
    BY <1>4, Zenon DEF Emit
  <2>3. o \in Outputs
    BY <1>0 DEF TypeOK
  <2>4. CASE UNCHANGED outside
    BY <2>1, <2>4, LedgerUnchanged DEF outside
  <2>5. CASE /\ sent' = [sent EXCEPT ![run[w]] = @ \cup {o}]
             /\ files' = IF o = "file" THEN files \cup {run[w]} ELSE files
    <3>1. files' \in IF o = "file" THEN {files \cup {run[w]}} ELSE {files}
      BY <2>5
    <3>2. Ledger!Deliver(run[w])
      BY <2>1, <2>3, <2>5, <3>1, Zenon DEF Ledger!Deliver
    <3> QED BY <2>1, <3>2 DEF Ledger!Next
  <2> QED BY <2>2, <2>4, <2>5
<1>5. CASE Purge(w)
  <2>1. expired \in [Runs -> SUBSET Retained]
    BY <1>0 DEF TypeOK
  <2>2. Ledger!Thin
    BY <1>5, <2>1 DEF Purge, Ledger!Thin, outside
  <2> QED BY <2>2 DEF Ledger!Next
<1>6. CASE Finish(w)
  <2>1. OutcomeAt[pc[w]] \in Closed /\ pc[w] \in TryBlock
    BY <1>6 DEF Finish, OutcomeAt, Closed, TryBlock
  <2>2. run[w] \in Runs /\ row[run[w]] = "open"
    BY <1>a, <2>1
  <2>3. row' = [row EXCEPT ![run[w]] = OutcomeAt[pc[w]]]
    BY <1>0, <1>6, <2>2 DEF Finish, Close, TypeOK
  <2>4. Ledger!CloseRow(run[w])
    BY <1>6, <1>b, <2>1, <2>2, <2>3 DEF Finish, Ledger!CloseRow, outside
  <2> QED BY <2>2, <2>4 DEF Ledger!Next
<1>7. CASE RecordFailure(w)
  <2>1. "error" \in Closed /\ run[w] \in Runs /\ row[run[w]] = "open"
    BY <1>7, <1>a DEF RecordFailure, At, Closed
  <2>2. row' = [row EXCEPT ![run[w]] = "error"]
    BY <1>0, <1>7, <2>1 DEF RecordFailure, Close, TypeOK
  <2>3. Ledger!CloseRow(run[w])
    BY <1>7, <1>b, <2>1, <2>2 DEF RecordFailure, Ledger!CloseRow, outside
  <2> QED BY <2>1, <2>3 DEF Ledger!Next
<1>8. CASE Release(w)
  BY <1>8, LedgerUnchanged DEF Release, store, outside
<1>9. CASE CliReturn(w)
  <2>1. CASE run[w] \in ephemeral /\ row[run[w]] # "deleted"
    <3>1. run[w] \in Runs /\ row[run[w]] \in Closed
      BY <1>0, <1>9, <2>1, DistinctAssumption DEF CliReturn, At, TypeOK, Fits
    <3>2. Ledger!Erase(run[w])
      BY <1>9, <1>b, <2>1, <3>1 DEF CliReturn, EraseRows, Ledger!Erase, outside
    <3> QED BY <3>1, <3>2 DEF Ledger!Next
  <2>2. CASE ~(run[w] \in ephemeral /\ row[run[w]] # "deleted")
    BY <1>9, <2>2, LedgerUnchanged DEF CliReturn, outside
  <2> QED BY <2>1, <2>2
<1>10. CASE Unlink(w)
  <2>1. run[w] \in Runs /\ row[run[w]] = "deleted"
    BY <1>0, <1>10 DEF Unlink, At, Fits
  <2>2. Ledger!Unlink(run[w])
    BY <1>10, <2>1 DEF Unlink, Ledger!Unlink, store
  <2> QED BY <2>1, <2>2 DEF Ledger!Next
<1>11. CASE Raise(w)
  BY <1>11, LedgerUnchanged DEF Raise, store, outside
<1>12. CASE Unwind(w)
  BY <1>12, LedgerUnchanged DEF Unwind, store, outside
<1>13. CASE KillCli(w)
  BY <1>13, LedgerUnchanged DEF KillCli, store, outside
<1>14. CASE DeleteRun(w)
  <2>1. PICK d \in Runs : row[d] \in Closed /\ EraseRows(d)
    BY <1>14 DEF DeleteRun
  <2>2. Ledger!Erase(d)
    BY <1>14, <1>b, <2>1 DEF DeleteRun, EraseRows, Ledger!Erase, outside
  <2> QED BY <2>2 DEF Ledger!Next
<1> QED BY StepKinds, <1>1, <1>2, <1>3, <1>4, <1>5, <1>6, <1>7, <1>8, <1>9, <1>10,
           <1>11, <1>12, <1>13, <1>14 DEF Failure

LEMMA LedgerStep ==
    ASSUME AllowForce = FALSE, Ownership, Rows, [Next]_vars
    PROVE  [Ledger!Next]_Ledger!vars
<1>1. ASSUME NEW w \in Workers, Pipeline(w) \/ Failure(w) \/ DeleteRun(w)
      PROVE  [Ledger!Next]_Ledger!vars
  BY <1>1, LedgerStepOfWorker
<1>2. ASSUME NEW w \in Workers, Acquire(w) \/ CliRun(w)
      PROVE  [Ledger!Next]_Ledger!vars
  BY <1>2, LedgerUnchanged DEF Acquire, CliRun, store, outside
<1>3. ASSUME NEW r \in Runs, Age(r) PROVE [Ledger!Next]_Ledger!vars
  BY <1>3, LedgerUnchanged DEF Age, outside
<1>4. CASE KillDaemon \/ Restart
  BY <1>4, LedgerUnchanged DEF KillDaemon, Restart, store, outside
<1>5. CASE UNCHANGED vars
  BY <1>5, LedgerUnchanged DEF vars, store, outside
<1> QED BY <1>1, <1>2, <1>3, <1>4, <1>5 DEF Next, OutOfRunIds

\* Whatever the pipeline does to rows and files, a reader sees only what the
\* ledger allows.
THEOREM PipelineImplementsLedger ==
    ASSUME AllowForce = FALSE
    PROVE  Spec => ImplementsLedger
<1>1. Init => Ledger!Init
  BY DEF Init, Ledger!Init
<1>2. (Ownership /\ Rows) /\ [Next]_vars => [Ledger!Next]_Ledger!vars
  BY LedgerStep
<1> QED BY <1>1, <1>2, RowsInvariant, PTL DEF Spec, ImplementsLedger, Ledger!Spec

\* The ledger alone says that a closed run only loses rows and files.
LEMMA LedgerFreezes ==
    ASSUME [Ledger!Next]_Ledger!vars, TypeOK, NEW r \in Runs, row[r] \in Closed
    PROVE  /\ owned'[r] \subseteq owned[r]
           /\ sent'[r] = sent[r]
           /\ r \in files' => r \in files
<1>0. row[r] # "absent" /\ row[r] # "open" /\ row[r] # "deleted"
  BY DEF Closed
<1>1. CASE UNCHANGED Ledger!vars
  BY <1>1 DEF Ledger!vars
<1>2. ASSUME NEW q \in Runs, Ledger!Open(q) \/ Ledger!CloseRow(q) PROVE owned' = owned /\ sent' = sent /\ files' = files
  BY <1>2 DEF Ledger!Open, Ledger!CloseRow
<1>3. ASSUME NEW q \in Runs, Ledger!Append(q)
      PROVE  owned'[r] \subseteq owned[r] /\ sent' = sent /\ files' = files
  BY <1>0, <1>3 DEF Ledger!Append, TypeOK
<1>4. ASSUME NEW q \in Runs, Ledger!Deliver(q)
      PROVE  owned' = owned /\ sent'[r] = sent[r] /\ (r \in files' => r \in files)
  <2>1. q # r /\ owned' = owned
    BY <1>0, <1>4 DEF Ledger!Deliver
  <2>2. PICK o \in Outputs : sent' = [sent EXCEPT ![q] = @ \cup {o}]
    BY <1>4, Zenon DEF Ledger!Deliver
  <2>3. files' \in {files, files \cup {q}}
    BY <1>4, Zenon DEF Ledger!Deliver
  <2> QED BY <2>1, <2>2, <2>3 DEF TypeOK
<1>5. CASE Ledger!Thin
  BY <1>5 DEF Ledger!Thin
<1>6. ASSUME NEW q \in Runs, Ledger!Erase(q)
      PROVE  owned'[r] \subseteq owned[r] /\ sent' = sent /\ files' = files
  BY <1>6 DEF Ledger!Erase, TypeOK
<1>7. ASSUME NEW q \in Runs, Ledger!Unlink(q)
      PROVE  owned' = owned /\ sent' = sent /\ files' \subseteq files
  BY <1>7 DEF Ledger!Unlink
<1> QED BY <1>1, <1>2, <1>3, <1>4, <1>5, <1>6, <1>7 DEF Ledger!Next

\* Nothing is stored, written to disk or delivered for a finished run.
THEOREM FinishedRunsAreFrozen ==
    ASSUME AllowForce = FALSE
    PROVE  Spec => FinishedIsFrozen
<1>1. (Ownership /\ Rows) /\ [Next]_vars =>
          [\A r \in Runs :
               row[r] \in Closed =>
                   /\ owned'[r] \subseteq owned[r]
                   /\ sent'[r] = sent[r]
                   /\ r \in files' => r \in files]_vars
  BY LedgerStep, LedgerFreezes DEF Ownership
<1> QED BY <1>1, RowsInvariant, PTL DEF Spec, FinishedIsFrozen

-----------------------------------------------------------------------------
(* What a run has stored by the time it goes on *)

\* The tables a run has filled, empty inserts apart, when it gets to a stage.
Need(p) ==
    CASE p = "persist" -> {"source_health"}
      [] p = "metrics" -> {"source_health", "events"}
      [] p = "signals" -> {"source_health", "events", "metrics"}
      [] p \in {"ioc", "canaries"} -> {"source_health", "events", "metrics", "signals"}
      [] p \in {"investigate", "adjudicate"} ->
            {"source_health", "events", "metrics", "signals", "canaries"}
      [] p \in {"render", "deliver", "record"} ->
            {"source_health", "events", "metrics", "signals", "canaries", "findings"}
      [] p \in {"purge", "complete"} -> Tables \ {"ioc"}
      [] OTHER -> {}

\* The stages after the model's.
AfterModel == {"adjudicate", "render", "deliver", "record", "purge", "complete"}

Stored(w) ==
    pc[w] \in TryBlock /\ row[run[w]] # "deleted" =>
        Need(pc[w]) \ (Sparse \cup expired[run[w]]) \subseteq owned[run[w]]

Asked(w) == pc[w] \in AfterModel => run[w] \in investigated

Whole ==
    /\ \A w \in Workers : Stored(w) /\ Asked(w)
    /\ DeliveredIsStored
    /\ CompletedIsWhole

\* A worker goes from one stage to the next, and what the next one needs it
\* needed before or has just stored.
Advances(w) ==
    \E next \in TryBlock :
        /\ pc[w] \in TryBlock
        /\ pc' = [pc EXCEPT ![w] = next]
        /\ owned' \in [Runs -> SUBSET Tables]
        /\ \A r \in Runs : owned[r] \subseteq owned'[r]
        /\ Need(next) \ Sparse \subseteq Need(pc[w]) \cup owned'[run[w]]
        /\ next \in AfterModel => pc[w] \in AfterModel \/ run[w] \in investigated'
        /\ investigated \subseteq investigated'
        /\ UNCHANGED <<row, run, expired, sent>>

LEMMA StoresAdvances ==
    ASSUME TypeOK, OwnRun, NEW w \in Workers,
           NEW at \in TryBlock, NEW t \in Tables, NEW next \in TryBlock,
           Need(next) \subseteq Need(at) \cup {t},
           next \in AfterModel => at \in AfterModel,
           Stores(w, at, t, next)
    PROVE  Advances(w)
<1>1. /\ pc[w] = at /\ pc' = [pc EXCEPT ![w] = next]
      /\ UNCHANGED <<row, run, expired, sent, investigated>>
  BY DEF Stores, At, Goto, outside, history
<1>2. PICK rows \in IF t \in Sparse THEN {{}, {t}} ELSE {{t}} :
        owned' = [owned EXCEPT ![run[w]] = @ \cup rows]
  BY DEF Stores, Insert
<1>3. run[w] \in Runs
  BY <1>1, ControlPoints DEF OwnRun, Owns
<1>4. rows \subseteq {t} /\ (t \notin Sparse => t \in rows)
  BY <1>2
<1>5. owned' \in [Runs -> SUBSET Tables] /\ \A r \in Runs : owned[r] \subseteq owned'[r]
  BY <1>2, <1>3, <1>4 DEF TypeOK
<1>6. rows \subseteq owned'[run[w]]
  BY <1>2, <1>3 DEF TypeOK
<1>7. Need(next) \ Sparse \subseteq Need(pc[w]) \cup owned'[run[w]]
  BY <1>1, <1>4, <1>6
<1> QED BY <1>1, <1>5, <1>7 DEF Advances

LEMMA MoveAdvances ==
    ASSUME TypeOK, NEW w \in Workers,
           NEW at \in TryBlock, NEW next \in TryBlock,
           Need(next) \subseteq Need(at),
           next \in AfterModel => at \in AfterModel \/ run[w] \in investigated',
           investigated \subseteq investigated',
           At(w, at), Goto(w, next), UNCHANGED <<row, run, owned, expired, sent>>
    PROVE  Advances(w)
BY DEF Advances, At, Goto, TypeOK

\* Every stage but the purge, the deliveries and the ways out is of that kind.
LEMMA StagesAdvance ==
    ASSUME TypeOK, OwnRun, NEW w \in Workers, Pipeline(w)
    PROVE  \/ StartRun(w) \/ Advances(w) \/ Emit(w) \/ Purge(w)
           \/ Finish(w) \/ RecordFailure(w) \/ Release(w) \/ CliReturn(w) \/ Unlink(w)
<1> DEFINE after(stage, next) == Unless(w, stage, next)
<1>0. \A stage, next : after(stage, next) \in {"stop", next}
  BY DEF Unless
<1>a. {"collect", "verify", "persist", "metrics", "signals", "ioc", "canaries",
       "investigate", "adjudicate", "render", "deliver", "record", "purge", "complete",
       "stop", "abort"} \subseteq TryBlock
  BY DEF TryBlock
<1>b. {"source_health", "events", "metrics", "signals", "ioc", "canaries", "findings",
       "deliveries"} = Tables
  BY DEF Tables
<1>c. Need("stop") = {} /\ Need("abort") = {} /\ Need("collect") = {} /\ Need("verify") = {}
      /\ "stop" \notin AfterModel /\ "abort" \notin AfterModel
  BY DEF Need, AfterModel
<1>1. CASE Verify(w)
  <2>1. Need("persist") \subseteq Need("verify") \cup {"source_health"} /\ "persist" \notin AfterModel
    BY DEF Need, AfterModel
  <2>2. PICK next \in {"stop", "persist"} : Stores(w, "verify", "source_health", next)
    BY <1>0, <1>1 DEF Verify
  <2>3. next \in TryBlock /\ Need(next) \subseteq Need("verify") \cup {"source_health"}
        /\ next \notin AfterModel
    BY <1>a, <1>c, <2>1
  <2> QED BY <1>a, <1>b, <2>2, <2>3, StoresAdvances
<1>2. CASE Persist(w)
  <2>1. Need("metrics") \subseteq Need("persist") \cup {"events"} /\ "metrics" \notin AfterModel
    BY DEF Need, AfterModel
  <2>2. PICK next \in {"stop", "metrics"} : Stores(w, "persist", "events", next)
    BY <1>0, <1>2 DEF Persist
  <2>3. next \in TryBlock /\ Need(next) \subseteq Need("persist") \cup {"events"}
        /\ next \notin AfterModel
    BY <1>a, <1>c, <2>1
  <2> QED BY <1>a, <1>b, <2>2, <2>3, StoresAdvances
<1>3. CASE SaveMetrics(w)
  <2>1. Need("signals") \subseteq Need("metrics") \cup {"metrics"} /\ "signals" \notin AfterModel
    BY DEF Need, AfterModel
  <2> QED BY <1>3, <1>a, <1>b, <2>1, StoresAdvances DEF SaveMetrics
<1>4. CASE SaveSignals(w)
  <2>1. Need("ioc") \subseteq Need("signals") \cup {"signals"} /\ "ioc" \notin AfterModel
    BY DEF Need, AfterModel
  <2> QED BY <1>4, <1>a, <1>b, <2>1, StoresAdvances DEF SaveSignals
<1>5. CASE PersistIoc(w)
  <2>1. Need("canaries") \subseteq Need("ioc") /\ "canaries" \notin AfterModel
    BY DEF Need, AfterModel
  <2>2. CASE Stores(w, "ioc", "ioc", "canaries")
    <3>1. Need("canaries") \subseteq Need("ioc") \cup {"ioc"}
      BY <2>1
    <3> QED BY <2>1, <2>2, <3>1, <1>a, <1>b, StoresAdvances
  <2>3. CASE /\ At(w, "ioc") /\ Goto(w, "canaries")
             /\ UNCHANGED <<up, lock, run, todo, store, outside, history>>
    <3>1. UNCHANGED <<row, run, owned, expired, sent, investigated>>
      BY <2>3 DEF store, outside, history
    <3> QED BY <2>1, <2>3, <3>1, <1>a, MoveAdvances
  <2> QED BY <1>5, <2>2, <2>3 DEF PersistIoc
<1>6. CASE VerifyCanaries(w)
  <2>1. Need("investigate") \subseteq Need("canaries") \cup {"canaries"}
        /\ "investigate" \notin AfterModel
    BY DEF Need, AfterModel
  <2>2. PICK next \in {"stop", "investigate"} : Stores(w, "canaries", "canaries", next)
    BY <1>0, <1>6 DEF VerifyCanaries
  <2>3. next \in TryBlock /\ Need(next) \subseteq Need("canaries") \cup {"canaries"}
        /\ next \notin AfterModel
    BY <1>a, <1>c, <2>1
  <2> QED BY <1>a, <1>b, <2>2, <2>3, StoresAdvances
<1>7. CASE Investigate(w)
  <2>1. Need("adjudicate") \subseteq Need("investigate")
    BY DEF Need
  <2>2. /\ investigated' = investigated \cup {run[w]}
        /\ At(w, "investigate") /\ Goto(w, "adjudicate")
        /\ UNCHANGED <<row, run, owned, expired, sent>>
    BY <1>7 DEF Investigate, store, outside
  <2>3. run[w] \in investigated' /\ investigated \subseteq investigated'
    BY <2>2
  <2> QED BY <1>a, <2>1, <2>2, <2>3, MoveAdvances
<1>8. CASE Adjudicate(w)
  <2>1. Need("render") \subseteq Need("adjudicate") \cup {"findings"} /\ "adjudicate" \in AfterModel
    BY DEF Need, AfterModel
  <2>2. PICK next \in {"stop", "render"} : Stores(w, "adjudicate", "findings", next)
    BY <1>0, <1>8 DEF Adjudicate
  <2>3. next \in TryBlock /\ Need(next) \subseteq Need("adjudicate") \cup {"findings"}
    BY <1>a, <1>c, <2>1
  <2> QED BY <1>a, <1>b, <2>1, <2>2, <2>3, StoresAdvances
<1>9. CASE SaveDeliveries(w)
  <2>1. Need("purge") \subseteq Need("record") \cup {"deliveries"} /\ "record" \in AfterModel
    BY DEF Need, AfterModel, Tables
  <2> QED BY <1>9, <1>a, <1>b, <2>1, StoresAdvances DEF SaveDeliveries
<1>10. CASE Collect(w)
  <2>1. PICK next \in {"abort", "verify"} : Goto(w, next)
    BY <1>10 DEF Collect
  <2>2. At(w, "collect") /\ UNCHANGED <<row, run, owned, expired, sent, investigated>>
    BY <1>10 DEF Collect, store, outside, history
  <2>3. Need(next) = {} /\ next \notin AfterModel /\ next \in TryBlock
    BY <1>a, <1>c DEF AfterModel
  <2> QED BY <1>a, <2>1, <2>2, <2>3, MoveAdvances
<1>11. CASE Render(w)
  <2>1. PICK next \in {"abort", "stop", "deliver"} : Goto(w, next)
    BY <1>11, <1>0 DEF Render
  <2>2. At(w, "render") /\ UNCHANGED <<row, run, owned, expired, sent, investigated>>
    BY <1>11 DEF Render, store, outside, history
  <2>3. Need(next) \subseteq Need("render") /\ "render" \in AfterModel
    BY <1>c DEF Need, AfterModel
  <2>4. next \in TryBlock
    BY <1>a
  <2> QED BY <1>a, <2>1, <2>2, <2>3, <2>4, MoveAdvances
<1>12. CASE Delivered(w)
  <2>1. At(w, "deliver") /\ Goto(w, "record")
        /\ UNCHANGED <<row, run, owned, expired, sent, investigated>>
    BY <1>12 DEF Delivered, store, outside, history
  <2>2. Need("record") \subseteq Need("deliver") /\ "deliver" \in AfterModel
    BY DEF Need, AfterModel
  <2> QED BY <1>a, <2>1, <2>2, MoveAdvances
<1> QED BY <1>1, <1>2, <1>3, <1>4, <1>5, <1>6, <1>7, <1>8, <1>9, <1>10, <1>11, <1>12
        DEF Pipeline

\* What any step leaves of the rows of a run: all of them, but for those past
\* their retention, unless it deletes the run.
Kept(r) ==
    /\ row[r] = "deleted" => row'[r] = "deleted"
    /\ row'[r] # "deleted" => owned[r] \ expired[r] \subseteq owned'[r]
    /\ expired[r] \subseteq expired'[r]
    /\ investigated \subseteq investigated'

LEMMA KeptUnchanged ==
    ASSUME UNCHANGED <<row, owned, expired, investigated>>
    PROVE  \A r \in Runs : Kept(r)
BY DEF Kept

LEMMA WorkersKeepRows ==
    ASSUME Ownership, NEW w \in Workers, Pipeline(w) \/ Failure(w) \/ DeleteRun(w)
    PROVE  \A r \in Runs : Kept(r)
<1> USE ControlPoints
<1> SUFFICES ASSUME NEW r \in Runs PROVE Kept(r)
  OBVIOUS
<1>0. TypeOK /\ OwnRun /\ Fresh
  BY DEF Ownership
<1>t. /\ row \in [Runs -> RowState] /\ owned \in [Runs -> SUBSET Tables]
      /\ expired \in [Runs -> SUBSET Retained] /\ sent \in [Runs -> SUBSET Outputs]
      /\ pc \in [Workers -> Control] /\ run \in [Workers -> Runs \cup {NoRun}]
  BY <1>0, Zenon DEF TypeOK
<1>1. CASE StartRun(w)
  <2>1. row[run[w]] = "absent"
    BY <1>0, <1>1 DEF StartRun, At, Fresh, Untouched
  <2> QED BY <1>t, <1>1, <2>1 DEF StartRun, history, args, Kept
<1>2. CASE InsertStep(w)
  <2>1. PICK at \in TryBlock, t \in Tables, next \in TryBlock : Stores(w, at, t, next)
    BY <1>2 DEF InsertStep
  <2>2. PICK rows \in SUBSET {t} : owned' = [owned EXCEPT ![run[w]] = @ \cup rows]
    BY <2>1 DEF Stores, Insert
  <2> QED BY <1>t, <2>1, <2>2 DEF Stores, history, args, Kept
<1>3. CASE Move(w)
  <2>1. UNCHANGED <<row, owned, expired>> /\ investigated \subseteq investigated'
    BY <1>3 DEF Move, store
  <2> QED BY <2>1 DEF Kept
<1>4. CASE Emit(w)
  BY <1>4, KeptUnchanged DEF Emit, store, history, args
<1>5. CASE Purge(w)
  BY <1>t, <1>5 DEF Purge, history, args, Kept
<1>6. CASE Finish(w)
  BY <1>t, <1>6 DEF Finish, Close, history, args, Kept
<1>7. CASE RecordFailure(w)
  BY <1>t, <1>7 DEF RecordFailure, Close, history, args, Kept
<1>8. CASE Release(w)
  BY <1>8, KeptUnchanged DEF Release, store, history, args
<1>9. CASE CliReturn(w)
  BY <1>t, <1>9 DEF CliReturn, EraseRows, history, args, Kept
<1>10. CASE Unlink(w)
  BY <1>10, KeptUnchanged DEF Unlink, store, history, args
<1>11. CASE Failure(w)
  BY <1>11, KeptUnchanged DEF Failure, Raise, Unwind, KillCli, store
<1>12. CASE DeleteRun(w)
  BY <1>t, <1>12 DEF DeleteRun, EraseRows, history, args, Kept
<1> QED BY StepKinds, <1>1, <1>2, <1>3, <1>4, <1>5, <1>6, <1>7, <1>8, <1>9, <1>10,
           <1>11, <1>12

\* Where a worker stands after a step of its own: in a try block whose next
\* stage has what it needs, or outside.
LEMMA WorkerStaysWhole ==
    ASSUME Ownership, NEW w \in Workers, Stored(w), Asked(w),
           Pipeline(w) \/ Failure(w) \/ DeleteRun(w)
    PROVE  Stored(w)' /\ Asked(w)'
<1> USE ControlPoints
<1>0. TypeOK /\ OwnRun /\ Fresh
  BY DEF Ownership
<1>t. /\ row \in [Runs -> RowState] /\ owned \in [Runs -> SUBSET Tables]
      /\ expired \in [Runs -> SUBSET Retained] /\ sent \in [Runs -> SUBSET Outputs]
      /\ pc \in [Workers -> Control] /\ run \in [Workers -> Runs \cup {NoRun}]
  BY <1>0, Zenon DEF TypeOK
<1>a. \A r \in Runs : Kept(r)
  BY WorkersKeepRows
<1>b. pc[w] \in TryBlock => run[w] \in Runs
  BY <1>0 DEF OwnRun, Owns
<1>c. AfterModel \subseteq TryBlock
  BY DEF AfterModel, TryBlock
<1>d. ASSUME pc'[w] \notin TryBlock PROVE Stored(w)' /\ Asked(w)'
  BY <1>c, <1>d DEF Stored, Asked
<1>1. CASE StartRun(w)
  <2>1. pc'[w] = "collect"
    BY <1>t, <1>1 DEF StartRun, Goto
  <2>2. Need("collect") = {} /\ "collect" \notin AfterModel
    BY DEF Need, AfterModel
  <2> QED BY <2>1, <2>2 DEF Stored, Asked
<1>2. CASE Advances(w)
  <2>1. PICK next \in TryBlock :
            /\ pc[w] \in TryBlock
            /\ pc' = [pc EXCEPT ![w] = next]
            /\ \A r \in Runs : owned[r] \subseteq owned'[r]
            /\ Need(next) \ Sparse \subseteq Need(pc[w]) \cup owned'[run[w]]
            /\ next \in AfterModel => pc[w] \in AfterModel \/ run[w] \in investigated'
            /\ investigated \subseteq investigated'
            /\ UNCHANGED <<row, run, expired>>
    BY <1>2 DEF Advances
  <2>2. pc'[w] = next /\ run[w] \in Runs
    BY <1>t, <1>b, <2>1
  <2>3. Asked(w)'
    BY <2>1, <2>2 DEF Asked
  <2>4. ASSUME row[run[w]] # "deleted"
        PROVE  Need(next) \ (Sparse \cup expired[run[w]]) \subseteq owned'[run[w]]
    <3>1. Need(pc[w]) \ (Sparse \cup expired[run[w]]) \subseteq owned[run[w]]
      BY <2>1, <2>4 DEF Stored
    <3> QED BY <2>1, <2>2, <3>1
  <2>5. Stored(w)'
    BY <2>1, <2>2, <2>4 DEF Stored
  <2> QED BY <2>3, <2>5
<1>3. CASE Emit(w)
  <2>1. UNCHANGED <<pc, run, row, owned, expired, investigated>>
    BY <1>3 DEF Emit, store, history, args
  <2> QED BY <2>1 DEF Stored, Asked, Need
<1>4. CASE Purge(w)
  <2>1. pc[w] = "purge" /\ pc'[w] = "complete" /\ run' = run /\ row' = row
        /\ expired' = expired /\ investigated' = investigated
    BY <1>t, <1>4 DEF Purge, At, Goto, history, args
  <2>2. Need("complete") = Need("purge") /\ "purge" \in AfterModel /\ "purge" \in TryBlock
    BY DEF Need, AfterModel, TryBlock
  <2>3. run[w] \in Runs
    BY <1>b, <2>1, <2>2
  <2>4. row[run[w]] # "deleted" =>
            Need("purge") \ (Sparse \cup expired[run[w]]) \subseteq owned'[run[w]]
    BY <1>a, <2>1, <2>2, <2>3 DEF Stored, Kept
  <2> QED BY <2>1, <2>2, <2>4 DEF Stored, Asked
<1>5. CASE \/ Finish(w) \/ RecordFailure(w) \/ Release(w) \/ CliReturn(w) \/ Unlink(w)
           \/ Failure(w) \/ DeleteRun(w)
  <2>1. pc'[w] \in {"return", "idle", "unlink", "except"}
    BY <1>t, <1>5 DEF Finish, RecordFailure, Release, CliReturn, Unlink, Failure, Raise,
       Unwind, KillCli, DeleteRun, Goto
  <2>2. pc'[w] \notin TryBlock
    BY <2>1 DEF TryBlock
  <2> QED BY <1>d, <2>2
<1> QED BY <1>0, <1>1, <1>2, <1>3, <1>4, <1>5, StagesAdvance

\* Only Emit delivers, and only the last statement of the try block records a
\* run as completed.
LEMMA OutcomesOfWorker ==
    ASSUME Ownership, NEW w \in Workers, Pipeline(w) \/ Failure(w) \/ DeleteRun(w),
           NEW r \in Runs
    PROVE  /\ sent'[r] = sent[r] \/ (pc[w] = "deliver" /\ run[w] = r)
           /\ row'[r] = "completed" =>
                  row[r] = "completed" \/ (pc[w] = "complete" /\ run[w] = r)
<1> USE ControlPoints
<1>0. TypeOK
  BY DEF Ownership
<1>t. /\ row \in [Runs -> RowState] /\ owned \in [Runs -> SUBSET Tables]
      /\ expired \in [Runs -> SUBSET Retained] /\ sent \in [Runs -> SUBSET Outputs]
      /\ pc \in [Workers -> Control] /\ run \in [Workers -> Runs \cup {NoRun}]
  BY <1>0, Zenon DEF TypeOK
<1>1. CASE StartRun(w)
  BY <1>t, <1>1 DEF StartRun, outside
<1>2. CASE InsertStep(w)
  BY <1>2 DEF InsertStep, Stores, outside
<1>3. CASE Move(w)
  BY <1>3 DEF Move, store, outside
<1>4. CASE Emit(w)
  <2>1. PICK o \in todo[w] : Served(w, o)
    BY <1>4, EmitServes
  <2>2. sent' = sent \/ sent' = [sent EXCEPT ![run[w]] = @ \cup {o}]
    BY <2>1 DEF Served
  <2>3. sent'[r] = sent[r] \/ run[w] = r
    BY <1>t, <2>2
  <2> QED BY <1>4, <2>3 DEF Emit, At, store
<1>5. CASE Purge(w)
  BY <1>5 DEF Purge, outside
<1>6. CASE Finish(w)
  BY <1>t, <1>6 DEF Finish, Close, OutcomeAt, outside
<1>7. CASE RecordFailure(w)
  BY <1>t, <1>7 DEF RecordFailure, Close, outside
<1>8. CASE Release(w) \/ Unlink(w) \/ Failure(w)
  BY <1>8 DEF Release, Unlink, Failure, Raise, Unwind, KillCli, store, outside
<1>9. CASE CliReturn(w)
  BY <1>t, <1>9 DEF CliReturn, EraseRows, outside
<1>10. CASE DeleteRun(w)
  BY <1>t, <1>10 DEF DeleteRun, EraseRows, outside
<1> QED BY StepKinds, <1>1, <1>2, <1>3, <1>4, <1>5, <1>6, <1>7, <1>8, <1>9, <1>10

LEMMA WholeAtStart == Init => Whole
<1> SUFFICES ASSUME Init PROVE Whole
  OBVIOUS
<1>1. \A w \in Workers : pc[w] = "idle"
  BY DEF Init
<1>2. "idle" \notin TryBlock /\ "idle" \notin AfterModel
  BY DEF TryBlock, AfterModel
<1>3. \A r \in Runs : sent[r] = {} /\ row[r] = "absent"
  BY DEF Init
<1> QED BY <1>1, <1>2, <1>3 DEF Whole, Stored, Asked, DeliveredIsStored, CompletedIsWhole

\* A step that leaves every worker's place, or takes it out of the try block,
\* and delivers and completes nothing.
LEMMA WholeQuiet ==
    ASSUME Ownership, Whole,
           \A w \in Workers : pc'[w] \notin TryBlock \/ (pc'[w] = pc[w] /\ run'[w] = run[w]),
           \A r \in Runs : Kept(r),
           row' = row, sent' = sent
    PROVE  Whole'
<1>0. TypeOK /\ OwnRun
  BY DEF Ownership
<1>1. AfterModel \subseteq TryBlock /\ TryBlock \subseteq Working
  BY DEF AfterModel, TryBlock, Working
<1>2. ASSUME NEW w \in Workers PROVE Stored(w)' /\ Asked(w)'
  <2>1. CASE pc'[w] \notin TryBlock
    BY <1>1, <2>1 DEF Stored, Asked
  <2>2. CASE pc'[w] = pc[w] /\ run'[w] = run[w] /\ pc[w] \in TryBlock
    <3>1. run[w] \in Runs
      BY <1>0, <1>1, <2>2 DEF OwnRun, Owns
    <3> QED BY <2>2, <3>1 DEF Whole, Stored, Asked, Kept
  <2> QED BY <2>1, <2>2
<1>3. DeliveredIsStored' /\ CompletedIsWhole'
  BY DEF Whole, DeliveredIsStored, CompletedIsWhole, Kept
<1> QED BY <1>2, <1>3 DEF Whole

LEMMA WholeStep == Ownership /\ Whole /\ [Next]_vars => Whole'
<1> SUFFICES ASSUME Ownership, Whole, [Next]_vars PROVE Whole'
  OBVIOUS
<1>0. TypeOK /\ OwnRun /\ \A w \in Workers : Stored(w) /\ Asked(w)
  BY DEF Ownership, Whole
<1>t. pc \in [Workers -> Control] /\ run \in [Workers -> Runs \cup {NoRun}]
  BY <1>0, Zenon DEF TypeOK
<1>a. AfterModel \subseteq TryBlock /\ TryBlock \subseteq Working
  BY DEF AfterModel, TryBlock, Working
<1>1. ASSUME NEW w \in Workers, Pipeline(w) \/ Failure(w) \/ DeleteRun(w)
      PROVE  Whole'
  <2>1. \A r \in Runs : Kept(r)
    BY <1>1, WorkersKeepRows
  <2>2. \A v \in Workers : v # w => pc'[v] = pc[v] /\ run'[v] = run[v]
    BY <1>0, <1>1, KeepsRun
  <2>3. Stored(w)' /\ Asked(w)'
    BY <1>0, <1>1, WorkerStaysWhole
  <2>4. ASSUME NEW v \in Workers, v # w PROVE Stored(v)' /\ Asked(v)'
    <3>1. CASE pc[v] \in TryBlock
      <4>1. run[v] \in Runs
        BY <1>0, <1>a, <3>1 DEF OwnRun, Owns
      <4> QED BY <1>0, <2>1, <2>2, <2>4, <4>1 DEF Stored, Asked, Kept
    <3>2. CASE pc[v] \notin TryBlock
      BY <1>a, <2>2, <2>4, <3>2 DEF Stored, Asked
    <3> QED BY <3>1, <3>2
  <2>5. ASSUME NEW r \in Runs, sent'[r] # {}, row'[r] # "deleted"
        PROVE  Tables \ ({"deliveries", "ioc"} \cup Sparse \cup expired'[r]) \subseteq owned'[r]
    <3>0. row[r] # "deleted" /\ expired[r] \subseteq expired'[r]
          /\ owned[r] \ expired[r] \subseteq owned'[r]
      BY <2>1, <2>5 DEF Kept
    <3>1. CASE sent[r] # {}
      BY <3>0, <3>1 DEF Whole, DeliveredIsStored
    <3>2. CASE sent[r] = {}
      <4>1. pc[w] = "deliver" /\ run[w] = r
        BY <1>1, <2>5, <3>2, OutcomesOfWorker
      <4>2. Need("deliver") = Tables \ {"deliveries", "ioc"} /\ "deliver" \in TryBlock
        BY DEF Need, Tables, TryBlock
      <4>3. Need("deliver") \ (Sparse \cup expired[r]) \subseteq owned[r]
        BY <1>0, <3>0, <4>1, <4>2 DEF Stored
      <4> QED BY <3>0, <4>2, <4>3
    <3> QED BY <3>1, <3>2
  <2>6. ASSUME NEW r \in Runs, row'[r] = "completed"
        PROVE  /\ r \in investigated'
               /\ Tables \ ({"ioc"} \cup Sparse \cup expired'[r]) \subseteq owned'[r]
    <3>0. row[r] # "deleted" /\ expired[r] \subseteq expired'[r]
          /\ owned[r] \ expired[r] \subseteq owned'[r] /\ investigated \subseteq investigated'
      BY <2>1, <2>6 DEF Kept
    <3>1. CASE row[r] = "completed"
      BY <3>0, <3>1 DEF Whole, CompletedIsWhole
    <3>2. CASE row[r] # "completed"
      <4>1. pc[w] = "complete" /\ run[w] = r
        BY <1>1, <2>6, <3>2, OutcomesOfWorker
      <4>2. Need("complete") = Tables \ {"ioc"} /\ "complete" \in TryBlock
            /\ "complete" \in AfterModel
        BY DEF Need, Tables, TryBlock, AfterModel
      <4>3. Need("complete") \ (Sparse \cup expired[r]) \subseteq owned[r] /\ r \in investigated
        BY <1>0, <3>0, <4>1, <4>2 DEF Stored, Asked
      <4> QED BY <3>0, <4>2, <4>3
    <3> QED BY <3>1, <3>2
  <2>7. DeliveredIsStored' /\ CompletedIsWhole'
    BY <2>5, <2>6 DEF DeliveredIsStored, CompletedIsWhole
  <2> QED BY <2>3, <2>4, <2>7 DEF Whole
<1>2. ASSUME NEW w \in Workers, NEW r \in Runs, Enter(w, r),
             UNCHANGED <<row, owned, expired, investigated, sent>>
      PROVE  Whole'
  <2>1. \A v \in Workers : pc'[v] = "begin" \/ (pc'[v] = pc[v] /\ run'[v] = run[v])
    BY <1>t, <1>2 DEF Enter, Goto
  <2>2. "begin" \notin TryBlock
    BY DEF TryBlock
  <2>3. \A q \in Runs : Kept(q)
    BY <1>2, KeptUnchanged
  <2> QED BY <1>2, <2>1, <2>2, <2>3, WholeQuiet
<1>3. ASSUME NEW w \in Workers, Acquire(w) \/ CliRun(w) PROVE Whole'
  BY <1>2, <1>3 DEF Acquire, CliRun, store, outside
<1>4. ASSUME NEW r \in Runs, Age(r) PROVE Whole'
  <2>1. PICK t \in Aging : expired' = [expired EXCEPT ![r] = @ \cup {t}]
    BY <1>4 DEF Age
  <2>2. expired \in [Runs -> SUBSET Retained]
    BY <1>0, Zenon DEF TypeOK
  <2>3. \A q \in Runs : expired[q] \subseteq expired'[q]
    BY <2>1, <2>2
  <2>4. UNCHANGED <<pc, run, row, owned, sent, investigated>>
    BY <1>4 DEF Age, process, outside, history
  <2>5. \A q \in Runs : Kept(q)
    BY <2>3, <2>4 DEF Kept
  <2> QED BY <2>4, <2>5, WholeQuiet
<1>5. CASE KillDaemon
  <2>1. \A v \in Workers : pc'[v] = "idle" \/ (pc'[v] = pc[v] /\ run'[v] = run[v])
    BY <1>5 DEF KillDaemon
  <2>2. "idle" \notin TryBlock
    BY DEF TryBlock
  <2>3. UNCHANGED <<row, owned, expired, investigated, sent>>
    BY <1>5 DEF KillDaemon, store, outside
  <2>4. \A q \in Runs : Kept(q)
    BY <2>3, KeptUnchanged
  <2> QED BY <2>1, <2>2, <2>3, <2>4, WholeQuiet
<1>6. CASE Restart \/ UNCHANGED vars
  <2>1. UNCHANGED <<pc, run, row, owned, expired, investigated, sent>>
    BY <1>6 DEF Restart, vars, process, store, outside, history
  <2>2. \A q \in Runs : Kept(q)
    BY <2>1, KeptUnchanged
  <2> QED BY <2>1, <2>2, WholeQuiet
<1> QED BY <1>1, <1>3, <1>4, <1>5, <1>6 DEF Next, OutOfRunIds

\* Wherever a run is in the try block, the stages before it have left their
\* rows, whatever other processes delete, purge or run meanwhile; --force
\* included, for a run that is deleted under its worker is no longer listed.
THEOREM WholeInvariant == Spec => [](Ownership /\ Whole)
<1>1. Init => Ownership /\ Whole
  BY OwnershipAtStart, WholeAtStart
<1>2. (Ownership /\ Whole) /\ [Next]_vars => (Ownership /\ Whole)'
  BY OwnershipStep, WholeStep
<1> QED BY <1>1, <1>2, PTL DEF Spec

\* Runner.run stores a run's health, events, metrics, signals, canaries and
\* findings before _deliver hands its report to any output.
THEOREM DeliveriesAreStored == Spec => []DeliveredIsStored
<1>1. Ownership /\ Whole => DeliveredIsStored
  BY DEF Whole
<1> QED BY <1>1, WholeInvariant, PTL

\* finish_run at the end of the try block is reached only through every stage.
THEOREM CompletedRunsAreWhole == Spec => []CompletedIsWhole
<1>1. Ownership /\ Whole => CompletedIsWhole
  BY DEF Whole
<1> QED BY <1>1, WholeInvariant, PTL

-----------------------------------------------------------------------------
(* What a run was asked not to do *)

\* Who may email: the choice of outputs is made when rendering and used when
\* delivering.
Quiet ==
    /\ \A w \in Mcp : "smtp" \notin todo[w]
    /\ McpNeverEmails

LEMMA QuietStep == Ownership /\ Quiet /\ [Next]_vars => Quiet'
<1> SUFFICES ASSUME Ownership, Quiet, [Next]_vars PROVE Quiet'
  OBVIOUS
<1>0. TypeOK /\ OwnRun /\ Fresh
  BY DEF Ownership
<1>t. /\ todo \in [Workers -> SUBSET Outputs] /\ sent \in [Runs -> SUBSET Outputs]
      /\ by \in [Runs -> Workers \cup {Nobody}]
  BY <1>0, Zenon DEF TypeOK
<1>a. Mcp \subseteq Workers
  BY DEF Workers, Daemon
<1>b. ASSUME by' = by, sent' = sent,
             \A v \in Mcp : todo'[v] \subseteq todo[v] \/ "smtp" \notin todo'[v]
      PROVE  Quiet'
  BY <1>b DEF Quiet, McpNeverEmails
<1>1. ASSUME NEW w \in Workers, Pipeline(w) \/ Failure(w) \/ DeleteRun(w)
      PROVE  Quiet'
  <2>1. by' = by
    BY <1>0, <1>1, KeepsRun
  <2>2. CASE Emit(w)
    <3>1. pc[w] = "deliver" /\ "deliver" \in Working
      BY <2>2 DEF Emit, At, Working, TryBlock
    <3>2. run[w] \in Runs /\ by[run[w]] = w
      BY <1>0, <3>1 DEF OwnRun, Owns
    <3>3. PICK o \in todo[w] : Served(w, o)
      BY <2>2, EmitServes
    <3>4. todo' = [todo EXCEPT ![w] = @ \ {o}]
      BY <3>3 DEF Served
    <3>5. sent' = sent \/ sent' = [sent EXCEPT ![run[w]] = @ \cup {o}]
      BY <3>3 DEF Served
    <3>6. \A v \in Mcp : "smtp" \notin todo'[v]
      BY <1>t, <1>a, <3>4 DEF Quiet
    <3>7. ASSUME NEW r \in Runs, by[r] \in Mcp PROVE "smtp" \notin sent'[r]
      <4>1. "smtp" \notin sent[r]
        BY <3>7 DEF Quiet, McpNeverEmails
      <4>2. CASE run[w] = r
        BY <1>t, <3>2, <3>3, <3>5, <3>7, <4>1, <4>2 DEF Quiet
      <4>3. CASE run[w] # r
        BY <1>t, <3>5, <4>1, <4>3
      <4> QED BY <4>2, <4>3
    <3> QED BY <2>1, <3>6, <3>7 DEF Quiet, McpNeverEmails
  <2>3. CASE StartRun(w) \/ Purge(w) \/ Finish(w) \/ RecordFailure(w) \/ Release(w)
             \/ CliReturn(w) \/ Unlink(w) \/ DeleteRun(w)
    <3>1. todo' = todo /\ sent' = sent
      BY <2>3 DEF StartRun, Purge, Finish, RecordFailure, Release, CliReturn, Unlink,
         DeleteRun, outside
    <3> QED BY <1>b, <2>1, <3>1
  <2>4. CASE InsertStep(w)
    <3>1. todo' = todo /\ sent' = sent
      BY <2>4 DEF InsertStep, Stores, outside
    <3> QED BY <1>b, <2>1, <3>1
  <2>5. CASE Move(w)
    <3>1. sent' = sent /\ todo' \in {todo, [todo EXCEPT ![w] = ChosenOutputs(w)]}
      BY <2>5 DEF Move, outside
    <3>2. \A v \in Mcp : "smtp" \notin todo'[v]
      BY <1>t, <1>a, <3>1 DEF Quiet, ChosenOutputs
    <3> QED BY <1>b, <2>1, <3>1, <3>2
  <2>6. CASE Failure(w)
    <3>1. sent' = sent /\ (todo' = todo \/ todo' = [todo EXCEPT ![w] = {}])
      BY <2>6 DEF Failure, Raise, Unwind, KillCli, outside
    <3>2. \A v \in Mcp : todo'[v] \subseteq todo[v]
      BY <1>t, <1>a, <3>1
    <3> QED BY <1>b, <2>1, <3>1, <3>2
  <2> QED BY <1>1, <2>2, <2>3, <2>4, <2>5, <2>6, StepKinds
<1>2. ASSUME NEW w \in Workers, NEW r \in Runs, Enter(w, r), todo' = todo, sent' = sent
      PROVE  Quiet'
  <2>1. by[r] = Nobody /\ by' = [by EXCEPT ![r] = w]
    BY <1>2 DEF Enter
  <2>2. sent[r] = {}
    BY <1>0, <2>1 DEF Fresh, Untouched
  <2>3. ASSUME NEW q \in Runs, by'[q] \in Mcp PROVE "smtp" \notin sent'[q]
    BY <1>2, <1>t, <2>1, <2>2, <2>3 DEF Quiet, McpNeverEmails
  <2> QED BY <1>2, <2>3 DEF Quiet, McpNeverEmails
<1>3. ASSUME NEW w \in Workers, Acquire(w) \/ CliRun(w) PROVE Quiet'
  BY <1>2, <1>3 DEF Acquire, CliRun, outside
<1>4. ASSUME NEW r \in Runs, Age(r) PROVE Quiet'
  BY <1>4, <1>b DEF Age, process, outside, history, args
<1>5. CASE KillDaemon
  <2>1. by' = by /\ sent' = sent /\ \A v \in Mcp : todo'[v] = {} \/ todo'[v] = todo[v]
    BY <1>5, <1>a DEF KillDaemon, outside, args
  <2> QED BY <1>b, <2>1
<1>6. CASE Restart \/ UNCHANGED vars
  <2>1. by' = by /\ sent' = sent /\ todo' = todo
    BY <1>6 DEF Restart, vars, process, outside, history, args
  <2> QED BY <1>b, <2>1
<1> QED BY <1>1, <1>3, <1>4, <1>5, <1>6 DEF Next, OutOfRunIds

\* trigger_analysis never emails, however many runs the scheduler and the
\* command line make beside it: the outputs a run skips are its own choice.
THEOREM TriggeredRunsNeverEmail == Spec => []McpNeverEmails
<1>1. Init => Ownership /\ Quiet
  <2>1. Init => Quiet
    BY DEF Init, Quiet, McpNeverEmails, Workers, Daemon
  <2> QED BY <2>1, OwnershipAtStart
<1>2. (Ownership /\ Quiet) /\ [Next]_vars => (Ownership /\ Quiet)'
  BY OwnershipStep, QuietStep
<1>3. Ownership /\ Quiet => McpNeverEmails
  BY DEF Quiet
<1> QED BY <1>1, <1>2, <1>3, PTL DEF Spec

\* The --stop-after values nothing compares with, and those that deliver.
Ignored     == {"verify", "investigate"}
DeliverToo  == {"", "deliver"}
BeforeModel == {"collect", "verify", "persist", "analyze"}

\* The stop points a run has gone past at a stage.
Passed(p) ==
    CASE p = "persist" -> {"collect"}
      [] p \in {"metrics", "signals", "ioc", "canaries"} -> {"collect", "persist"}
      [] p \in {"investigate", "adjudicate"} -> {"collect", "persist", "analyze"}
      [] p = "render" -> {"collect", "persist", "analyze", "adjudicate"}
      [] p \in {"deliver", "record", "purge", "complete"} ->
            {"collect", "persist", "analyze", "adjudicate", "render"}
      [] OTHER -> {}

Passes(w) == pc[w] \in TryBlock => stopAfter[run[w]] \notin Passed(pc[w])

Within(r) ==
    /\ stopAfter[r] \notin Ignored
    /\ owned[r] \subseteq FilledBy(stopAfter[r])
    /\ sent[r] # {} => stopAfter[r] \in DeliverToo
    /\ r \in investigated => stopAfter[r] \notin BeforeModel
    /\ by[r] = Nobody => r \notin investigated

Obedient ==
    /\ \A w \in Workers : Passes(w)
    /\ \A r \in Runs : Within(r)

LEMMA WithinHonours == (\A r \in Runs : Within(r)) => StopAfterHonoured
<1> SUFFICES ASSUME \A r \in Runs : Within(r), NEW r \in Runs
             PROVE  /\ owned[r] \subseteq FilledBy(stopAfter[r])
                    /\ stopAfter[r] \notin {"", "deliver"} => sent[r] = {}
                    /\ stopAfter[r] \in {"collect", "verify", "persist", "analyze"}
                          => r \notin investigated
  BY Zenon DEF StopAfterHonoured
<1>1. Within(r)
  OBVIOUS
<1> QED BY <1>1, Zenon DEF Within, DeliverToo, BeforeModel

LEMMA PastAllStops ==
    ASSUME NEW s \in STOP_STAGES \cup {""}, s \notin Ignored, s \notin Passed("deliver")
    PROVE  s \in DeliverToo
<1>1. s \notin {"collect", "persist", "analyze", "adjudicate", "render"}
  BY DEF Passed
<1> QED BY <1>1, Zenon DEF STOP_STAGES, Ignored, DeliverToo

LEMMA PastTheModel ==
    ASSUME NEW s, s \notin Ignored, s \notin Passed("investigate")
    PROVE  s \notin BeforeModel
BY DEF Passed, Ignored, BeforeModel

\* What a stage may store for a run that has gone past the stops before it.
LEMMA MayStore ==
    ASSUME NEW s, s \notin Ignored
    PROVE  /\ "source_health" \in FilledBy(s)
           /\ s \notin Passed("persist") => "events" \in FilledBy(s)
           /\ s \notin Passed("metrics") =>
                  {"metrics", "signals", "ioc", "canaries"} \subseteq FilledBy(s)
           /\ s \notin Passed("adjudicate") => "findings" \in FilledBy(s)
           /\ s \notin Passed("record") => "deliveries" \in FilledBy(s)
BY DEF Ignored, Passed, FilledBy, Tables

\* A worker goes on in the try block without passing its run's stop.
Obeys(w) ==
    \E next \in TryBlock :
        /\ pc[w] \in TryBlock
        /\ pc' = [pc EXCEPT ![w] = next]
        /\ stopAfter[run[w]] \notin Passed(next)
        /\ \A r \in Runs : owned'[r] \subseteq owned[r] \cup
                               (IF r = run[w] THEN FilledBy(stopAfter[r]) ELSE {})
        /\ \/ investigated' = investigated
           \/ /\ investigated' = investigated \cup {run[w]}
              /\ stopAfter[run[w]] \notin BeforeModel
        /\ UNCHANGED <<run, sent, by, stopAfter>>

LEMMA StoresObeys ==
    ASSUME Ownership, NEW w \in Workers, NEW at \in TryBlock, NEW t \in Tables,
           NEW next \in TryBlock, stopAfter[run[w]] \notin Passed(next),
           t \in FilledBy(stopAfter[run[w]]), Stores(w, at, t, next)
    PROVE  Obeys(w)
<1>1. owned \in [Runs -> SUBSET Tables]
  BY Zenon DEF Ownership, TypeOK
<1>2. /\ pc[w] = at /\ pc' = [pc EXCEPT ![w] = next]
      /\ UNCHANGED <<run, sent, investigated, by, stopAfter>>
  BY DEF Stores, At, Goto, outside, history, args
<1>3. PICK rows \in SUBSET {t} : owned' = [owned EXCEPT ![run[w]] = @ \cup rows]
  BY DEF Stores, Insert
<1>4. \A r \in Runs : owned'[r] \subseteq owned[r] \cup
                              (IF r = run[w] THEN FilledBy(stopAfter[r]) ELSE {})
  BY <1>1, <1>3
<1> QED BY <1>2, <1>4 DEF Obeys

LEMMA MoveObeys ==
    ASSUME NEW w \in Workers, NEW at \in TryBlock, NEW next \in TryBlock,
           stopAfter[run[w]] \notin Passed(next),
           At(w, at), Goto(w, next), UNCHANGED <<run, owned, sent, by, stopAfter>>,
           \/ investigated' = investigated
           \/ /\ investigated' = investigated \cup {run[w]}
              /\ stopAfter[run[w]] \notin BeforeModel
    PROVE  Obeys(w)
BY DEF Obeys, At, Goto

\* The comparison after a stage takes the run to _stop or past the stop point.
LEMMA UnlessPasses ==
    ASSUME NEW w, NEW at, NEW stage, NEW next, NEW after,
           stopAfter[run[w]] \notin Passed(at),
           Passed(next) \subseteq Passed(at) \cup {stage},
           after = Unless(w, stage, next)
    PROVE  stopAfter[run[w]] \notin Passed(after)
<1>1. Passed("stop") = {}
  BY DEF Passed
<1> QED BY <1>1 DEF Unless

LEMMA StagesObey ==
    ASSUME Ownership, NEW w \in Workers, Passes(w), Pipeline(w),
           pc[w] \in TryBlock => stopAfter[run[w]] \notin Ignored
    PROVE  \/ StartRun(w) \/ Obeys(w) \/ Emit(w)
           \/ Finish(w) \/ RecordFailure(w) \/ Release(w) \/ CliReturn(w) \/ Unlink(w)
<1> DEFINE s == stopAfter[run[w]]
<1>a. {"collect", "verify", "persist", "metrics", "signals", "ioc", "canaries",
       "investigate", "adjudicate", "render", "deliver", "record", "purge", "complete",
       "stop", "abort"} \subseteq TryBlock
  BY DEF TryBlock
<1>b. {"source_health", "events", "metrics", "signals", "ioc", "canaries", "findings",
       "deliveries"} = Tables
  BY DEF Tables
<1>c. pc[w] \in TryBlock => s \notin Passed(pc[w]) /\ s \notin Ignored
  BY DEF Passes
<1>d. \A stage, next : Unless(w, stage, next) \in {"stop", next}
  BY DEF Unless
<1>e. Passed("collect") = {} /\ Passed("verify") = {} /\ Passed("stop") = {}
      /\ Passed("abort") = {}
  BY DEF Passed
<1>f. /\ Passed("metrics") = Passed("persist") \cup {"persist"}
      /\ Passed("persist") = {"collect"}
      /\ Passed("signals") = Passed("metrics") /\ Passed("ioc") = Passed("metrics")
      /\ Passed("canaries") = Passed("metrics")
      /\ Passed("investigate") = Passed("canaries") \cup {"analyze"}
      /\ Passed("adjudicate") = Passed("investigate")
      /\ Passed("render") = Passed("adjudicate") \cup {"adjudicate"}
      /\ Passed("deliver") = Passed("render") \cup {"render"}
      /\ Passed("record") = Passed("deliver") /\ Passed("purge") = Passed("deliver")
      /\ Passed("complete") = Passed("deliver")
  BY DEF Passed
<1> HIDE DEF s
<1>g. s = stopAfter[run[w]]
  BY DEF s
<1>1. CASE Verify(w)
  <2>1. PICK next : next = Unless(w, "collect", "persist")
                    /\ Stores(w, "verify", "source_health", next)
    BY <1>1 DEF Verify
  <2>2. pc[w] = "verify"
    BY <2>1 DEF Stores, At
  <2>3. next \in TryBlock /\ s \notin Passed(next)
    <3>1. next \in TryBlock
      BY <1>a, <1>d, <2>1
    <3>2. s \notin Passed("verify")
      BY <1>a, <1>c, <2>2
    <3>3. Passed("persist") \subseteq Passed("verify") \cup {"collect"}
      BY <1>e, <1>f
    <3> QED BY <1>g, <2>1, <3>1, <3>2, <3>3, UnlessPasses
  <2>4. "source_health" \in FilledBy(s)
    BY <1>a, <1>c, <2>2, MayStore
  <2> QED BY <1>a, <1>b, <1>g, <2>1, <2>3, <2>4, StoresObeys
<1>2. CASE Persist(w)
  <2>1. PICK next : next = Unless(w, "persist", "metrics")
                    /\ Stores(w, "persist", "events", next)
    BY <1>2 DEF Persist
  <2>2. pc[w] = "persist"
    BY <2>1 DEF Stores, At
  <2>3. next \in TryBlock /\ s \notin Passed(next)
    <3>1. next \in TryBlock
      BY <1>a, <1>d, <2>1
    <3>2. s \notin Passed("persist")
      BY <1>a, <1>c, <2>2
    <3>3. Passed("metrics") \subseteq Passed("persist") \cup {"persist"}
      BY <1>f
    <3> QED BY <1>g, <2>1, <3>1, <3>2, <3>3, UnlessPasses
  <2>4. "events" \in FilledBy(s)
    BY <1>a, <1>c, <2>2, MayStore
  <2> QED BY <1>a, <1>b, <1>g, <2>1, <2>3, <2>4, StoresObeys
<1>3. ASSUME NEW at \in {"metrics", "signals", "ioc", "canaries"}, NEW next \in TryBlock,
             Stores(w, at, at, next), s \notin Passed(next)
      PROVE  Obeys(w)
  <2>1. pc[w] = at /\ at \in TryBlock /\ at \in Tables
    BY <1>3, <1>a, <1>b DEF Stores, At
  <2>2. s \notin Passed("metrics") /\ s \notin Ignored
    BY <1>c, <1>f, <2>1
  <2>3. at \in FilledBy(s)
    BY <2>2, MayStore
  <2> QED BY <1>3, <1>g, <2>1, <2>3, StoresObeys
<1>4. CASE SaveMetrics(w)
  <2>1. pc[w] = "metrics" /\ Stores(w, "metrics", "metrics", "signals")
    BY <1>4 DEF SaveMetrics, Stores, At
  <2> QED BY <1>3, <1>a, <1>c, <1>f, <2>1
<1>5. CASE SaveSignals(w)
  <2>1. pc[w] = "signals" /\ Stores(w, "signals", "signals", "ioc")
    BY <1>5 DEF SaveSignals, Stores, At
  <2> QED BY <1>3, <1>a, <1>c, <1>f, <2>1
<1>6. CASE PersistIoc(w)
  <2>0. pc[w] = "ioc"
    BY <1>6 DEF PersistIoc, Stores, At
  <2>1. s \notin Passed("canaries") /\ "canaries" \in TryBlock /\ "ioc" \in TryBlock
    BY <1>a, <1>c, <1>f, <2>0
  <2>2. CASE Stores(w, "ioc", "ioc", "canaries")
    BY <1>3, <2>1, <2>2
  <2>3. CASE /\ At(w, "ioc") /\ Goto(w, "canaries")
             /\ UNCHANGED <<up, lock, run, todo, store, outside, history>>
    <3>1. UNCHANGED <<run, owned, sent, by, stopAfter, investigated>>
      BY <2>3 DEF store, outside, history, args
    <3> QED BY <1>g, <2>1, <2>3, <3>1, MoveObeys
  <2> QED BY <1>6, <2>2, <2>3 DEF PersistIoc
<1>7. CASE VerifyCanaries(w)
  <2>1. PICK next : next = Unless(w, "analyze", "investigate")
                    /\ Stores(w, "canaries", "canaries", next)
    BY <1>7 DEF VerifyCanaries
  <2>2. pc[w] = "canaries"
    BY <2>1 DEF Stores, At
  <2>3. next \in TryBlock /\ s \notin Passed(next)
    <3>1. next \in TryBlock
      BY <1>a, <1>d, <2>1
    <3>2. s \notin Passed("canaries")
      BY <1>a, <1>c, <2>2
    <3>3. Passed("investigate") \subseteq Passed("canaries") \cup {"analyze"}
      BY <1>f
    <3> QED BY <1>g, <2>1, <3>1, <3>2, <3>3, UnlessPasses
  <2> QED BY <1>3, <2>1, <2>3
<1>8. CASE Investigate(w)
  <2>1. /\ At(w, "investigate") /\ Goto(w, "adjudicate")
        /\ investigated' = investigated \cup {run[w]}
        /\ UNCHANGED <<run, owned, sent, by, stopAfter>>
    BY <1>8 DEF Investigate, store, outside, args
  <2>2. s \notin Passed("investigate") /\ s \notin Ignored
    BY <1>a, <1>c, <2>1 DEF At
  <2>3. s \notin BeforeModel /\ s \notin Passed("adjudicate")
    BY <1>f, <2>2, PastTheModel
  <2> QED BY <1>a, <1>g, <2>1, <2>3, MoveObeys
<1>9. CASE Adjudicate(w)
  <2>1. PICK next : next = Unless(w, "adjudicate", "render")
                    /\ Stores(w, "adjudicate", "findings", next)
    BY <1>9 DEF Adjudicate
  <2>2. pc[w] = "adjudicate"
    BY <2>1 DEF Stores, At
  <2>3. next \in TryBlock /\ s \notin Passed(next)
    BY <1>a, <1>c, <1>d, <1>f, <1>g, <2>1, <2>2, UnlessPasses
  <2>4. "findings" \in FilledBy(s)
    BY <1>a, <1>c, <2>2, MayStore
  <2> QED BY <1>a, <1>b, <1>g, <2>1, <2>3, <2>4, StoresObeys
<1>10. CASE SaveDeliveries(w)
  <2>1. pc[w] = "record" /\ Stores(w, "record", "deliveries", "purge")
    BY <1>10 DEF SaveDeliveries, Stores, At
  <2>2. s \notin Passed("record") /\ s \notin Passed("purge") /\ s \notin Ignored
    BY <1>a, <1>c, <1>f, <2>1
  <2>3. "deliveries" \in FilledBy(s)
    BY <2>2, MayStore
  <2> QED BY <1>a, <1>b, <1>g, <2>1, <2>2, <2>3, StoresObeys
<1>11. CASE Collect(w)
  <2>1. PICK next \in {"abort", "verify"} : Goto(w, next)
    BY <1>11 DEF Collect
  <2>2. At(w, "collect") /\ UNCHANGED <<run, owned, sent, by, stopAfter, investigated>>
    BY <1>11 DEF Collect, store, outside, history, args
  <2>3. next \in TryBlock /\ s \notin Passed(next)
    BY <1>a, <1>e
  <2> QED BY <1>a, <1>g, <2>1, <2>2, <2>3, MoveObeys
<1>12. CASE Render(w)
  <2>1. PICK next : (next = "abort" \/ next = Unless(w, "render", "deliver")) /\ Goto(w, next)
    BY <1>12 DEF Render
  <2>2. At(w, "render") /\ UNCHANGED <<run, owned, sent, by, stopAfter, investigated>>
    BY <1>12 DEF Render, store, outside, history, args
  <2>3. pc[w] = "render"
    BY <2>2 DEF At
  <2>4. next \in TryBlock /\ s \notin Passed(next)
    BY <1>a, <1>c, <1>d, <1>e, <1>f, <1>g, <2>1, <2>3, UnlessPasses
  <2> QED BY <1>a, <1>g, <2>1, <2>2, <2>4, MoveObeys
<1>13. CASE Delivered(w)
  <2>1. At(w, "deliver") /\ Goto(w, "record")
        /\ UNCHANGED <<run, owned, sent, by, stopAfter, investigated>>
    BY <1>13 DEF Delivered, store, outside, history, args
  <2>2. s \notin Passed("record")
    BY <1>a, <1>c, <1>f, <2>1 DEF At
  <2> QED BY <1>a, <1>g, <2>1, <2>2, MoveObeys
<1>14. CASE Purge(w)
  <2>1. /\ pc[w] = "purge" /\ pc' = [pc EXCEPT ![w] = "complete"]
        /\ UNCHANGED <<run, sent, by, stopAfter, investigated>>
        /\ \A r \in Runs : owned'[r] \subseteq owned[r]
    BY <1>14 DEF Purge, At, Goto, outside, history, args
  <2>2. s \notin Passed("complete")
    BY <1>a, <1>c, <1>f, <2>1
  <2> QED BY <1>a, <1>g, <2>1, <2>2 DEF Obeys
<1> QED BY <1>1, <1>2, <1>4, <1>5, <1>6, <1>7, <1>8, <1>9, <1>10, <1>11, <1>12, <1>13,
           <1>14 DEF Pipeline

LEMMA ObedientAtStart == Init => Obedient
<1> SUFFICES ASSUME Init PROVE Obedient
  OBVIOUS
<1>1. \A w \in Workers : pc[w] = "idle"
  BY DEF Init
<1>2. "idle" \notin TryBlock
  BY DEF TryBlock
<1>3. \A r \in Runs : owned[r] = {} /\ sent[r] = {} /\ r \notin investigated
  BY DEF Init
<1>4. \A r \in Runs : stopAfter[r] \notin Ignored
  BY Zenon DEF Init, Ignored
<1> QED BY <1>1, <1>2, <1>3, <1>4 DEF Obedient, Passes, Within

\* A step that gives no run anything and sets no stop point.
LEMMA ObedientQuiet ==
    ASSUME Obedient,
           \A w \in Workers : pc'[w] \notin TryBlock \/ (pc'[w] = pc[w] /\ run'[w] = run[w]),
           \A r \in Runs : owned'[r] \subseteq owned[r] /\ (by'[r] = Nobody => by[r] = Nobody),
           UNCHANGED <<sent, investigated, stopAfter>>
    PROVE  Obedient'
<1>1. \A w \in Workers : Passes(w)'
  BY DEF Obedient, Passes
<1>2. \A r \in Runs : Within(r)'
  BY DEF Obedient, Within
<1> QED BY <1>1, <1>2 DEF Obedient

LEMMA ObedientWorker ==
    ASSUME Ownership, Obedient, NEW w \in Workers,
           Pipeline(w) \/ Failure(w) \/ DeleteRun(w)
    PROVE  Obedient'
<1> USE ControlPoints
<1>0. TypeOK /\ OwnRun /\ Fresh
  BY DEF Ownership
<1>t. /\ pc \in [Workers -> Control] /\ owned \in [Runs -> SUBSET Tables]
      /\ sent \in [Runs -> SUBSET Outputs] /\ stopAfter \in [Runs -> STOP_STAGES \cup {""}]
  BY <1>0, Zenon DEF TypeOK
<1>a. /\ by' = by
      /\ \A v \in Workers : v # w => pc'[v] = pc[v] /\ run'[v] = run[v]
  BY <1>0, KeepsRun
<1>b. pc[w] \in TryBlock => run[w] \in Runs /\ by[run[w]] = w /\ w # Nobody
  BY <1>0, DistinctAssumption DEF OwnRun, Owns
<1>c. pc[w] \in TryBlock => stopAfter[run[w]] \notin Ignored
  BY <1>b DEF Obedient, Within
<1>1. ASSUME \/ pc'[w] \notin TryBlock
             \/ pc'[w] = pc[w] /\ run'[w] = run[w],
             \A r \in Runs : owned'[r] \subseteq owned[r],
             UNCHANGED <<sent, investigated, stopAfter>>
      PROVE  Obedient'
  BY <1>1, <1>a, ObedientQuiet
<1>2. CASE StartRun(w)
  <2>1. /\ pc' = [pc EXCEPT ![w] = "collect"]
        /\ UNCHANGED <<run, owned, sent, investigated, stopAfter>>
    BY <1>2 DEF StartRun, Goto, outside, history, args
  <2>2. Passed("collect") = {}
    BY DEF Passed
  <2>3. \A v \in Workers : Passes(v)'
    <3>1. pc'[w] = "collect"
      BY <1>t, <2>1
    <3> QED BY <1>a, <2>1, <2>2, <3>1 DEF Obedient, Passes
  <2>4. \A r \in Runs : Within(r)'
    BY <1>a, <2>1 DEF Obedient, Within
  <2> QED BY <2>3, <2>4 DEF Obedient
<1>3. CASE Obeys(w)
  <2>1. PICK next \in TryBlock :
            /\ pc[w] \in TryBlock
            /\ pc' = [pc EXCEPT ![w] = next]
            /\ stopAfter[run[w]] \notin Passed(next)
            /\ \A r \in Runs : owned'[r] \subseteq owned[r] \cup
                                   (IF r = run[w] THEN FilledBy(stopAfter[r]) ELSE {})
            /\ \/ investigated' = investigated
               \/ /\ investigated' = investigated \cup {run[w]}
                  /\ stopAfter[run[w]] \notin BeforeModel
            /\ UNCHANGED <<run, sent, by, stopAfter>>
    BY <1>3 DEF Obeys
  <2>2. pc'[w] = next
    BY <1>t, <2>1
  <2>3. \A v \in Workers : Passes(v)'
    BY <1>a, <2>1, <2>2 DEF Obedient, Passes
  <2>4. ASSUME NEW r \in Runs PROVE Within(r)'
    <3>1. Within(r)
      BY DEF Obedient
    <3>2. owned'[r] \subseteq FilledBy(stopAfter[r])
      BY <2>1, <3>1 DEF Within
    <3>3. r \in investigated' => r \in investigated \/ (r = run[w] /\ stopAfter[r] \notin BeforeModel)
      BY <2>1
    <3>4. r \in investigated' => stopAfter[r] \notin BeforeModel
      BY <3>1, <3>3 DEF Within
    <3>5. by[r] = Nobody => r \notin investigated'
      BY <1>b, <2>1, <3>1, <3>3 DEF Within
    <3> QED BY <2>1, <3>1, <3>2, <3>4, <3>5 DEF Within
  <2> QED BY <2>3, <2>4 DEF Obedient
<1>4. CASE Emit(w)
  <2>1. /\ pc[w] = "deliver" /\ "deliver" \in TryBlock
        /\ UNCHANGED <<pc, run, owned, investigated, stopAfter, by>>
    BY <1>4 DEF Emit, At, TryBlock, store, history, args
  <2>2. stopAfter[run[w]] \in DeliverToo
    <3>1. stopAfter[run[w]] \in STOP_STAGES \cup {""}
      BY <1>b, <1>t, <2>1, Zenon
    <3>2. stopAfter[run[w]] \notin Passed("deliver") /\ stopAfter[run[w]] \notin Ignored
      BY <1>c, <2>1 DEF Obedient, Passes
    <3> QED BY <3>1, <3>2, PastAllStops
  <2>3. ASSUME NEW r \in Runs, sent'[r] # {} PROVE stopAfter[r] \in DeliverToo
    <3>1. sent'[r] = sent[r] \/ run[w] = r
      BY <1>4, OutcomesOfWorker
    <3> QED BY <2>2, <2>3, <3>1 DEF Obedient, Within
  <2>4. \A v \in Workers : Passes(v)'
    BY <2>1 DEF Obedient, Passes
  <2>5. \A r \in Runs : Within(r)'
    BY <2>1, <2>3 DEF Obedient, Within
  <2> QED BY <2>4, <2>5 DEF Obedient
<1>5. CASE Finish(w) \/ RecordFailure(w) \/ Release(w) \/ Unlink(w)
  <2>1. pc'[w] \in {"return", "idle"} /\ UNCHANGED <<owned, sent, investigated, stopAfter>>
    BY <1>5, <1>t DEF Finish, RecordFailure, Release, Unlink, Goto, store, outside, history, args
  <2>2. pc'[w] \notin TryBlock
    BY <2>1 DEF TryBlock
  <2> QED BY <1>1, <2>1, <2>2
<1>6. CASE CliReturn(w) \/ DeleteRun(w)
  <2>1. pc'[w] \in {"unlink", "idle"} /\ UNCHANGED <<sent, investigated, stopAfter>>
    BY <1>6, <1>t DEF CliReturn, DeleteRun, Goto, outside, history, args
  <2>2. pc'[w] \notin TryBlock
    BY <2>1 DEF TryBlock
  <2>3. \A r \in Runs : owned'[r] \subseteq owned[r]
    BY <1>6, <1>t DEF CliReturn, DeleteRun, EraseRows
  <2> QED BY <1>1, <2>1, <2>2, <2>3
<1>7. CASE Failure(w)
  <2>1. pc'[w] \in {"except", "return", "idle"}
        /\ UNCHANGED <<owned, sent, investigated, stopAfter>>
    BY <1>7, <1>t DEF Failure, Raise, Unwind, KillCli, Goto, store, outside, args
  <2>2. pc'[w] \notin TryBlock
    BY <2>1 DEF TryBlock
  <2> QED BY <1>1, <2>1, <2>2
<1>8. Passes(w)
  BY DEF Obedient
<1> QED BY <1>c, <1>2, <1>3, <1>4, <1>5, <1>6, <1>7, <1>8, StagesObey

LEMMA ObedientStep ==
    ASSUME StopChoices \cap Ignored = {}, Ownership, Obedient, [Next]_vars
    PROVE  Obedient'
<1>0. TypeOK /\ OwnRun /\ Fresh
  BY DEF Ownership
<1>t. /\ pc \in [Workers -> Control] /\ run \in [Workers -> Runs \cup {NoRun}]
      /\ by \in [Runs -> Workers \cup {Nobody}]
      /\ stopAfter \in [Runs -> STOP_STAGES \cup {""}]
  BY <1>0, Zenon DEF TypeOK
<1>a. "begin" \notin TryBlock /\ "idle" \notin TryBlock /\ TryBlock \subseteq Working
  BY DEF TryBlock, Working
<1>b. Nobody \notin Workers
  BY DistinctAssumption
<1>1. ASSUME NEW w \in Workers, Pipeline(w) \/ Failure(w) \/ DeleteRun(w)
      PROVE  Obedient'
  BY <1>1, ObedientWorker
<1>2. ASSUME NEW w \in Workers, NEW r \in Runs, Enter(w, r),
             UNCHANGED <<owned, sent, investigated>>,
             \/ stopAfter' = stopAfter
             \/ \E s \in StopChoices : stopAfter' = [stopAfter EXCEPT ![r] = s]
      PROVE  Obedient'
  <2>1. /\ by[r] = Nobody /\ by' = [by EXCEPT ![r] = w]
        /\ run' = [run EXCEPT ![w] = r] /\ pc' = [pc EXCEPT ![w] = "begin"]
    BY <1>2 DEF Enter, Goto
  <2>2. \A q \in Runs : q # r => stopAfter'[q] = stopAfter[q]
    BY <1>t, <1>2, Zenon
  <2>3. stopAfter'[r] \notin Ignored
    <3>1. CASE stopAfter' = stopAfter
      BY <3>1 DEF Obedient, Within
    <3>2. ASSUME NEW s \in StopChoices, stopAfter' = [stopAfter EXCEPT ![r] = s]
          PROVE  stopAfter'[r] \notin Ignored
      <4>1. stopAfter'[r] = s
        BY <1>t, <3>2, Zenon
      <4> QED BY <4>1
    <3> QED BY <1>2, <3>1, <3>2
  <2>4. \A v \in Workers : Passes(v)'
    <3> SUFFICES ASSUME NEW v \in Workers, pc'[v] \in TryBlock
                 PROVE  stopAfter'[run'[v]] \notin Passed(pc'[v])
      BY DEF Passes
    <3>1. v # w
      BY <1>t, <1>a, <2>1
    <3>2. pc'[v] = pc[v] /\ run'[v] = run[v]
      BY <1>t, <2>1, <3>1
    <3>3. run[v] \in Runs /\ by[run[v]] = v
      BY <1>0, <1>a, <3>2 DEF OwnRun, Owns
    <3>4. run[v] # r
      BY <1>b, <2>1, <3>3
    <3> QED BY <2>2, <3>2, <3>3, <3>4 DEF Obedient, Passes
  <2>5. ASSUME NEW q \in Runs PROVE Within(q)'
    <3>1. CASE q = r
      <4>1. owned[r] = {} /\ sent[r] = {} /\ r \notin investigated
        BY <1>0, <2>1 DEF Fresh, Untouched, Obedient, Within
      <4> QED BY <1>2, <2>3, <3>1, <4>1 DEF Within
    <3>2. CASE q # r
      <4>1. by'[q] = by[q]
        BY <1>t, <2>1, <3>2
      <4> QED BY <1>2, <2>2, <3>2, <4>1 DEF Obedient, Within
    <3> QED BY <3>1, <3>2
  <2> QED BY <2>4, <2>5 DEF Obedient
<1>3. ASSUME NEW w \in Workers, Acquire(w) PROVE Obedient'
  BY <1>2, <1>3 DEF Acquire, store, outside
<1>4. ASSUME NEW w \in Workers, CliRun(w) PROVE Obedient'
  <2>1. PICK r \in Runs :
            /\ Enter(w, r)
            /\ \E s \in StopChoices : stopAfter' = [stopAfter EXCEPT ![r] = s]
    BY <1>4 DEF CliRun
  <2>2. UNCHANGED <<owned, sent, investigated>>
    BY <1>4 DEF CliRun, store, outside
  <2> QED BY <1>2, <2>1, <2>2
<1>5. ASSUME NEW r \in Runs, Age(r) PROVE Obedient'
  <2>1. UNCHANGED <<pc, run, owned, sent, investigated, stopAfter, by>>
    BY <1>5 DEF Age, process, outside, history, args
  <2> QED BY <2>1, ObedientQuiet
<1>6. CASE KillDaemon
  <2>1. \A v \in Workers : pc'[v] = "idle" \/ (pc'[v] = pc[v] /\ run'[v] = run[v])
    BY <1>6 DEF KillDaemon
  <2>2. UNCHANGED <<owned, sent, investigated, stopAfter, by>>
    BY <1>6 DEF KillDaemon, store, outside, args
  <2> QED BY <1>a, <2>1, <2>2, ObedientQuiet
<1>7. CASE Restart \/ UNCHANGED vars
  <2>1. UNCHANGED <<pc, run, owned, sent, investigated, stopAfter, by>>
    BY <1>7 DEF Restart, vars, process, store, outside, history, args
  <2> QED BY <2>1, ObedientQuiet
<1> QED BY <1>1, <1>3, <1>4, <1>5, <1>6, <1>7 DEF Next, OutOfRunIds

\* The stop points that Runner.run compares with are honoured, whatever runs
\* beside the run and wherever it fails; of "verify" and "investigate", which
\* the command line accepts and nothing compares with, this cannot be said.
THEOREM StopPointsAreHonoured ==
    ASSUME StopChoices \cap Ignored = {}
    PROVE  Spec => []StopAfterHonoured
<1>1. Init => Ownership /\ Obedient
  BY OwnershipAtStart, ObedientAtStart
<1>2. (Ownership /\ Obedient) /\ [Next]_vars => (Ownership /\ Obedient)'
  BY OwnershipStep, ObedientStep
<1>3. Ownership /\ Obedient => StopAfterHonoured
  BY WithinHonours DEF Obedient
<1> QED BY <1>1, <1>2, <1>3, PTL DEF Spec

-----------------------------------------------------------------------------
(* Deletion *)

\* The files of a deleted run wait for the process that deleted it, and an
\* ephemeral run for the process that made it, unless that was killed.
Cleaned(r) ==
    /\ row[r] = "deleted" /\ r \in files =>
           r \in lost \/ \E w \in Workers : pc[w] = "unlink" /\ run[w] = r
    /\ r \in ephemeral =>
           /\ by[r] \in Clis
           /\ r \in lost \/ row[r] = "deleted" \/ (Owns(by[r]) /\ run[by[r]] = r)

Clean == \A r \in Runs : Cleaned(r)

\* A step of a worker that keeps its run, or loses it to a kill, and deletes
\* nothing.
Works(w) ==
    /\ by' = by
    /\ ephemeral' = ephemeral
    /\ lost \subseteq lost'
    /\ \A v \in Workers : v # w => pc'[v] = pc[v] /\ run'[v] = run[v]
    /\ \A r \in Runs : row'[r] = row[r] \/ (row[r] # "deleted" /\ row'[r] # "deleted")
    /\ \A r \in Runs : r \in files' => r \in files \/ row'[r] # "deleted"
    /\ \/ pc[w] # "unlink" /\ run'[w] = run[w] /\ (Owns(w) => Owns(w)')
       \/ \A r \in Runs : run[w] = r => r \in lost'

LEMMA CleanWork ==
    ASSUME Clean, NEW w \in Workers, Works(w)
    PROVE  Clean'
<1> USE DEF Works
<1> SUFFICES ASSUME NEW r \in Runs PROVE Cleaned(r)'
  BY DEF Clean
<1>1. Cleaned(r)
  BY DEF Clean
<1>2. ASSUME row'[r] = "deleted", r \in files'
      PROVE  r \in lost' \/ \E v \in Workers : pc'[v] = "unlink" /\ run'[v] = r
  <2>1. row[r] = "deleted" /\ r \in files
    BY <1>2
  <2>2. CASE r \in lost
    BY <2>2
  <2>3. ASSUME NEW v \in Workers, pc[v] = "unlink", run[v] = r
        PROVE  r \in lost' \/ \E u \in Workers : pc'[u] = "unlink" /\ run'[u] = r
    BY <2>3
  <2> QED BY <1>1, <2>1, <2>2, <2>3 DEF Cleaned
<1>3. ASSUME r \in ephemeral
      PROVE  /\ by[r] \in Clis
             /\ r \in lost' \/ row'[r] = "deleted" \/ (Owns(by[r]) /\ run[by[r]] = r)'
  <2>1. by[r] \in Clis /\ by[r] \in Workers
    BY <1>1, <1>3 DEF Cleaned, Workers
  <2>2. CASE r \in lost \/ row[r] = "deleted"
    BY <2>1, <2>2
  <2>3. CASE Owns(by[r]) /\ run[by[r]] = r
    <3>1. CASE by[r] = w
      BY <2>1, <2>3, <3>1
    <3>2. CASE by[r] # w
      BY <2>1, <2>3, <3>2 DEF Owns
    <3> QED BY <3>1, <3>2
  <2> QED BY <1>1, <1>3, <2>1, <2>2, <2>3 DEF Cleaned
<1> QED BY <1>2, <1>3 DEF Cleaned

\* A worker that erases a run goes on to unlink its files.
LEMMA CleanErase ==
    ASSUME TypeOK, Clean, NEW w \in Workers, NEW d \in Runs, EraseRows(d),
           pc[w] # "unlink", ~Owns(w) \/ run[w] = d,
           pc'[w] = "unlink", run'[w] = d,
           \A v \in Workers : v # w => pc'[v] = pc[v] /\ run'[v] = run[v],
           UNCHANGED <<by, ephemeral, lost, files>>
    PROVE  Clean'
<1>0. row \in [Runs -> RowState]
  BY Zenon DEF TypeOK
<1> SUFFICES ASSUME NEW r \in Runs PROVE Cleaned(r)'
  BY DEF Clean
<1>1. Cleaned(r)
  BY DEF Clean
<1>2. row'[d] = "deleted" /\ (r # d => row'[r] = row[r])
  BY <1>0 DEF EraseRows
<1>3. CASE r = d
  <2>1. r \in ephemeral => by[r] \in Clis
    BY <1>1 DEF Cleaned
  <2> QED BY <1>2, <1>3, <2>1 DEF Cleaned
<1>4. CASE r # d
  <2>1. row[r] = "deleted" /\ r \in files =>
            r \in lost \/ \E v \in Workers : pc'[v] = "unlink" /\ run'[v] = r
    BY <1>1 DEF Cleaned
  <2>2. ASSUME r \in ephemeral
        PROVE  /\ by[r] \in Clis
               /\ r \in lost \/ row[r] = "deleted" \/ (Owns(by[r]) /\ run[by[r]] = r)'
    <3>1. by[r] \in Clis /\ by[r] \in Workers
      BY <1>1, <2>2 DEF Cleaned, Workers
    <3>2. CASE Owns(by[r]) /\ run[by[r]] = r
      <4>1. by[r] # w
        BY <1>4, <3>2
      <4> QED BY <3>1, <3>2, <4>1 DEF Owns
    <3> QED BY <1>1, <2>2, <3>1, <3>2 DEF Cleaned
  <2> QED BY <1>2, <1>4, <2>1, <2>2 DEF Cleaned
<1> QED BY <1>3, <1>4

LEMMA CleanWorker ==
    ASSUME AllowForce = FALSE, Ownership, Rows, Clean, NEW w \in Workers,
           Pipeline(w) \/ Failure(w) \/ DeleteRun(w)
    PROVE  Clean'
<1> USE ControlPoints
<1>0. TypeOK /\ OwnRun /\ Fresh /\ Fits(w)
  BY DEF Ownership, Rows
<1>t. /\ pc \in [Workers -> Control] /\ run \in [Workers -> Runs \cup {NoRun}]
      /\ row \in [Runs -> RowState]
  BY <1>0, Zenon DEF TypeOK
<1>a. /\ by' = by
      /\ \A v \in Workers : v # w => pc'[v] = pc[v] /\ run'[v] = run[v]
  BY <1>0, KeepsRun
<1>b. pc[w] \in Working => run[w] \in Runs /\ row[run[w]] = "open" /\ Owns(w)
  BY <1>0 DEF OwnRun, Owns, Fits
<1>1. CASE StartRun(w)
  <2>1. run[w] \in Runs /\ row[run[w]] = "absent" /\ pc[w] = "begin"
    BY <1>0, <1>1 DEF StartRun, At, Fresh, Untouched, OwnRun, Owns
  <2>2. /\ row' = [row EXCEPT ![run[w]] = "open"] /\ pc'[w] = "collect"
        /\ UNCHANGED <<run, files, ephemeral, lost>>
    BY <1>t, <1>1 DEF StartRun, Goto, outside, history, args
  <2>3. \A r \in Runs : row'[r] = row[r] \/ (row[r] # "deleted" /\ row'[r] # "deleted")
    BY <1>t, <2>1, <2>2
  <2>4. Owns(w)'
    BY <2>2 DEF Owns, Working, TryBlock
  <2> QED BY <1>a, <2>1, <2>2, <2>3, <2>4, CleanWork DEF Works
<1>2. CASE InsertStep(w) \/ Move(w) \/ Purge(w) \/ Raise(w)
  <2>1. pc[w] \in Working /\ pc'[w] \in Working
    <3>1. CASE InsertStep(w)
      BY <1>t, <3>1 DEF InsertStep, Stores, At, Goto
    <3>2. CASE Move(w)
      BY <1>t, <3>2 DEF Move, Goto
    <3>3. CASE Purge(w)
      BY <1>t, <3>3 DEF Purge, At, Goto, Working, TryBlock
    <3>4. CASE Raise(w)
      BY <1>t, <3>4 DEF Raise, Goto
    <3> QED BY <1>2, <3>1, <3>2, <3>3, <3>4
  <2>2. UNCHANGED <<row, run, files, ephemeral, lost>>
    <3>1. CASE InsertStep(w)
      BY <3>1 DEF InsertStep, Stores, outside, history, args
    <3>2. CASE Move(w) \/ Purge(w) \/ Raise(w)
      BY <3>2 DEF Move, Purge, Raise, store, outside, history, args
    <3> QED BY <1>2, <3>1, <3>2
  <2>3. Owns(w)' /\ pc[w] # "unlink"
    BY <2>1 DEF Owns
  <2> QED BY <1>a, <2>2, <2>3, CleanWork DEF Works
<1>3. CASE Emit(w)
  <2>1. pc[w] \in Working /\ UNCHANGED <<row, pc, run, ephemeral, lost>>
    BY <1>3 DEF Emit, At, Working, TryBlock, store, history, args
  <2>2. PICK o \in todo[w] : Served(w, o)
    BY <1>3, EmitServes
  <2>3. \A r \in Runs : r \in files' => r \in files \/ row'[r] # "deleted"
    BY <1>b, <2>1, <2>2 DEF Served
  <2>4. pc[w] # "unlink" /\ (Owns(w) => Owns(w)')
    BY <2>1 DEF Owns
  <2> QED BY <1>a, <2>1, <2>3, <2>4, CleanWork DEF Works
<1>4. CASE Finish(w) \/ RecordFailure(w)
  <2>1. PICK outcome \in Closed : /\ pc[w] \in Working
                                  /\ Close(run[w], outcome)
                                  /\ Goto(w, "return")
                                  /\ UNCHANGED <<run, files, ephemeral, lost>>
    <3>1. CASE Finish(w)
      BY <3>1 DEF Finish, OutcomeAt, Closed, Working, TryBlock, outside, history, args
    <3>2. CASE RecordFailure(w)
      BY <3>2 DEF RecordFailure, At, Closed, Working, outside, history, args
    <3> QED BY <1>4, <3>1, <3>2
  <2>2. pc'[w] = "return" /\ run[w] \in Runs /\ row[run[w]] = "open"
    BY <1>b, <1>t, <2>1 DEF Goto
  <2>3. \A r \in Runs : row'[r] = row[r] \/ (row[r] # "deleted" /\ row'[r] # "deleted")
    BY <1>t, <2>1, <2>2 DEF Close, Closed
  <2>4. pc[w] # "unlink" /\ Owns(w)'
    BY <2>1, <2>2, DistinctAssumption DEF Owns
  <2> QED BY <1>a, <2>1, <2>3, <2>4, CleanWork DEF Works
<1>5. CASE Unwind(w) \/ KillCli(w)
  <2>1. UNCHANGED <<row, files, ephemeral>> /\ lost' = lost \cup Gone(w)
    BY <1>5 DEF Unwind, KillCli, store, outside, args
  <2>2. \A r \in Runs : run[w] = r => r \in lost'
    BY <2>1, DistinctAssumption DEF Gone
  <2> QED BY <1>a, <2>1, <2>2, CleanWork DEF Works
<1>6. CASE DeleteRun(w)
  <2>1. PICK d \in Runs : EraseRows(d) /\ run' = [run EXCEPT ![w] = d]
    BY <1>6 DEF DeleteRun
  <2>2. /\ pc[w] = "idle" /\ pc'[w] = "unlink" /\ run'[w] = d
        /\ UNCHANGED <<ephemeral, lost, files>>
    BY <1>6, <1>t, <2>1 DEF DeleteRun, At, Goto, outside, history, args
  <2>3. ~Owns(w) /\ pc[w] # "unlink"
    BY <2>2 DEF Owns
  <2> QED BY <1>0, <1>a, <2>1, <2>2, <2>3, CleanErase
<1>7. CASE CliReturn(w)
  <2>0. pc[w] = "return" /\ UNCHANGED <<ephemeral, lost, files>>
    BY <1>7 DEF CliReturn, At, outside, history, args
  <2>1. CASE run[w] \in ephemeral /\ row[run[w]] # "deleted"
    <3>1. EraseRows(run[w]) /\ pc'[w] = "unlink" /\ run' = run
      BY <1>7, <1>t, <2>1 DEF CliReturn, Goto
    <3>2. run[w] \in Runs
      BY <1>0, <2>0, <2>1, DistinctAssumption, Zenon DEF TypeOK
    <3> QED BY <1>0, <1>a, <2>0, <3>1, <3>2, CleanErase
  <2>2. CASE ~(run[w] \in ephemeral /\ row[run[w]] # "deleted")
    <3>1. row' = row /\ pc'[w] = "idle" /\ run'[w] = NoRun
      BY <1>7, <1>t, <2>2 DEF CliReturn, Goto
    <3>2. ASSUME NEW r \in Runs PROVE Cleaned(r)'
      <4>1. Cleaned(r)
        BY DEF Clean
      <4>2. row[r] = "deleted" /\ r \in files =>
                r \in lost \/ \E v \in Workers : pc'[v] = "unlink" /\ run'[v] = r
        BY <1>a, <2>0, <4>1 DEF Cleaned
      <4>3. r \in ephemeral =>
                /\ by[r] \in Clis
                /\ r \in lost \/ row[r] = "deleted" \/ (Owns(by[r]) /\ run[by[r]] = r)'
        <5> SUFFICES ASSUME r \in ephemeral, r \notin lost, row[r] # "deleted"
                     PROVE  (Owns(by[r]) /\ run[by[r]] = r)'
          BY <4>1 DEF Cleaned
        <5>1. Owns(by[r]) /\ run[by[r]] = r /\ by[r] \in Workers
          BY <4>1 DEF Cleaned, Workers
        <5>2. by[r] # w
          BY <2>2, <5>1
        <5> QED BY <1>a, <5>1, <5>2 DEF Owns
      <4> QED BY <1>a, <2>0, <3>1, <4>2, <4>3 DEF Cleaned
    <3> QED BY <3>2 DEF Clean
  <2> QED BY <2>1, <2>2
<1>8. CASE Release(w) \/ Unlink(w)
  <2>1. /\ UNCHANGED <<row, ephemeral, lost>>
        /\ \/ w \in Daemon /\ pc[w] # "unlink" /\ files' = files
           \/ pc[w] = "unlink" /\ files' = files \ {run[w]}
    BY <1>8 DEF Release, Unlink, At, store, outside, history, args
  <2>2. ASSUME NEW r \in Runs PROVE Cleaned(r)'
    <3>1. Cleaned(r)
      BY DEF Clean
    <3>2. row[r] = "deleted" /\ r \in files' =>
              r \in lost \/ \E v \in Workers : pc'[v] = "unlink" /\ run'[v] = r
      BY <1>a, <2>1, <3>1 DEF Cleaned
    <3>3. r \in ephemeral =>
              /\ by[r] \in Clis
              /\ r \in lost \/ row[r] = "deleted" \/ (Owns(by[r]) /\ run[by[r]] = r)'
      <4> SUFFICES ASSUME r \in ephemeral, r \notin lost, row[r] # "deleted"
                   PROVE  (Owns(by[r]) /\ run[by[r]] = r)'
        BY <3>1 DEF Cleaned
      <4>1. Owns(by[r]) /\ run[by[r]] = r /\ by[r] \in Workers /\ by[r] \in Clis
        BY <3>1 DEF Cleaned, Workers
      <4>2. by[r] # w
        BY <2>1, <4>1, DistinctAssumption DEF Owns
      <4> QED BY <1>a, <4>1, <4>2 DEF Owns
    <3> QED BY <1>a, <2>1, <3>2, <3>3 DEF Cleaned
  <2> QED BY <2>2 DEF Clean
<1> QED BY StepKinds, <1>1, <1>2, <1>3, <1>4, <1>5, <1>6, <1>7, <1>8 DEF Failure

LEMMA CleanStep ==
    ASSUME AllowForce = FALSE, Ownership, Rows, Clean, [Next]_vars
    PROVE  Clean'
<1>0. TypeOK /\ OwnRun /\ Fresh
  BY DEF Ownership
<1>t. /\ pc \in [Workers -> Control] /\ run \in [Workers -> Runs \cup {NoRun}]
      /\ by \in [Runs -> Workers \cup {Nobody}]
  BY <1>0, Zenon DEF TypeOK
<1>1. ASSUME NEW w \in Workers, Pipeline(w) \/ Failure(w) \/ DeleteRun(w) PROVE Clean'
  BY <1>1, CleanWorker
<1>2. ASSUME NEW w \in Workers, NEW r \in Runs, Enter(w, r), pc[w] = "idle",
             UNCHANGED <<row, files, lost>>,
             \/ ephemeral' = ephemeral
             \/ w \in Clis /\ ephemeral' = ephemeral \cup {r}
      PROVE  Clean'
  <2>1. /\ by[r] = Nobody /\ by'[r] = w /\ run'[w] = r /\ pc'[w] = "begin"
        /\ \A q \in Runs : q # r => by'[q] = by[q]
        /\ \A v \in Workers : v # w => pc'[v] = pc[v] /\ run'[v] = run[v]
    BY <1>t, <1>2 DEF Enter, Goto
  <2>2. Nobody \notin Clis /\ Clis \subseteq Workers
    BY DistinctAssumption DEF Workers
  <2>3. ASSUME NEW q \in Runs PROVE Cleaned(q)'
    <3>1. Cleaned(q)
      BY DEF Clean
    <3>2. row[q] = "deleted" /\ q \in files =>
              q \in lost \/ \E v \in Workers : pc'[v] = "unlink" /\ run'[v] = q
      BY <1>2, <2>1, <3>1 DEF Cleaned
    <3>3. CASE q = r
      <4>1. q \notin ephemeral
        BY <2>1, <2>2, <3>1, <3>3 DEF Cleaned
      <4>2. Owns(w)'
        BY <2>1 DEF Owns
      <4> QED BY <1>2, <2>1, <3>2, <3>3, <4>1, <4>2 DEF Cleaned
    <3>4. CASE q # r
      <4> SUFFICES ASSUME q \in ephemeral, q \notin lost, row[q] # "deleted"
                   PROVE  (Owns(by[q]) /\ run[by[q]] = q)'
        BY <1>2, <2>1, <3>1, <3>2, <3>4 DEF Cleaned
      <4>1. Owns(by[q]) /\ run[by[q]] = q /\ by[q] \in Workers
        BY <2>2, <3>1 DEF Cleaned
      <4>2. by[q] # w
        BY <1>2, <4>1, ControlPoints DEF Owns
      <4> QED BY <2>1, <3>4, <4>1, <4>2 DEF Owns
    <3> QED BY <3>3, <3>4
  <2> QED BY <2>3 DEF Clean
<1>3. ASSUME NEW w \in Workers, Acquire(w) PROVE Clean'
  BY <1>2, <1>3 DEF Acquire, At, store, outside
<1>4. ASSUME NEW w \in Workers, CliRun(w) PROVE Clean'
  <2>1. PICK r \in Runs : Enter(w, r) /\ ephemeral' \in {ephemeral, ephemeral \cup {r}}
    BY <1>4 DEF CliRun
  <2>2. pc[w] = "idle" /\ w \in Clis /\ UNCHANGED <<row, files, lost>>
    BY <1>4 DEF CliRun, At, store, outside
  <2> QED BY <1>2, <2>1, <2>2
<1>5. CASE KillDaemon
  <2>1. /\ UNCHANGED <<row, files, by, ephemeral>>
        /\ lost' = lost \cup UNION {Gone(v) : v \in Daemon}
        /\ \A v \in Workers : v \notin Daemon => pc'[v] = pc[v] /\ run'[v] = run[v]
    BY <1>5 DEF KillDaemon, store, outside, args
  <2>2. \A r \in Runs : \A v \in Daemon : run[v] = r => r \in lost'
    BY <2>1, DistinctAssumption DEF Gone
  <2>3. ASSUME NEW r \in Runs PROVE Cleaned(r)'
    <3>1. Cleaned(r)
      BY DEF Clean
    <3>2. row[r] = "deleted" /\ r \in files =>
              r \in lost' \/ \E v \in Workers : pc'[v] = "unlink" /\ run'[v] = r
      BY <2>1, <2>2, <3>1 DEF Cleaned
    <3>3. r \in ephemeral =>
              /\ by[r] \in Clis
              /\ r \in lost \/ row[r] = "deleted" \/ (Owns(by[r]) /\ run[by[r]] = r)'
      <4>1. \A v \in Clis : v \in Workers /\ v \notin Daemon
        BY DistinctAssumption DEF Workers
      <4> QED BY <2>1, <3>1, <4>1 DEF Cleaned, Owns
    <3> QED BY <2>1, <3>2, <3>3 DEF Cleaned
  <2> QED BY <2>3 DEF Clean
<1>6. ASSUME UNCHANGED <<pc, run, row, files, by, ephemeral, lost>> PROVE Clean'
  BY <1>6 DEF Clean, Cleaned, Owns
<1>7. ASSUME NEW r \in Runs, Age(r) PROVE Clean'
  BY <1>6, <1>7 DEF Age, process, outside, history, args
<1>8. CASE Restart \/ UNCHANGED vars
  BY <1>6, <1>8 DEF Restart, vars, process, store, outside, history, args
<1> QED BY <1>1, <1>3, <1>4, <1>5, <1>7, <1>8 DEF Next, OutOfRunIds

\* The cleanup of cmd_run and `delete-run` leave no row and no report file of a
\* run, whatever outcome the run had and whoever deletes it meanwhile.
THEOREM DeletionsAreComplete ==
    ASSUME AllowForce = FALSE
    PROVE  Spec => []DeletionIsComplete
<1>1. Init => Ownership /\ Rows /\ Clean
  <2>1. Init => Clean
    BY DEF Init, Clean, Cleaned
  <2> QED BY <2>1, OwnershipAtStart, RowsAtStart
<1>2. (Ownership /\ Rows /\ Clean) /\ [Next]_vars => (Ownership /\ Rows /\ Clean)'
  BY OwnershipStep, RowsStep, CleanStep
<1>3. Ownership /\ Rows /\ Clean => DeletionIsComplete
  <2> SUFFICES ASSUME Rows, Clean, NEW r \in Runs, Settled(r),
                      row[r] = "deleted" \/ r \in ephemeral
               PROVE  row[r] = "deleted" /\ owned[r] = {} /\ r \notin files
    BY DEF DeletionIsComplete
  <2>1. Cleaned(r) /\ NoOrphanRows
    BY DEF Clean, Rows
  <2>2. row[r] = "deleted"
    BY <2>1 DEF Cleaned, Settled, Workers
  <2>3. owned[r] = {}
    BY <2>1, <2>2 DEF NoOrphanRows, Closed
  <2>4. r \notin files
    BY <2>1, <2>2 DEF Cleaned, Settled
  <2> QED BY <2>2, <2>3, <2>4
<1> QED BY <1>1, <1>2, <1>3, PTL DEF Spec
=============================================================================
