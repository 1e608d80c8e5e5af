----------------------------- MODULE RunPipeline -----------------------------
(***************************************************************************)
(* Runner.run and everything that starts, guards, kills or deletes a run:  *)
(* the scheduler job and the MCP trigger of `serve` (one lock), the `run`  *)
(* and `delete-run` commands (processes of their own, no lock), and the    *)
(* database rows and report files a run leaves behind.                     *)
(*                                                                         *)
(* Every write of the store is a transaction of its own, so every write is *)
(* an action: a kill, an exception or another process can come between any *)
(* two of them.  What the rows say is not modelled, only which tables hold *)
(* rows of which run, because deletion, ordering and recording are about   *)
(* that.                                                                   *)
(***************************************************************************)
EXTENDS Naturals, FiniteSets

CONSTANTS
    Runs,        \* run ids; a run id is never used twice (timestamp and uuid)
    Sched,       \* the scheduler's thread in `serve`
    Mcp,         \* worker threads that execute trigger_analysis in `serve`
    Clis,        \* `dawnpatrol run` and `dawnpatrol delete-run` processes
    Nobody,      \* the lock's owner when it is free
    NoRun,       \* what a worker that has no run holds
    Outputs,     \* enabled output plugins
    StopChoices, \* the --stop-after values the operator gives ("" is none)
    Sparse,      \* bound: run-owned tables whose write may turn out empty
    Aging,       \* bound: tables whose rows may pass their retention here
    AllowForce,  \* whether `delete-run --force` is used
    MaxFaults    \* bound: exceptions and kills in one behaviour

Daemon  == {Sched} \cup Mcp
Workers == Daemon \cup Clis

\* The run-owned tables; ioc_dns and ioc_flow are written by one helper.
Tables == {"source_health", "events", "metrics", "signals", "ioc",
           "canaries", "findings", "deliveries"}

\* What retention ages out, and by when the run started.
Retained == {"events", "metrics", "ioc"}

\* --stop-after accepts any of these.
STOP_STAGES == {"collect", "verify", "persist", "analyze", "investigate",
                "adjudicate", "render", "deliver"}

\* A run row: absent, open (no finished_at), closed in one of three ways, or
\* deleted.
Closed   == {"completed", "stopped", "error"}
RowState == {"absent", "open", "deleted"} \cup Closed

\* Where a worker is inside the try block of Runner.run.
TryBlock == {"collect", "verify", "persist", "metrics", "signals", "ioc",
             "canaries", "investigate", "adjudicate", "render", "deliver",
             "record", "purge", "complete", "stop", "abort"}
\* ... and inside Runner.run after the row exists.
Working  == TryBlock \cup {"except"}
Control  == Working \cup {"idle", "begin", "return", "unlink"}

ASSUME DistinctAssumption ==
    /\ Sched \notin Mcp
    /\ Daemon \cap Clis = {}
    /\ Nobody \notin Workers
    /\ NoRun \notin Runs

ASSUME BoundsAssumption ==
    /\ StopChoices \subseteq STOP_STAGES \cup {""}
    /\ Sparse \subseteq Tables
    /\ Aging \subseteq Retained
    /\ AllowForce \in BOOLEAN
    /\ MaxFaults \in Nat

VARIABLES
    up,           \* whether the daemon process is alive
    lock,         \* owner of cmd_serve's run_lock
    pc,           \* where each worker is
    run,          \* the run each worker works on
    todo,         \* outputs a worker has still to serve in _deliver
    row,          \* the runs table
    owned,        \* run-owned tables that hold rows of a run
    expired,      \* tables in which a run is past its retention
    files,        \* runs with a report-<run_id>.* file
    sent,         \* outputs that really delivered a run's report
    by,           \* the worker a run belongs to
    stopAfter,    \* the --stop-after a run was started with
    ephemeral,    \* runs started with --ephemeral
    investigated, \* runs whose analysis reached the model stage
    faults,       \* exceptions and kills so far
    lost          \* runs whose worker was killed or threw out of Runner.run

process == <<up, lock, pc, run, todo>>
store   == <<row, owned, expired>>
outside == <<files, sent>>
args    == <<by, stopAfter, ephemeral>>
history == <<args, investigated, faults, lost>>
vars    == <<process, store, outside, history>>

TypeOK ==
    /\ up \in BOOLEAN
    /\ lock \in Daemon \cup {Nobody}
    /\ pc \in [Workers -> Control]
    /\ run \in [Workers -> Runs \cup {NoRun}]
    /\ todo \in [Workers -> SUBSET Outputs]
    /\ row \in [Runs -> RowState]
    /\ owned \in [Runs -> SUBSET Tables]
    /\ expired \in [Runs -> SUBSET Retained]
    /\ files \in SUBSET Runs
    /\ sent \in [Runs -> SUBSET Outputs]
    /\ by \in [Runs -> Workers \cup {Nobody}]
    /\ stopAfter \in [Runs -> STOP_STAGES \cup {""}]
    /\ ephemeral \in SUBSET Runs
    /\ investigated \in SUBSET Runs
    /\ faults \in 0..MaxFaults
    /\ lost \in SUBSET Runs

Init ==
    /\ up = TRUE
    /\ lock = Nobody
    /\ pc = [w \in Workers |-> "idle"]
    /\ run = [w \in Workers |-> NoRun]
    /\ todo = [w \in Workers |-> {}]
    /\ row = [r \in Runs |-> "absent"]
    /\ owned = [r \in Runs |-> {}]
    /\ expired = [r \in Runs |-> {}]
    /\ files = {}
    /\ sent = [r \in Runs |-> {}]
    /\ by = [r \in Runs |-> Nobody]
    /\ stopAfter = [r \in Runs |-> ""]
    /\ ephemeral = {}
    /\ investigated = {}
    /\ faults = 0
    /\ lost = {}

-----------------------------------------------------------------------------
(* Helpers *)

At(w, p)   == pc[w] = p
Goto(w, p) == pc' = [pc EXCEPT ![w] = p]

\* The `if stop_after == stage: return self._stop(...)` after a stage.
Unless(w, stage, next) == IF stopAfter[run[w]] = stage THEN "stop" ELSE next

\* One insert of rows of table t for w's run; an empty list writes nothing.
Insert(w, t) ==
    \E rows \in IF t \in Sparse THEN {{}, {t}} ELSE {{t}} :
        owned' = [owned EXCEPT ![run[w]] = @ \cup rows]

\* A stage whose effect on a run's rows is that insert.
Stores(w, at, t, next) ==
    /\ At(w, at)
    /\ Insert(w, t)
    /\ Goto(w, next)
    /\ UNCHANGED <<up, lock, run, todo, row, expired, outside, history>>

\* finish_run is an UPDATE: on a row that is gone it changes nothing.
Close(r, outcome) ==
    row' = [row EXCEPT ![r] = IF @ = "open" THEN outcome ELSE @]

-----------------------------------------------------------------------------
(* Who starts a run *)

\* new_run_id at the head of Runner.run.
Enter(w, r) ==
    /\ by[r] = Nobody
    /\ by' = [by EXCEPT ![r] = w]
    /\ run' = [run EXCEPT ![w] = r]
    /\ Goto(w, "begin")

\* Slip: the trigger starts a run without asking for the lock.
AcquireUnasked(w) ==
    /\ up
    /\ w \in Daemon
    /\ At(w, "idle")
    /\ lock' = w
    /\ \E r \in Runs : Enter(w, r)
    /\ UNCHANGED <<up, todo, store, outside, stopAfter, ephemeral,
                   investigated, faults, lost>>

\* guarded_run acquires the lock without blocking.  Finding it held, it
\* returns "busy" at once and changes nothing.
Acquire(w) ==
    /\ up
    /\ w \in Daemon
    /\ At(w, "idle")
    /\ lock = Nobody
    /\ lock' = w
    /\ \E r \in Runs : Enter(w, r)
    /\ UNCHANGED <<up, todo, store, outside, stopAfter, ephemeral,
                   investigated, faults, lost>>

\* `dawnpatrol run` is a process of its own and takes no lock.  Only the
\* command line has --stop-after and --ephemeral.
CliRun(w) ==
    /\ w \in Clis
    /\ At(w, "idle")
    /\ \E r \in Runs :
        /\ Enter(w, r)
        /\ \E s \in StopChoices : stopAfter' = [stopAfter EXCEPT ![r] = s]
        /\ ephemeral' \in {ephemeral, ephemeral \cup {r}}
    /\ UNCHANGED <<up, lock, todo, store, outside, investigated, faults, lost>>

\* start_run, before the try block.
StartRun(w) ==
    /\ At(w, "begin")
    /\ row' = [row EXCEPT ![run[w]] = "open"]
    /\ Goto(w, "collect")
    /\ UNCHANGED <<up, lock, run, todo, owned, expired, outside,
                   history>>

-----------------------------------------------------------------------------
(* The stages of Runner.run, one action per transaction *)

\* Stages 1-2.  With an unknown requested source, or none enabled, the run is
\* recorded as an error and returns.
Collect(w) ==
    /\ At(w, "collect")
    /\ \E next \in {"abort", "verify"} : Goto(w, next)
    /\ UNCHANGED <<up, lock, run, todo, store, outside, history>>

\* Stages 3-4: classify every source, save_health.
Verify(w) == Stores(w, "verify", "source_health", Unless(w, "collect", "persist"))

\* Stage 5: insert_events of real and canary events.
Persist(w) == Stores(w, "persist", "events", Unless(w, "persist", "metrics"))

\* Slip: save_signals swallows its errors the way the IOC slice does.
SaveSignalsIfPossible(w) ==
    \/ Stores(w, "signals", "signals", "ioc")
    \/ At(w, "signals") /\ Goto(w, "ioc")
       /\ UNCHANGED <<up, lock, run, todo, store, outside, history>>

\* Stage 6: save_metrics, save_signals, the IOC slice, save_canaries.
SaveMetrics(w) == Stores(w, "metrics", "metrics", "signals")
SaveSignals(w) == Stores(w, "signals", "signals", "ioc")

\* _persist_ioc swallows every exception: the slice may be missing.
PersistIoc(w) ==
    \/ Stores(w, "ioc", "ioc", "canaries")
    \/ At(w, "ioc") /\ Goto(w, "canaries")
       /\ UNCHANGED <<up, lock, run, todo, store, outside, history>>

\* Slip: the stop check before the model stage is missing.
VerifyCanariesAndGoOn(w) == Stores(w, "canaries", "canaries", "investigate")

VerifyCanaries(w) ==
    Stores(w, "canaries", "canaries", Unless(w, "analyze", "investigate"))

\* Stage 7, the only one that calls a model; it writes no run-owned row.
Investigate(w) ==
    /\ At(w, "investigate")
    /\ investigated' = investigated \cup {run[w]}
    /\ Goto(w, "adjudicate")
    /\ UNCHANGED <<up, lock, run, todo, store, outside, args,
                   faults, lost>>

\* Stage 8: build the report and save_findings; the watchlist it updates
\* afterwards is not owned by a run.
Adjudicate(w) ==
    Stores(w, "adjudicate", "findings", Unless(w, "adjudicate", "render"))

\* A triggered run skips the email output.
ChosenOutputs(w) == IF w \in Mcp THEN Outputs \ {"smtp"} ELSE Outputs

\* Stage 9: render for every chosen output, scan the result for secrets, and
\* abort before any delivery when one leaked.
Render(w) ==
    /\ At(w, "render")
    /\ \/ /\ Goto(w, "abort")
          /\ UNCHANGED todo
       \/ /\ Goto(w, Unless(w, "render", "deliver"))
          /\ todo' = [todo EXCEPT ![w] = ChosenOutputs(w)]
    /\ UNCHANGED <<up, lock, run, store, outside, history>>

\* Stage 10, one output of the loop in _deliver.  It is skipped by policy,
\* fails (an exception is a failed result, never an abort) or delivers; the
\* file output delivers by writing report-<run_id>.*.
Emit(w) ==
    /\ At(w, "deliver")
    /\ \E o \in todo[w] :
        /\ todo' = [todo EXCEPT ![w] = @ \ {o}]
        /\ \/ UNCHANGED outside
           \/ /\ sent' = [sent EXCEPT ![run[w]] = @ \cup {o}]
              /\ files' = IF o = "file" THEN files \cup {run[w]} ELSE files
    /\ UNCHANGED <<up, lock, pc, run, store, history>>

\* Slip: the deliveries are never recorded.
DeliveredUnrecorded(w) ==
    /\ At(w, "deliver")
    /\ todo[w] = {}
    /\ Goto(w, "purge")
    /\ UNCHANGED <<up, lock, run, todo, store, outside, history>>

Delivered(w) ==
    /\ At(w, "deliver")
    /\ todo[w] = {}
    /\ Goto(w, "record")
    /\ UNCHANGED <<up, lock, run, todo, store, outside, history>>

\* save_deliveries, after the last output.
SaveDeliveries(w) == Stores(w, "record", "deliveries", "purge")

\* Stage 11: one transaction that removes every run's expired rows.
Purge(w) ==
    /\ At(w, "purge")
    /\ owned' = [r \in Runs |-> owned[r] \ expired[r]]
    /\ Goto(w, "complete")
    /\ UNCHANGED <<up, lock, run, todo, row, expired,
                   outside, history>>

\* The three ways out through finish_run: the last statement of the try block,
\* _stop, and the early returns that record an error.
OutcomeAt == [complete |-> "completed", stop |-> "stopped", abort |-> "error"]

Finish(w) ==
    /\ pc[w] \in DOMAIN OutcomeAt
    /\ Close(run[w], OutcomeAt[pc[w]])
    /\ Goto(w, "return")
    /\ UNCHANGED <<up, lock, run, todo, owned, expired, outside, history>>

-----------------------------------------------------------------------------
(* Failures *)

Fault == faults < MaxFaults /\ faults' = faults + 1

\* Any exception in the try block, except inside the IOC helper.
Raise(w) ==
    /\ Fault
    /\ pc[w] \in TryBlock \ {"ioc"}
    /\ Goto(w, "except")
    /\ todo' = [todo EXCEPT ![w] = {}]
    /\ UNCHANGED <<up, lock, run, store, outside, args, investigated, lost>>

\* Slip: the except clause logs and records nothing.
FailureUnrecorded(w) ==
    /\ At(w, "except")
    /\ Goto(w, "return")
    /\ UNCHANGED <<up, lock, run, todo, store, outside, history>>

\* `except Exception`: the crashed run is still recorded.
RecordFailure(w) ==
    /\ At(w, "except")
    /\ Close(run[w], "error")
    /\ Goto(w, "return")
    /\ UNCHANGED <<up, lock, run, todo, owned, expired,
                   outside, history>>

\* What is left of a worker whose process is gone.
Gone(w) == IF run[w] = NoRun THEN {} ELSE {run[w]}

\* start_run, or the finish_run of the except clause, throws: the exception
\* leaves Runner.run.  guarded_run still releases the lock; cmd_run has not
\* entered its try block, so nothing is cleaned up.
Unwind(w) ==
    /\ Fault
    /\ pc[w] \in {"begin", "except"}
    /\ lost' = lost \cup Gone(w)
    /\ run' = [run EXCEPT ![w] = NoRun]
    /\ Goto(w, IF w \in Daemon THEN "return" ELSE "idle")
    /\ UNCHANGED <<up, lock, todo, store, outside, args,
                   investigated>>

\* The daemon is killed: its threads and its lock go with it.
KillDaemon ==
    /\ Fault
    /\ up
    /\ up' = FALSE
    /\ lock' = Nobody
    /\ lost' = lost \cup UNION {Gone(w) : w \in Daemon}
    /\ pc' = [w \in Workers |-> IF w \in Daemon THEN "idle" ELSE pc[w]]
    /\ run' = [w \in Workers |-> IF w \in Daemon THEN NoRun ELSE run[w]]
    /\ todo' = [w \in Workers |-> IF w \in Daemon THEN {} ELSE todo[w]]
    /\ UNCHANGED <<store, outside, args, investigated>>

Restart ==
    /\ ~up
    /\ up' = TRUE
    /\ UNCHANGED <<lock, pc, run, todo, store, outside, history>>

\* A CLI process is killed, or Ctrl-C: KeyboardInterrupt is no Exception.
KillCli(w) ==
    /\ Fault
    /\ w \in Clis
    /\ ~At(w, "idle")
    /\ lost' = lost \cup Gone(w)
    /\ run' = [run EXCEPT ![w] = NoRun]
    /\ todo' = [todo EXCEPT ![w] = {}]
    /\ Goto(w, "idle")
    /\ UNCHANGED <<up, lock, store, outside, args, investigated>>

-----------------------------------------------------------------------------
(* After the run *)

\* Slip: the lock is released only when the run did not fail.
ReleaseAfterSuccess(w) ==
    /\ w \in Daemon
    /\ At(w, "return")
    /\ lock' = IF run[w] # NoRun /\ row[run[w]] = "completed" THEN Nobody ELSE lock
    /\ run' = [run EXCEPT ![w] = NoRun]
    /\ Goto(w, "idle")
    /\ UNCHANGED <<up, todo, store, outside, history>>

\* The `finally` of guarded_run.
Release(w) ==
    /\ w \in Daemon
    /\ At(w, "return")
    /\ lock' = Nobody
    /\ run' = [run EXCEPT ![w] = NoRun]
    /\ Goto(w, "idle")
    /\ UNCHANGED <<up, todo, store, outside, history>>

\* Slip: delete_run forgets the findings.
EraseMostRows(r) ==
    /\ row' = [row EXCEPT ![r] = "deleted"]
    /\ owned' = [owned EXCEPT ![r] = @ \cap {"findings"}]

\* The transaction of Store.delete_run.
EraseRows(r) ==
    /\ row' = [row EXCEPT ![r] = "deleted"]
    /\ owned' = [owned EXCEPT ![r] = {}]

\* Slip: the cleanup is reached only when the run did not fail.
CliReturnAfterSuccess(w) ==
    /\ w \in Clis
    /\ At(w, "return")
    /\ IF run[w] \in ephemeral /\ row[run[w]] \in {"completed", "stopped"}
       THEN EraseRows(run[w]) /\ Goto(w, "unlink") /\ UNCHANGED run
       ELSE /\ run' = [run EXCEPT ![w] = NoRun]
            /\ Goto(w, "idle")
            /\ UNCHANGED <<row, owned>>
    /\ UNCHANGED <<up, lock, todo, expired, outside,
                   history>>

\* The `finally` of cmd_run.  A run that is not ephemeral, or that somebody
\* else deleted meanwhile, leaves nothing to do.
CliReturn(w) ==
    /\ w \in Clis
    /\ At(w, "return")
    /\ IF run[w] \in ephemeral /\ row[run[w]] # "deleted"
       THEN EraseRows(run[w]) /\ Goto(w, "unlink") /\ UNCHANGED run
       ELSE /\ run' = [run EXCEPT ![w] = NoRun]
            /\ Goto(w, "idle")
            /\ UNCHANGED <<row, owned>>
    /\ UNCHANGED <<up, lock, todo, expired, outside,
                   history>>

\* Slip: `delete-run` takes an open run without --force.
DeleteAnyRun(w) ==
    /\ w \in Clis
    /\ At(w, "idle")
    /\ \E r \in Runs :
        /\ row[r] \in Closed \cup {"open"}
        /\ EraseRows(r)
        /\ run' = [run EXCEPT ![w] = r]
    /\ Goto(w, "unlink")
    /\ UNCHANGED <<up, lock, todo, expired, outside,
                   history>>

\* `delete-run`: refuses an unknown run and, without --force, an open one.
DeleteRun(w) ==
    /\ w \in Clis
    /\ At(w, "idle")
    /\ \E r \in Runs :
        /\ row[r] \in Closed \/ (AllowForce /\ row[r] = "open")
        /\ EraseRows(r)
        /\ run' = [run EXCEPT ![w] = r]
    /\ Goto(w, "unlink")
    /\ UNCHANGED <<up, lock, todo, expired, outside,
                   history>>

\* _delete_run_files, after the transaction.
Unlink(w) ==
    /\ At(w, "unlink")
    /\ files' = files \ {run[w]}
    /\ run' = [run EXCEPT ![w] = NoRun]
    /\ Goto(w, "idle")
    /\ UNCHANGED <<up, lock, todo, store, sent, history>>

\* Time passes retention for rows of a run nobody is working on: retention is
\* days and a run takes minutes.
Age(r) ==
    /\ row[r] # "absent"
    /\ \A w \in Workers : run[w] # r
    /\ \E t \in Aging \ expired[r] :
        expired' = [expired EXCEPT ![r] = @ \cup {t}]
    /\ UNCHANGED <<process, row, owned, outside, history>>

-----------------------------------------------------------------------------

\* What a worker does once Runner.run was entered, whoever entered it.
Pipeline(w) ==
    \/ StartRun(w)
    \/ Collect(w)
    \/ Verify(w)
    \/ Persist(w)
    \/ SaveMetrics(w)
    \/ SaveSignals(w)
    \/ PersistIoc(w)
    \/ VerifyCanaries(w)
    \/ Investigate(w)
    \/ Adjudicate(w)
    \/ Render(w)
    \/ Emit(w)
    \/ Delivered(w)
    \/ SaveDeliveries(w)
    \/ Purge(w)
    \/ Finish(w)
    \/ RecordFailure(w)
    \/ Release(w)
    \/ CliReturn(w)
    \/ Unlink(w)

\* Only in a bounded instance: every run id is used and nobody is at work.
OutOfRunIds ==
    /\ \A r \in Runs : by[r] # Nobody
    /\ \A w \in Workers : At(w, "idle")
    /\ UNCHANGED vars

Failure(w) == Raise(w) \/ Unwind(w) \/ KillCli(w)

Next ==
    \/ \E w \in Workers :
        \/ Acquire(w)
        \/ CliRun(w)
        \/ DeleteRun(w)
        \/ Pipeline(w)
        \/ Failure(w)
    \/ \E r \in Runs : Age(r)
    \/ KillDaemon
    \/ Restart
    \/ OutOfRunIds

Spec == Init /\ [][Next]_vars

\* A worker inside Runner.run keeps going: every call it makes has a timeout.
\* Nothing is assumed of who starts runs, of failures or of kills.
FairSpec == Spec /\ \A w \in Workers : WF_vars(Pipeline(w))

-----------------------------------------------------------------------------
(* What the system promises *)

\* Nobody works on r, and nobody was killed while working on it.
Settled(r) == r \notin lost /\ \A w \in Workers : run[w] # r

\* The scheduler's job and the MCP trigger never run the pipeline at once:
\* whoever is between acquiring and releasing run_lock is alone there.
OneDaemonRun ==
    \A v, w \in Daemon : pc[v] # "idle" /\ pc[w] # "idle" => v = w

\* Deletion and kills never leave rows of a run the runs table does not list:
\* `delete-run` refuses an open run, and the forced deletion of --ephemeral
\* comes after the run's last write.
NoOrphanRows ==
    \A r \in Runs : owned[r] # {} => row[r] \in {"open"} \cup Closed

\* A deleted run, and an ephemeral run however it ended, leaves no row and no
\* report file once its workers are done, unless one of them was killed.
DeletionIsComplete ==
    \A r \in Runs :
        /\ Settled(r)
        /\ row[r] = "deleted" \/ r \in ephemeral
        => row[r] = "deleted" /\ owned[r] = {} /\ r \notin files

\* What a report says is in the database before any output sees the report,
\* whatever fails later.
DeliveredIsStored ==
    \A r \in Runs :
        sent[r] # {} /\ row[r] # "deleted"
        => Tables \ ({"deliveries", "ioc"} \cup Sparse \cup expired[r])
               \subseteq owned[r]

\* A run recorded as completed went through every stage: no failed or skipped
\* write hides behind a finished row with a status.
CompletedIsWhole ==
    \A r \in Runs :
        row[r] = "completed"
        => /\ r \in investigated
           /\ Tables \ ({"ioc"} \cup Sparse \cup expired[r]) \subseteq owned[r]

\* A run triggered over MCP never emails.
McpNeverEmails ==
    \A r \in Runs : by[r] \in Mcp => "smtp" \notin sent[r]

\* The tables a run may have filled by the end of each stage.
FilledBy(stage) ==
    CASE stage \in {"collect", "verify"} -> {"source_health"}
      [] stage = "persist" -> {"source_health", "events"}
      [] stage \in {"analyze", "investigate"} -> Tables \ {"findings", "deliveries"}
      [] stage \in {"adjudicate", "render"} -> Tables \ {"deliveries"}
      [] OTHER -> Tables

\* A run asked to halt after a stage does nothing that comes later: no rows of
\* later stages, no model call, no delivery.
StopAfterHonoured ==
    \A r \in Runs :
        /\ owned[r] \subseteq FilledBy(stopAfter[r])
        /\ stopAfter[r] \notin {"", "deliver"} => sent[r] = {}
        /\ stopAfter[r] \in {"collect", "verify", "persist", "analyze"}
              => r \notin investigated

\* finish_run is the last write of a run: nothing is stored, written to disk
\* or delivered for a run that is recorded as finished.
FinishedIsFrozen ==
    [][\A r \in Runs :
           row[r] \in Closed =>
               /\ owned'[r] \subseteq owned[r]
               /\ sent'[r] = sent[r]
               /\ r \in files' => r \in files]_vars

\* A run that started gets a finish time, unless its process was killed or the
\* failure could not be recorded.
OpenRunsClose ==
    \A r \in Runs : row[r] = "open" ~> (row[r] # "open" \/ r \in lost)

\* run_lock is always released again.
LockIsReleased ==
    \A w \in Daemon : lock = w ~> lock # w

\* What another process sees of a run: its row, the tables that hold rows of it,
\* its report files and the outputs that got its report.
Ledger == INSTANCE RunLedger
              WITH row <- row, owned <- owned, files <- files, sent <- sent,
                   Runs <- Runs, Outputs <- Outputs

\* The pipeline implements the ledger: no reader ever sees rows of a run that
\* is not open appear, a closed run change, or half a deletion.
ImplementsLedger == Ledger!Spec
=============================================================================
