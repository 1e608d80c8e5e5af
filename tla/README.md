# DawnPatrol: models, checks and proofs

DawnPatrol collects security telemetry of a home or small-office network, reduces
it with deterministic analyzers, lets a language model investigate the result
under a cost ceiling, adjudicates what the model says, and delivers a report.
This directory holds TLA+ specifications of its behaviour over time: who may run
the pipeline when, what is stored and deleted in which order, what the detection
self-test vouches for, what a run may spend, and what the daemon does between
runs. Everything is written from the code under `src/dawnpatrol`; the line ranges
each definition stands for are in `PROJECT.json`.

## Inventory

| part | state it keeps | operations | interacts with | what makes it correct |
|---|---|---|---|---|
| run pipeline (`runner.py`) | one run's progress, the `CanaryRunner` | `Runner.run` and its eleven stages, `_stop`, the `except` clause | store, outputs, model stage | stages commit in order, a failed or stopped run is closed, nothing happens after `finish_run` |
| store (`store.py`, `schema.py`) | `runs`, eight run-owned tables, rolling tables (entities, cache, watchlist, suppressions, notebook) | one transaction per `save_*`, `purge`, `delete_run` | every process | no rows without a run, deletion is whole |
| `serve` (`cli.py`, `scheduler.py`) | `run_lock`, stop event, heartbeat file | `guarded_run`, `Scheduler.serve`, signal handler | MCP server thread, health check | one run at a time in the daemon, no stall, a clean exit |
| command line (`cli.py`) | nothing between calls | `run`, `delete-run`, `runs`, `healthcheck`, editing commands | same database and files as the daemon, without its lock | cleanup follows every outcome, open runs are not deleted unasked |
| self-test (`canary.py`) | tokens per process | `inject`, `mark_signals`, `verify` | persist, analyze and adjudicate stages, two analyzers | a detection is real, synthetic activity stays out of the report, a broken analyzer is not GREEN |
| model stage (`runner.py`, `agent/harness.py`, `budget.py`, `providers/`) | attempts, usage, ceiling, corrections | fallback chain, agent loop, submission check | broker, tools, provider | one ceiling for all attempts, complete accounting, termination |
| enrichment broker (`enrichment/broker.py`) | budget per enricher, persistent cache | `enrich` | tools, store | never more lookups than the budget, shared by all attempts |
| adjudicator (`adjudicate.py`) | adjustments, rejections | `build_findings`, `apply_suppressions`, `rollup` | model's analysis, store | only local evidence raises severity, suppressions expire |
| source health (`verify.py`) | none | `classify` | collectors | silence is not mistaken for an outage or for calm |
| baseline (`analyzers/baseline.py`, entities) | first and last seen, counts, prior metrics | `observe_entities`, `novel` | persist stage, analyzers | novelty is judged against earlier runs, counts are backed by sightings |
| collectors (`sources/`, `devices.py`) | device directory shared by their threads | paged collection, `update`, `self_test` | pipeline, source health | every event of the window once, partial knowledge erases nothing |
| analyzers (`analyzers/`, `query.py`, `profile.py`) | none but the baseline they ask | one `run` each over the stored events | analyze stage | what happened on the network is told of, and told of as what it was |
| outputs (`outputs/`) | report files, `latest.*` | `should_run`, `emit` | pipeline, `delete-run` | a failed delivery stops nothing and is recorded |
| MCP server (`mcpserver/`) | worker threads | `trigger_analysis`, read-only tools, notebook | `guarded_run`, store | a triggered run never emails, a busy lock is reported |

Hard to test here: two threads and any number of other processes on one
database, kills and exceptions between any two transactions, state that outlives
a run (tokens, budgets, entities, rows of killed runs, latest files), a ceiling
shared by attempts of which some end by an exception, logs that change while they
are read page by page, rankings that are cut before they are filtered, time
(sleeps, jitter, heartbeat, the grace of novelty, a stop signal at any moment).
`PROJECT.json` lists these hazards line by line with the properties that would
notice.

## Modules

The run of the pipeline as a whole:

| module | models | correspondence |
|---|---|---|
| `RunPipeline` | `Runner.run`, `guarded_run`, `cmd_run`, `cmd_delete_run`, the run-owned tables | `pc[w]` is where worker `w` is in `Runner.run`, named after the stages; every store transaction is one action; `row` is the `runs` table, `owned[r]` the tables holding rows of run `r`, `files` the `report-<run>` files, `lock` is `run_lock` |
| `RunLedger` | what database and files promise a reader | the abstract specification `RunPipeline` implements, with the same four variables |
| `Daemon` | `Scheduler.serve`, signal handler, lock contention with triggered runs, heartbeat | `phase` is the place in `serve`, `delay` and `slice` are its locals, `age` is the heartbeat file's age, `missed` how many writes of it failed since |

Its stages, in their order:

| module | models | correspondence |
|---|---|---|
| `Collect` | `collect` and `self_test` of both sources in their threads, the services they pull from, `classify` | the local variables of a pull are the fields of `pull`, a request is one action, `log[d]` is what the service holds; `health` is what `classify` says |
| `DeviceDirectory`, `DirectoryPromise` | `DeviceDirectory.update`, and what it promises the sources | an update looks up which fields are empty and fills them in two steps under `holder`, the lock; the promise is the abstract specification, in which a contribution is one step |
| `EntityBaseline` | `observe_entities`, `entity_pairs_from_events`, `novel` | reading and writing are two steps; `entities` is the table, `existing` what a process read |
| `History` | runs of several processes as far as they leave something for the next: entity table, last finished run, latest files; novelty signals; `--ephemeral` | `pc[p]` is the stage; `sightings` and `since` record what committed runs saw |
| `ReportFiles` | `FileReportOutput.emit`, `_delete_run_files` | `latest[f]` is whose report `latest.<f>` holds |
| `LogLines` | what the parsers make of each known form of log line | a line is its form and its fields, an event a record of what `_normalize` fills in |
| `EventQueries`, `NetworkProfile` | `EventQuery` and `Profile` as the analyzers ask them | an operator per query, with its limit, its order and its ties |
| `AuthActivity`, `DnsAnomalies`, `FirewallTraffic`, `FirewallPatterns` | the analyzers, as operators from a set of events to what they tell | named after the analyzers' methods; thresholds are constants |
| `Analysis` | incidents on the network, the lines they leave, one run over them | `happened` is what really took place, `report` what the run says of it |
| `Canary` | `CanaryRunner`, the two canaries, the thresholds of the analyzers they exercise, isolation and rollup in `Runner` | `tokens` survives from run to run as `CanaryRunner.tokens` does; `real`, `injected`, `counted` and `signals` are the event sets and signals of the two passes; its specification is `SelfTestSpec`, as its proofs share a module with those of `Investigate` |
| `Investigate` | `_investigate`, `Harness.run`, the agent loop the providers share, `Budget.check`, `check_submission` | `usage` is what `_investigate` adds up, `run_usage` is `AgentRun.usage`, `spent` is what the calls really cost |
| `Enrichment` | `EnrichmentBroker.enrich` and `_enrich_one`, the prefilters, `cache_get`, `cache_put` and the expiry of entries, for several runs at once | `spent` is `_spent`, `pending` and `answers` are the locals of `_enrich_one`, `cache` the unexpired rows of `enrichment_cache`; `replies` and `found` record history |
| `Adjudication` | `build_findings`, `_rate`, `apply_suppressions`, `rollup`, `add_suppression`, `delete_suppression`, expiry | `findings` and `hidden` are those of the current run, `suppressions` the table; what a matcher can name (taxonomy, entity, words of the title) is a set of marks |

`Collect` composes the sources with the directory, `History` the entity table with
the report files and the novelty of the analyzers, `Analysis` the parsers with all
other analyzers. `RunPipeline` takes from the stages only that they succeed, fail or
stop, so every stage module refines one of its steps informally: what it does between
entering and leaving the stage.

`RunPipelineProofs`, `EnrichmentProofs`, `AdjudicationProofs`, `AnalysisProofs`,
`InvestigateProofs`, `DaemonProofs`, `CollectProofs` and `HistoryProofs` hold the
theorems. `MCRunPipeline`, `MCCollect`, `MCHistory`, `MCAnalysis`, `MCEnrichment` and
`MCAdjudication` instantiate their modules for TLC; the other modules need no
definitions beyond their `.cfg`. Operators commented *Slip* are plausible mistakes in
the code; putting one in the place of the definition that follows it breaks the
property named for it in `PROJECT.json`, which shows that the property depends on
that code.

## What the runs check

| run | instance | shows |
|---|---|---|
| `pipeline_safety` | scheduler, one MCP worker, two command line processes, two runs, outputs `file` and `smtp`, one fault, retention of events | mutual exclusion in the daemon, no orphaned rows, complete deletion, stored before delivered, completed means every stage, honoured stop points, refinement of `RunLedger` |
| `pipeline_liveness` | scheduler and one process, one fault | open runs are closed, the lock is released |
| `collect` | Pi-hole and two devices, nine worlds of logs (full, partial, short and empty pages, records that do not normalise, page caps, a reach of one, three and 24 hours, refused credentials, ignored filters), two faults, one arrival, a window of four hours in hundredths, pages of two | OK vouches for the requested window (up to one record in fifty of what the service reported), an undisturbed pull of a filled window within reach is OK, FAILED is not a query's fault, the directory implements its promise, every source is judged |
| `history` | a daemon with two runs and an ephemeral run beside it, ten entities, rankings of two values, a fault, a grace of one and a clock of two units | what is new is announced, what is old stays quiet, counts are backed by sightings, a clean-up removes its own files and no others |
| `analysis` | fifteen scenes of up to a handful of incidents each | what the analyzers tell of logons, bursts, deauthentications, hiding in names, outliers and crossings, held against what happened |
| `canary` | two runs, two canaries, windows of 1, 3 and 24 hours, real traffic with the canaries' taxonomies and port | a detected canary was injected into this run and its analyzer works; a broken analyzer is never GREEN; every failure has one of three causes |
| `investigate` | chain of three models, ceilings 0 (none) and 3, three turns, calls of cost 0 to 2 | all attempts together overshoot the ceiling by less than one call (unreadable replies apart), no usage is counted twice, the stage ends |
| `enrichment` | two runs with one cache, two calls of one and one of the other, budget 2, batches of 2, two spellings of a domain, a trusted domain | the budget is a boundary over all calls, every subject gets an answer, a refusal means that the budget went to others, nothing found is paid for twice |
| `adjudication` | every subset of four signals of INFO, LOW, HIGH and CRITICAL, up to three findings of eleven submissions, two suppressions with and without a bound and an expiry | RED and AMBER rest on signals, not on the model's rating; a GREEN report hides no CRITICAL finding unasked |
| `daemon` | period 6, four schedules, jitters 0, 1, 3, slices of 2, health limit 4 | jobs start exactly at a fire time plus jitter, a waiting daemon looks alive unless too many writes of its heartbeat fail, the loop never stalls, a stop signal ends the process |
| `canary_port`, `auth_outage` | the smallest instance that shows it | disagreements between code and documentation, see below |

Bounds. In `RunPipeline` two runs and two command line processes let a deletion, a
second run and a retention sweep overlap with one run at every point; a third run
repeats one of these roles. One fault per behaviour is enough for each place a fault
can hit; the proved properties hold for any number. `StopChoices` holds values the
code honours. `Sparse` names tables whose write may be empty: it is empty in the runs
to keep them small, and arbitrary in the proofs.

In `Collect` pages of two and a cap of three pages make logs of two to four records
end on, before and after a page and at the cap; the code gives up after 200 and
400 pages. A fault is an outage, a refused page or a repeated page, so two of them
hit the pull and the probe, or a pull of each source. `OkMeansWhole` allows what
`verify.py` allows, one record in fifty; with logs this small that is none, so the run
checks that nothing at all is missing behind an OK, and the proof covers logs of any
length. It speaks of what was in the requested window when the pull began and normalises
(`Held`), with one exception (`Due`): `CollectionResult.clamped` lets pass a window that is
up to 0.01 hours too short (`models.py:291`), so the first 36 seconds may be missing from
Pi-hole's log, or be out of its reach, behind an OK. Time is therefore counted in
hundredths of an hour, and a record is in the logs just within, at and just outside the
tolerance. Pi-hole is asked for no more than `max_window_hours` (`reach`, in the code 24
hours, an override may say otherwise), so a longer window is always DEGRADED, and
`UndisturbedIsOk` speaks of those within reach. It also asks
that nothing failed or arrived, that no feed is longer than the pages a pull may fetch,
and that the window is `Filled`: the gates compare the span of what was received with the
window, so a quiet network is DEGRADED by design. `count != unique_count` cannot differ, as every source
counts what it made unique, and `min_expected_records` is 0, as in both sources; the
two gates are therefore not there. The sources run in the order of their names
wherever the code goes through its plugins one after the other (`registry.py:41-71`).

In `History` the daemon's first run, a second one and the ephemeral one make every
order of reading and writing the table and the files; a clash of two inserts leaves the
run by an exception, a kill leaves it at any step. The grace is one unit and the clock
goes to two, so a run can be within it, at it and beyond it. Rankings of two stand for
the 4000 domains and 500 addresses that `novel_clients` and `dns_anomalies` look at.

In `Analysis` each scene allows the incidents that one analyzer's decision depends on,
with thresholds of two or three where the code's are larger, so that one
below, at and above are all reached; the incidents of different scenes do not meet in
one run, but an analyzer sees all of them; the proofs are for scenes of any incidents,
mixed in any way. The limits of `query.py` itself
(40 clients, 100 devices or domains, 200 pairs of client and status, 1000 pairs of
addresses, 2000 domains with their clients, 5000 values, 20000 rows) are not reached and
not modelled; those the analyzers pass are constants and are, and so are the lengths of
three lists that name no total: the bypassing pairs (`BypassShown`, ten, where the
entities of the signal go to twelve addresses, the pairs' first six), the pairs of an
inbound signal (`InboundShown`, 20; its entities are the first eight) and the names of
an egress signal (`EgressShown`, 20; its entities are the first ten, and its title has
the count of all). What is told is what the list of the evidence holds. Shares are compared in whole per cents or
tenths, as products, where the code divides.

In `Canary` two runs are enough for what a token can carry over; the windows are one
where both patterns are too short, one where only the beacon is, and the default. In
`Daemon` clock and heartbeat age are finite by construction, so a behaviour is as long
as the daemon lives; period, slice and jitter are small numbers of ticks with a slice
that does not divide the delay and a jitter that covers other fire times; a write of the
heartbeat succeeds, fails and leaves the old file, or fails after it truncated the file, and
two failures in a row are as many as the health limit allows slices. In
`Investigate` three attempts make a second remainder of the ceiling, and three turns
leave room for the one format correction. In `Enrichment` the first call may ask for
one subject more than the budget covers, so it is cut, and the second meets a spent
budget, a filled or an expired cache; one enricher suffices for TLC because enrichers
share no state, and the proofs are for any number. `Asks` bounds which sets of subjects
a call asks for. The cache reads of one call are one step: what another process
stores between two of them only decides whether a subject is served from there.
In `Adjudication` three findings reach every threshold of `rollup`, and two
suppressions let one be made or removed at any point of a run that another takes
part in. The submissions ask for more than their signals allow, leave the rating
open, cite events alone or signals the run does not have, rest on reputation with
and without a changed baseline, or lack a title; the proofs are for any. A finding's
id is its place among the accepted ones, and an expiry is counted in days left.
`active_suppressions` gives the rows in no order, so any row that matches may be
the first.

Fairness. `RunPipeline` assumes that a worker inside `Runner.run` takes its next
step: every query, request and model call has a timeout, and the stages are
straight-line code. Nobody is assumed to start a run, to fail or to be killed.
`Collect` assumes the same of each pull, each thread's updates and the judgement;
that a service answers, recovers or stops growing is not assumed. `Daemon` assumes
that time passes, that the loop goes on and that a run ends. `Investigate` assumes
that the stage takes its next step; that the model stops asking for tools is not
assumed, the turn limit enforces it.

## Findings

Two runs end in a violation, each of a sentence of the repository:

* `canary_port`: the prober canary's token names port 22 (`canary.py:151`), so a real
  sustained probe of port 22 is marked as synthetic and hidden.
  `OnlyThePortHidesSignals` proves that nothing but a shared entity does this.
* `auth_outage`: a Pi-hole that rejects the password is classified as FAILED, the state
  of an outage. `verify.py:140` and `docs/ARCHITECTURE.md:363-364` say that
  authentication is never an outage, but the probe of `pihole_dns.py:283` carries no
  HTTP status for `verify.py` to see.

Seen while modelling, each at the line where the code and a document differ or where a
reader would expect something else. The models contain this behaviour.

Pipeline, daemon and self-test:

* `--stop-after verify` and `--stop-after investigate` are accepted (`cli.py:59-60`,
  `docs/ARCHITECTURE.md:1019-1020`) and ignored (`runner.py:202` and its siblings): the
  run goes on to the model and to the outputs. `StopPointsAreHonoured` leaves these two
  out.
* A failed run keeps the default of `runs.status`, GREEN (`schema.py:48`), so
  `dawnpatrol runs` never prints the ERROR that `cli.py:439` provides for it.
* A window under two hours (`config.py:405` allows one) fails both canaries and one
  under about 3 hours the beacon canary, with every analyzer working: the run is RED,
  which `docs/ARCHITECTURE.md:817-819` describes as proof of a broken pipeline.
* `CanaryRunner.tokens` is never cleared, so in the daemon a triggered run restricted
  to one source reports the other canary of an earlier run as not detected, while the
  same run in a fresh process reports nothing about it. `docs/components/canaries.md:10-16`
  calls the first outcome intended; `FailureIsExplained` names it as a cause.
* `DAWNPATROL_CANARY_EVERY_N_RUNS` is read and never used.

Model stage, broker and adjudication:

* The usage of an attempt that the ceiling or an unreadable reply ended is not in
  the sum the run reports (`harness.py:173-183`), which `runner.py:435-436` describes as
  "usage summed over every attempt"; after an unreadable reply the fallback's ceiling
  does not account for it either. `UsageAddsUp` keeps the books with the two amounts
  that are missing.
* The `remaining <= 0` branch of `_investigate` is unreachable with the three built-in
  providers, because an attempt that reaches its ceiling is stopped there; it takes
  a plugin that does not call `on_turn` (`Investigate!FailUnchecked`).
* A lookup that raises is not charged (`broker.py:129-142`), so failing requests are not
  bounded by the budget that `enrichment/base.py:4-6` calls impossible to exceed, which
  is why `RepliesWithinBudget` speaks of replies.
* `IsMaliciousEnricher.prefilter` lowers the case of a name, so a name asked for as
  `Example.com` is reported as prefiltered beside the answer for `example.com`, where
  `docs/components/enrichment.md:70-72` promises one result per input subject.
* `--days 0` is stored as no expiry at all (`store.py:514`) and announced as "expires in
  0 days" (`cli.py:408`), where `docs/ARCHITECTURE.md:774` speaks of a mandatory expiry;
  a misspelt `--max-severity` is stored and then ignored (`adjudicate.py:281-282`), so
  the suppression hides every severity, which is why `GreenHidesNoCritical` allows for
  suppressions nobody bounded.
* A finding asked for as SUSPECTED gets its strongest hint before the rule on reputation
  (`adjudicate.py:197-202`), so on a CRITICAL hint it is CRITICAL on reputation alone,
  where the comment at `adjudicate.py:213` says "CRITICAL requires local evidence of
  compromise, not reputation".

Sources:

* LibreNMS's `auth-check` probe counts devices, so while the API can be reached a probe
  has records and a dead log feed never becomes FAILED (`verify.py:138`), which the
  docstring of `self_test` (`librenms_syslog.py:833-838`) promises.
* A line with an IPv6 address is no SSH event at all, where the comment at
  `librenms_syslog.py:298-299` says that only the address stays empty.

Baseline and files:

* `entity_pairs_from_events` lowers a domain (`store.py:750`) and dnsmasq's lines are not
  lowered, so a name looked up in mixed case is "newly observed" in every run
  (`docs/components/signals.md:75` says "never seen before this run"); `OldIsQuiet` speaks of values
  that are stored in the form in which the analyzers ask for them.
* `ssh_failed` counts as a sighting of the account, so an account that was guessed
  before its first logon is never a new account.
* `last_successful_run` is the finished run that started last, whether it failed, was
  stopped or started after the one that asks.
* Rankings are cut before values are filtered: a rare new domain behind 4000 others and
  a new internal client behind 500 busier outsiders are not looked at. `NewIsAnnounced`
  is conditional on the cut.
* `--ephemeral` leaves `latest.*` behind when the formats have no JSON, or when a write
  failed before the JSON was written, where `docs/components/README.md:40` and
  `README.md:400-406` say that nothing is left. `CleanupIsExact` names both conditions.

Analyzers:

* An unknown user's OpenSSH attempt leaves two lines and counts twice in a burst;
  `AttemptsAreCounted` allows for a factor of two.
* The remote Windows logon looks at the newest 500 of all logons, those of services
  included, before it filters; an outside logon before them is not told of.
* A client's block rate is compared with a mean it is part of, so with fewer than three
  heavy clients nobody stands out; its NXDOMAIN rate is compared with the mean of the
  others (`dns_anomalies.py:360-364`), so a client alone is not looked at.
* Names under a suffix that is not in the list are lumped together, and mixed case splits
  one owner into two. The list is incomplete on purpose (`dns_anomalies.py:38`); `HidingIsTold`
  takes an owner to be what the list makes of a name and does not speak of such names.
* A prober's port is the one most of all its packets went to, dropped or not
  (`firewall_patterns.py:67-71`, `query.py:397-398`): one with 60 drops at port 22 and 100
  accepted packets to port 443 is reported as a prober of 443.
* A stray packet with a lower TTL and a gap hides a traceroute's ladder;
  `MAPPING_MIN_DESTINATIONS` counts pairs of destination and protocol.
* An internal scanner is missed behind 40 busier sources, outsiders included; the inbound
  check cuts to 50 pairs before it filters.
* A prober in a /24 that looks like a sweep is hidden as a member of it
  (`docs/components/analyzers.md:249` documents this); a stepped TTL is the range of a source's TTLs, not
  their order; an action "reject" is not a drop.
* The median of the drop spike is over hours that have drops, while its attribution is
  over all drops.

## What is proved

Every theorem is checked to the last leaf and holds for all values of the constants
that satisfy the named assumptions of the modules, which TLC evaluates in the runs.

`RunPipelineProofs`, for any number of runs, MCP workers, command line processes,
outputs and faults:

* `OwnershipInvariant`, `DaemonMutualExclusion`. Mutual exclusion is not inductive by
  itself: that a releasing worker frees only its own lock needs to know that whoever is
  between acquire and release holds it (`LockHeld`). `OwnRun` adds that a worker between
  entering and leaving `Runner.run` works on a run that belongs to it (`by`) and that no
  other worker in the pipeline has it; `Fresh` that a run id nobody used has left no trace.
* `RowsInvariant`, `RowsAreNeverOrphaned` on top of it, without `delete-run --force`: a
  run somebody works on has an open row, so an insert never meets a deleted run. With
  `--force` the property is false, which is what the option's refusal protects against;
  the theorem assumes `AllowForce = FALSE`.
* `PipelineImplementsLedger` on top of both: each action is a step of `RunLedger` or
  leaves its variables alone. `FinishedRunsAreFrozen` follows from the ledger's steps.
* `WholeInvariant`, `DeliveriesAreStored`, `CompletedRunsAreWhole`, with forced deletions
  too: for each place in `Runner.run`, what the run has stored by then, unless it
  was deleted, and which outputs it has asked.
* `TriggeredRunsNeverEmail` and `StopPointsAreHonoured`: `Quiet` and `Obedient` say how far
  a run may have come, given who started it and where it was asked to halt. The second
  assumes that nobody asks for the two stop points the code ignores.
* `DeletionsAreComplete`, with `AllowForce = FALSE`: `Clean` says what is still there of a
  run at each step of the clean-up, and that nobody who could write is left.

`EnrichmentProofs`, for any number of runs, enrichers and calls, any finite set of
subjects and any budgets and batch sizes:

* `BudgetIsABoundary`. The bound on `replies` is not inductive: a batch that comes back is
  charged without a look at the budget, because `_enrich_one` compared the whole list
  before. `BudgetInv` therefore says that what is charged and what is pending together
  fit into the budget.
* `NoDoublePayment`, from `PaidInv`: what a run found is in the cache, which other
  processes only add to and which is read before the first lookup.
* `EverySubjectIsAnswered`, from `CoverInv`: what is not answered is pending at the
  enricher the call is at.
* `RefusalsAreTheBudgets`, from `RefusalInv`: once an enricher refused a subject, its
  budget is what was charged, what failed in this call and what is pending (`Accounted`).
  A batch that raises moves from pending to failed, which keeps the sum because no
  pending subject has failed yet.

`AdjudicationProofs`, for any signals and hints, submissions, suppressions and bounds:

* `FindingsInvariant`, and from it `EscalatedFindingsAreSeen` and
  `CriticalFindingsAreLocal`. `Backed` is what `_rate` leaves behind of a finding
  (`RateIsBacked`, on `StrongestIsCited`): a rated one exceeds the hint of some
  signal it cites by at most a level, and on no more than reputation and a changed
  baseline it is CRITICAL only if a signal it cites is, which it can be when no rating
  was asked for.
* `StatusInvariant`, and from it `AlarmsAreEarned` and `GreenIsHonest`. A status
  speaks of the findings of its own run because it is given after the last change
  of them (`StatusComesLast`), and a positive count of `rollup` names a finding
  (`SomeAreRated`).

`InvestigateProofs`, of the self-test (`Canary`), for any ports, windows and number of runs:
`DetectionIsGenuine`, `BrokenAnalyzersShow` and `FailuresAreExplained` from
`VerdictInvariant`, which adds that what is injected are the applicable canaries of this
run and that each of them gets a verdict. `OnlyThePortHidesSignals` assumes that no real port is among the canaries'
entities, which is what `canary_port` shows to be needed.

`InvestigateProofs`, for any chain, ceilings, turns and costs: `NoCostIsCountedTwice`,
`OneCeilingForAllAttempts`, `TheChainStops`. The bound over all attempts needs
`WithinCeiling`, the bound of the running attempt against what the earlier ones left, and
`Ledger`, which says where each unit of cost is.

`DaemonProofs`, for any schedules, jitters and slices with a health limit of at least a
slice: `JobsStartOnTime` from `Aims` (what is left of delay and slice leads to a fire time
plus the jitter, modulo the period) and `WaitingDaemonsAreHealthy` from `Fresh` (age and
rest of the slice together never exceed a slice for each write that failed since the
last one that did not, and one more). A daemon is healthy as long as fewer writes in a row fail than
there are slices in the health limit, with the code's numbers 15, and none leaves the
file truncated.

`CollectProofs`, for any worlds, logs, page sizes and caps, faults, arrivals and
interleavings. The worlds are assumed to be ones the services can be in
(`InstancesAssumption`): LibreNMS lists each device once, the operator names none twice,
every record has one place in one log, Pi-hole serves the newest first, and its reach is
a whole number of hours, as it is in the code.

* `DirectoryImplementsItsPromise`, a refinement. Its invariant (`Exclusive`) says that the
  fields an update looked up as empty are empty until it fills them, because the lock
  keeps the other thread out.
* `OkIsWhole`, from `AccountsInvariant`. What a pull has and what it is short of are both
  inside one set that has no more records than the service reported (`Covers`); so a
  difference of counts, which is all `verify.py` can see, bounds the records that are
  missing (`MissingIsCounted`). That such a set exists is the invariant: for Pi-hole the
  window at the moment its count was taken, whatever expired later; for LibreNMS the
  union of what each device that is done served and had to give, whose sizes add up to
  the total. The pages themselves play no part in it, so capped, repeated and empty ones
  are covered with the rest.
* `FailureIsNoQueryFault`, from `ProbingInvariant`: as long as a service was never out of
  reach, the one probe that must find records was not made yet or has found them.
* `NoFalseAlarm`, from `SmoothInvariant`: while nothing disturbs a pull, the offset is
  the page number times the page size, what was seen is what was fetched up to the offset,
  and every device that is done is counted once. It holds for windows of any length;
  those beyond Pi-hole's reach are not `Filled` for it. `Window` is a recursive function, so that
  what the time filter leaves of a log can be proved by induction over the log's length.

`HistoryProofs`, for any number of processes, batches, clashes and kills:

* `CountsAreNeverInflated`, from `TableInvariant`. What a process read is not more than
  what was seen by then, and sightings only grow (`ReadIsBacked`), so a lost update makes
  a count too small, never too large.
* `NewcomersAreAnnounced` and `AcquaintancesStayQuiet`, from `NewsInvariant`. Both need
  to know how old a row is: one a run inserted carries the run's start until the run has
  asked about it, whoever updates it in between (`OnRecord`), and no row is younger than
  the commit that first recorded it (`RowsAreDated`). The first also needs that an
  analyzer that is not cut by `TopN` looks at every value (the lemmas on `Reportable`).
* `FirstSeenIsKept`: no step removes a row of the table or moves the time it was first
  seen, whichever of two processes writes last.
* `CleanupsAreExact`, from `FilesInvariant`: a clean-up that finds its run in
  `latest.json` wrote it (`MyLatest`), which says something about the other formats only
  if JSON is the last of them (`MyCleanup`); what another process did in between is
  excluded by `alone`.

`AnalysisProofs`, of the analyzers (`Analysis`), for any scenes, incidents, limits,
thresholds and profiles: what a report says, held against what happened.

The two inductive invariants are short. `Recorded` says that what happened are finitely
many incidents of the scene, each at a time that has passed; `Analysed` that a report,
once made, is what the analyzers may say of the events of all that happened (they may
order ties in any way). The work is in what follows from them: the lemmas go
from incidents to the lines they leave, from lines to the events of the parsers, and from
events to what an analyzer tells. An event can be traced to its incident and its
line (`Behind`), so the analyzers' counts are counts of incidents; where one incident
has two lines (an unknown user's guess, a lookup the gateway repeats) the count is
bounded by twice that. An induction over finite sets is a lemma without an operator
parameter (`SetInduction`, from `WFMin`), with which sums and folds can be reasoned about.

* `AttemptsCounted`: the attempts told of are those that took place, a burst is never
  missed and nothing counts more than twice.
* `ExternalLogonsReported`: a logon from outside is told of unless the newest ones filled
  the sample before it, and nobody is told of who did not log on from outside.
* `CrossingsTell`, in eight parts (`TracesTold`, `ScansTold`, `InboundTold`, `TransfersTold`,
  `BypassTold`, `EgressTold`, `ProbersTold`, `SteppingTold`). A query that keeps the n
  highest of a ranking misses nobody who has at most n as high as it (`CutHolds`), and
  the lists of bypasses, of accepted inbound pairs and of egress names, which are cut once more,
  hold all who are due while they fit in and are never empty otherwise (`LeadersAre`). A prober is told of
  once, by a port that no other port of all his packets exceeds (`ProbersDo`).
* `HidingTells`: the owner of a name that `Apex` finds is the one that registered it
  (`OwnersAssumption` is the definition of a registered name by the code's list of
  suffixes), so a client that asks for
  many names of one owner is told of.
* `WidestWindowTells`: the code sorts the falls and moves two ends over them. The
  induction over the sorted sequence keeps that the window holds exactly the falls
  near the newest one, that the counts are their tally, and that the best set so far is
  that of a widest window so far.
* `OutliersTell`, in four parts: clients by failing and blocked lookups, devices by falls,
  hosts by bytes sent, hours by drops. Who is far above all peers is told of, and
  nobody who is not far above enough of them. A median has half of the numbers on each
  side (by ranks), a mean compared as a product is a sum over peers, and both
  are by induction over the peers.

The assumptions are the types of the constants and, where a rule makes sense only then, a
bound the code's own values keep: a ladder that starts low has room
below the highest TTL looked at, a source is compared with some other, and an hour with
a median that is not its own (`TrafficAssumption`), floors are positive
(`LookupsAssumption`, `PatternsAssumption`, `LimitsAssumption`), and the gateway is an
address outside the segment it hides (`GatewayAssumption`).

Several of these properties were first stated too strongly, held in the scenes and could
not be proved, and now say what the code does: a bypass needs an approved resolver to be
configured; the limit of the sweep query can leave a scanner's subnet unseen, so
its members are told of as probers; only the trust value `trusted` spares a network; an
egress name is spared when it is below an expected or benign one; more falls than the
sample leave the widest window open; and a client is a peer only if a log tells of it
(`Askers`), which behind the gateway need not be the one that asked.

Only model-checked: liveness, which is out of the prover's reach, as is the `ENABLED` in
fairness (`OpenRunsClose`, `LockIsReleased`, `StageEnds`, `SchedulerKeepsGoing`,
`StopEndsTheProcess`, `EverySourceIsJudged`). Every invariant and action property that a
passing run checks has a theorem. `RealSignalsSurvive` and
`AuthIsNeverAnOutage` are false and have runs that show it.

## Not modelled

What an event, a metric, a finding or a report says beyond what a decision depends on;
prompts, the evidence bundle, rendering, transports, SQL text and its guard, and the
patterns that recognise a log line; configuration, read once at start; time zones and
clock changes in `croniter`; the watchlist, the notebook and the read-only commands and
tools; authentication of the MCP server. Of the analyzers, correlation but for internal
scanning, VPN restarts, Defender detections, watchlist hits, comparison with earlier
metrics and time-of-day metrics. A write of the heartbeat that succeeds is one step, so the torn read of a health check
between truncation and write is not there; two `cache_put` of one subject are serialised
by the database. After a stop signal the interpreter lets a triggered run start no new
pool threads; in `RunPipeline` this is a failure of the collect stage, like any other.
`PROJECT.json` gives the reason per component.
