# EquiSeek in TLA+

A verification project kept beside the EquiSeek code (Python package
`aegisrun`, under `src/src/aegisrun/`). It contains TLA+ modules translated from the
source, TLC configurations that check them on small instances, and theorems
about them whose proofs TLAPS checks. `PROJECT.json` maps every definition that
models code to the lines it models, and lists runs, mutants, findings, hazards
and theorems. Paths below are relative to `src/src/aegisrun/` unless they start
with `src/`.

    tlc -workers 2 -config MCRunLifecycle.cfg MCRunLifecycle.tla
    tlapm RunLifecycleProofs.tla

## 1. The system

EquiSeek is two programs over one set of libraries.

* **The API deployment** runs *issue-triage runs*. A FastAPI process creates,
  cancels and approves runs; one or more worker processes claim them from the
  database under a lease, and advance each by one step at a time. Database rows
  are the only shared state. The product truth of a run is its row.
* **The desktop product** (Electron shell, Python *sidecar* over stdio) runs
  investment research. The sidecar drives *runs* in the background: an agent run is a
  bounded model/tool loop over market data, macro data and the user's portfolio, a
  research or macro run is a fixed plan of tasks. A lead agent can decompose a
  question into an execution plan whose tasks are delegated to sub-agents.
  Everything is recorded in JSON files and append-only event logs.

### Components

| component | state | operations | what makes it correct |
|---|---|---|---|
| run rows, leases (`persistence/`, `core/domain.py`) | status, terminal reason, lease owner and expiry, phase, plan, budget usage, event counter; approval and invocation rows | create, claim_next, transition, decide, append_event | status moves along the allowed transitions, one owner, terminal is final, a decision is taken once |
| worker and step machine (`runtime/worker.py`, `runtime/issue_triage.py`) | the claimed run id and `PreparedToolCall`, between two transactions | execute_claimed, _advance, _execute_prepared, _fail_prepared | a late result is dropped; an interrupted side effect is not replayed; row, plan, journal agree; every run ends |
| budgets, invocation journal (`tools/budget.py`, `tools/invocations.py`) | counters; one row per idempotency key | consume_*, begin, mark_running, complete, mark_unknown, fail | the journal says *running* before the tool starts; retries use budget up |
| API (`api/app.py`) | none of its own | create, cancel, decide, event stream | races with workers leave a consistent row |
| execution plan (`orchestration/models.py`) | task statuses, attempts, approvals, plan status | 14 methods and the revisions | a DAG; dependants wait, then run or are skipped |
| subtask executor (`orchestration/executor.py`) | the plan object, `plan.json`, coroutines | execute, approve | journaled before the handler; attempts used; no replay of side effects; returns settled; ends |
| event store and invariants (`harness/events.py`, `harness/invariants.py`) | `events.jsonl`, the cached tuple | append, load, flush | continuous sequence; what is acknowledged is durable; an appended log loads again |
| lead agent, delegations (`agents/runtime.py`, `agents/subagents.py`) | delegation ledger, one-shot children and their monitors | start/resume session, delegate, settle, cancel, dispose | the ledger never claims more than the stream shows; attempts do not overlap; a dead session resumes |
| continuable children (`agents/continuable.py`) | per child: lock queue, activation, counters | create, followup, report, settle, restore | follow-ups in order, none twice; a restore leaves no turn open |
| sidecar runs (`sidecar/`) | run records, drive tasks, event queues, history file | start, drive, cancel, delete, history refresh, shutdown, reload | a run ends in one terminal status that reaches queue and file; every request is answered |
| conversations (`agents/investment_conversation.py`) | one file per thread | append, compact, delete, list | answers belong to questions asked there; no turn lost from the count |
| investment agent, loop harness (`agents/investment_runtime.py`, `harness/loop_control.py`) | observations, plan items, promoted tools, the event stream | steps, tool calls, plan updates, closing | bounded; a portfolio write happens once; the stream is closed |
| tool pipeline (`tools/pipeline.py`) | the stream, a group of calls | execute, execute_batch | on record before it runs; outcomes in order; one result per call |
| stock research (`research/`) | the shared state of a plan's tasks; bars | pipeline, signals, backtest, advice, outcomes | nothing unchecked is returned; no look-ahead; books balance |
| market data (`marketdata/`) | SQLite cache of bars and covered ranges | load, gaps, fetch, extend, rebuild; resample; indicators | one basis, no hole; only finished weeks and months |
| macro research (`macro/`) | snapshot file, verdicts in the process | load, verify, overlay, analyse, allocate | no conclusion from superseded data; shares add up and follow the scores |
| portfolio screen (`portfolio/`) | strategies, positions file | rank candidates | never lists what the rules say to leave |
| capabilities, skills, sandbox, artifacts, checkpoints, telemetry, CLI, desktop shell | files and processes | I/O | outside the models |

Interactions: API and workers meet only in the row (status, lease, plan); the
step machine calls the journal, the budget and the plan inside one transaction,
and the tool outside any. The lead agent calls the executor, which calls back
into the agent's handlers and the event sink; the executor and its coroutines
share one plan object and one file. The sidecar's requests and its drive tasks share
one event loop, the registry and the conversation files; the investment run calls the
tool pipeline, both append to one stream whose lifecycle check may refuse either.
Fetches of market data run in threads and meet in the cache; runs of one process
share the macro verdicts.

Hard behaviours: lease expiry with a late worker; death between two
transactions; a cancel or a decision at any point in between; identical worker
ids; exceptions that leave by a path that does not update the plan; coroutines
that go on after their gather has raised; an event sink that fails half-way; a
crash at every await; a cancellation that arrives inside a clean-up; a finally
clause that writes to a log which refuses it; fetches that overlap across a change of
the vendor's price basis; verdicts read after midnight. `PROJECT.json` "hazards" lists
them at their lines, also those no property covers.

## 2. Modules

### `ExecutionPlan` - the plan as a value

Each method of the Python class is an operator from plan to plan, with a
`Can...` operator where the method raises. It has no variables: `RunLifecycle`
instantiates it with the seven triage tasks, `SubtaskExecutor` extends it for
any DAG. The fixpoint loop of `_skip_blocked` is the least set closed under
"failed, or pending on a member" (`Contagious`), which needs no recursion, so
the module can be proved about. Left out: timestamps, summaries, results,
versions, recovery counters, and `revise`, `recover_from_failure`,
`wait_for_approval` and `skip_task`, which neither of the two drivers calls.

### `RunContract` - what a client is promised

The abstract specification: public status, decision, number of patch writes.
The patch is written at most once and only after an approval; success implies
it was written; decisions are taken while the run waits, once; terminal states
are final. It has no worker, lease, phase, plan, journal or budget.

### `RunLifecycle` - the API deployment

One action per committed transaction, tool execution or environment event.

| code | actions |
|---|---|
| `RunRepository.create`, `claim_next` | `CreateRun`, `ClaimNext` |
| `execute_claimed` + `_advance`, by outcome | `AdvanceRefused`, `AdvanceOverBudget`, `AdvanceBroken`, `AdvanceLoadSkill`, `AdvanceFinish`, `AdvanceAskApproval`, `AdvanceCached`, `AdvanceUnknown`, `AdvancePrepare` |
| the tool, outside any transaction | `RunTool` |
| second transaction of `_execute_prepared`, `_fail_prepared` | `ResultRefused`, `CompletePrepared`, `OutputOverrun`, `FailPrepared` |
| endpoints | `CancelRun`, `Approve`, `Reject` |
| environment | `Crash`, `Restart`, `LeaseExpires` |

Row fields keep their names (`status`, `reason`, `owner`, `lease`, `phase`,
`plan`, `inv`, `approval`, `turns`, `repeats`); `pc`, `job` and `prepared` are what a
worker remembers and may be stale; `effects` counts writes of the patch.
Transactions are atomic because the code takes the row `FOR UPDATE`: this is the
PostgreSQL deployment. SQLite ignores the row lock; the documentation confines it
to one worker. Exceptions inside `_advance` abort the plan the row holds, which is
why `AdvanceBroken` has several outcomes; one that also breaks the handler ends
the process, which is `Crash`. Wall time is a budget overrun that may strike at
any step, since time spent waiting for the approval counts. Other tools than the
patch are repeatable, so only its writes are counted.

### `SubtaskExecutor` - plan execution in one process

An action is the code between two awaits. A coroutine of a wave waits in
`queue` for the limiter, then moves through `pc`: in an emit before an early
return (`reporting`), between `start_task` and the handler (`starting`), in the
handler before and after its work (`handler`, `acted`), in the emit after it
(`ending`). `plan` is the shared object and `disk` is `plan.json`, written whole
and atomically. `exec` follows the current call. When a coroutine raises, `exec`
becomes `raised` and the others go on, as `gather` without `return_exceptions`
does. Cancellation touches neither plan nor file. `Act` is external: whatever
the handler does. `Load` uses `PlanFileStore.load`, which nothing in `src/src` calls
after a crash yet (the tests do); it is the recovery `recover_interrupted` is for.
After a call that raised or was cancelled, the only caller drops the plan object;
the model therefore calls `execute` again only after a return or a reload.

### `EventStore` - the append-only log of a desktop session

`file` and `torn` are `events.jsonl`: the complete lines, and whether an incomplete
one follows. `events` is the store's copy (`_events`), `line` the queue at its
`asyncio.Lock`, the holder first. `append` is `Call`, `Load` (the first time), `Write`,
which sends a thread off, and `Finish`; `Refuse` and `Raise` are its exceptions.
`ThreadEnds` and `ThreadFails` are `_append_sync` in its thread: after a `Cancel` the
thread may still be there (`threads`) while its client is gone, unless it was
still waiting for a worker of the pool. A failing write stops before the line,
within it, or at the fsync after it; a line written after an incomplete one continues
it, and no event can be read from the result (`NoRecord`). `Reopen` is a new
store on the same file, which `agents/runtime.py` opens for every execution; `Crash`
ends the process. An event is its number in the order of calls. The session
invariant is continuity; the lifecycle invariants and the size limit are a
candidate that may be refused, or a write that may fail, at any time.

### `Conversations` and `Sidecar` - the desktop process

`Conversations` has the thread file as a value: appending, compaction by characters,
the count of folded turns, and the limit on turns that only loading enforces.
`Sidecar` adds the process. The server reads one request at a time (`op` is the one it
waits on: a cancel, a history refresh, a shutdown); each run is a row with its `_drive` task
(`task`: executing, unwinding after a cancel, joining its report tasks, done), its
event queue, and its entry in `history`. Requests that await nothing are one step.
`Report` and `EmitReport` are the two halves of a progress report; `Interrupted` is what
`task.cancel()` does at each await. `Crash`, `Exit` and `Restart` keep the files only.
What `execute` does inside is `InvestmentRun` or `ResearchPipeline`; here it
returns, raises or is cancelled. Texts are lengths, results are outcome marks.

### `SessionLog` and `AgentSession` - agents over one stream

`SessionLog` is `LIFECYCLE_INVARIANTS` as one operator, `Accepts(log, event)`, and the
part of the projection a resume reads. `AgentSession` is what writes agent lifecycles to
such a stream: `LocalAgentRuntime` opens or resumes the session (`Boot`, `Execute`,
`StartSession`, `StartRefused`), delegates a task's attempts to one-shot children (start, work, monitor, ledger,
`CancelDelegation`, `Disposed` or `DisposeTimesOut`), and `ContinuableSubagentManager`
takes follow-ups and settlements through a child's lock. An append is one step that
commits, is refused by `Accepts`, or is lost to a failed write or a cancelled wait
(`StartLost`, `SettleFails`, `AppendLost`); what happens inside an append is `EventStore`'s
subject. `Crash` keeps stream, ledger and attempt counters, and `Restore` rebuilds a
child from the stream: its counters are those of the events (`Restored`), and the turn whose
start is still open (`OpenTurns`) is ended by its own id. That id is, in the code, a hash of
child, follow-up and turn number, so in `SessionLog` a turn is follow-up and number together
(`OfTurn`): the number alone comes again after a restore, when a lost `turn-started` had set
the manager's counter ahead of the stream.

### `LoopHarness`, `ToolPipeline` and `InvestmentRun` - the investment agent

`LoopHarness` is the plan, the promoted tools and the repetition counter as a
record, one operator per method. `InvestmentRun` is `run()`: events are appended one by one
from `todo`, and at each await the run may be cancelled or the write may fail;
`Cancel`, `Raise` and `Failed` are its exception paths, `Finish` the finally clause. A model
may choose any tool, arguments or plan, answer, ask back or break; without a model the
planner wants a fixed sequence of tools. The lifecycle check of `SessionLog` runs
on every append. `ToolPipeline` is `execute_batch`: groups of safe calls, preparation with
policy decisions, concurrent invocation, recording in order, cancellation and lost
appends. The batch has no caller in `src/src` besides its tests, so it is composed with the
run only in `MCInvestmentRun`, side by side.

### `Timeframes`, `Signals` and `Backtest` - what a price path says

`Timeframes` resamples daily bars (the k-th period runs from one opening to the bar before the
next, `Openings` and `Closing`) and says which weekly and monthly bar is complete. `OrderedSets` is the one
helper it shares with the cache: the i-th of a set of numbers. `Signals` computes MACD and Williams %R in fixed point, crosses and top structures, direction, action and
score. `Backtest` closes one bar after the other, judges each day with the window that
ends there (`Seen`), executes at the next open, and keeps the books with exact
fractions; `BooksOf` is the whole walk, day by day. The analyzer is a parameter (`Analyzer`); the
run passes `Analyze` of `Signals`.

### `MarketCache` - the local cache of bars

One series under concurrent `fetch_daily` threads: each SQLite transaction is an action. A
bar is its price basis; the vendor changes the basis of all earlier bars on an
ex-dividend day (`Rebase`), refuses requests or breaks. Rebuild, refused ranges that count as
covered, and the request extended by one cached bar to compare (`GapRequest`) are the code's.

### `ResearchPipeline` - the two fixed research plans

The stock and the macro plan over one shared state object: which fields a task reads and fills,
which wave it runs in, and what happens when one fails, times out or the guard
refuses a text. Fields are there or not; `unsafe` marks texts the guard would refuse.

### `Screening`, `MacroAllocation`, `MacroFreshness`

`Screening` follows one candidate from its analysis through the sector context, the advice and the
platform's and the user's filters; frame and wave states are produced by `Signals`' operators.
`MacroAllocation` is the arithmetic from macro scores to percentages, exact, with
releases that change one score at a time. `MacroFreshness` is the life of a snapshot: loaded
live or from the fallback file, verified against the sites page by page, its verdict
remembered per snapshot in the process, and used for an overlay, over several days, with
several runs, failures and restarts.

### The MC modules

`MCRunLifecycle`, `MCSubtaskExecutor` and `MCEventStore` give constants: who shares an id;
the DAG and the attempt limits. `MCSidecar` names an agent run and a research run.
`MCAgentSession`, `MCInvestmentRun` and `MCResearch` explore parts that share no state side by side
instead of times each other: `focus` says which part a behaviour is about. They extend the modules
theorems are about, so that their runs evaluate the assumptions of these: `MCInvestmentRun` extends
`InvestmentRun` and `ToolPipeline`, `MCResearch` extends `Screening`, `MarketCache`, `MacroFreshness`,
`ResearchPipeline`, `MacroAllocation` and `Backtest`, to the last of which it gives the program's
analyzer over a calendar scaled down. The assumption of `Backtest` is the definition `WalkAssumption`,
which `MCResearch` assumes and the theorems have as their hypothesis.

### The proof modules

`RunLifecycleProofs`, `SubtaskExecutorProofs`, `EventStoreProofs`, `AgentSessionProofs`,
`SidecarProofs`, `InvestmentRunProofs` and `ToolPipelineProofs` each extend their model;
`ResearchProofs` extends the research modules, whose proofs share their lemmas about sets, bars and
walks (section 5).

## 3. Properties and runs

| run | instance | properties | result |
|---|---|---|---|
| `lifecycle` | 1 run, 2 workers with own ids, 10 turns, 8 calls, 3 repeats | `PreparedIsCurrent`, `PlanFollowsPhase`, `NothingGoesBack` | holds, 77,680 states |
| `lifecycle_shared` | both workers under one id, 9 turns, 6 calls, fair | `PatchAccounted`, `ContractSpec`, `RunSettles`, `ApprovedRunEnds` | holds, 44,147 states |
| `lifecycle_interrupted` | as `lifecycle` | `InterruptedEffectIsUnknown` | violated (finding 1) |
| `executor` | 4 tasks, limiter 2, 2 crashes, refusing sink, fair | `HandlerIsJournaled`, `SideEffectOnce`, `ReturnsSettled`, `ExecuteEnds` | holds, 52,678 states |
| `executor_retry` | 2 tasks in one wave | `RetriedUpToLimit` | violated (finding 2) |
| `event_store` | 3 clients, 4 appends, 1 crash, 1 failed write, fair | `AckedAreKept`, `Replayable`, `AppendEnds` | holds, 85,570 states |
| `event_store_cancel` | 2 clients, 3 appends, no crash or failure | `LogStaysReplayable` | violated (finding 3) |
| `sidecar` | 1 agent and 1 research run, 1 thread, 4 turns, 1 crash, fair | `HistoryIsCurrent`, `EventsEndOnce`, `AnswersBelong`, `TurnsAreCounted`, `ServerReturns` | holds, 129,408 states |
| `sidecar_cancel` | the same without a crash | `EndedRunsAreSettled` | violated (finding 4) |
| `session` | 1 task with 2 attempts, or 1 child with 3 messages; 1 lost append, 1 crash, fair | `LedgerIsBacked`, `AttemptsDoNotOverlap`, `TurnsAreFifo`, `OnlyTurnsBlockResume`, `DisposalEnds`, `RestoreEndsTurns` | holds, 540,951 states |
| `investment` | 4 tools, 2 steps, 1 failed write; or a batch of 4 calls | `UndisturbedRunReturns`, `WriteOnce`, `BatchIsOrderly`, `PlanIsOrderly`, `RunEnds` | holds, 109,493 states |
| `research` | 10 bars of 2 shapes; 2 fetchers over 5 days; both plans; 4-valued scores; 4 days of releases | `NoLookahead`, `BooksBalance`, `NoRepaint`, `SeriesIsWhole`, `ReturnedIsChecked`, `UndisturbedResearchReturns`, `ScreenIsSafe`, `PlansAreWhole`, `OverlayIsFresh`, `SharesFollowScores` | holds, 754,384 states |

What they show:

* **The lease fences when ids are distinct** (`PreparedIsCurrent`,
  `NothingGoesBack`): a worker that passes the owner check after its tool still
  speaks about the phase, the invocation and the task it started, and nobody
  else holds the same right. A run never goes back a phase, and nothing moves after its
  end, whatever arrives late.
* **The journal protects the patch even when it does not.** `worker_id`
  defaults to the same string in every process. Under a shared id `PreparedIsCurrent`,
  `NothingGoesBack` and `PlanFollowsPhase` fail (so they are not in
  `lifecycle_shared`), but `PatchAccounted` and the client's contract hold.
* **Double bookkeeping stays in step** (`PlanFollowsPhase`): phase, plan, approval and
  journal. That the terminal reason agrees as well (`UnknownIsReported`) is left to its proof.
* **Runs end.** Each step of `_advance` that leads anywhere uses a model turn,
  so a crash loop ends in `budget_exhausted` at the latest.
* **The executor's file is ahead of every handler** (`HandlerIsJournaled`), so
  a single-attempt side effect happens at most once over any number of crashes
  (`SideEffectOnce`), and a call that returns has settled and saved the plan
  (`ReturnsSettled`).
* **What `append` has returned is kept** (`AckedAreKept`) and is in every log a
  store loads afterwards: a log that lost a line is refused, never
  shortened. The file stays in sequence as long as no append is cancelled behind its
  thread and no write fails (`Replayable`). Both conditions are needed: finding 3 is what
  happens without the first, and a failed write leaves a line that the next append
  repeats or continues. No way out of `append` keeps the lock (`AppendEnds`).
* **The desktop's records agree**: the history file with the registry after every step
  (`HistoryIsCurrent`); a run's queue with its status, the terminal event last
  (`EventsEndOnce`); answers with the thread they were asked on, through deletion of the
  thread and restarts (`AnswersBelong`); the displayed count of turns through compaction
  (`TurnsAreCounted`). The requests that wait for tasks return (`ServerReturns`).
* **Delegations are backed** (`LedgerIsBacked`), **attempts do not overlap** unless a
  disposal timed out (`AttemptsDoNotOverlap`), follow-ups are FIFO (`TurnsAreFifo`), and a restored
  child is in no turn (`RestoreEndsTurns`), so that the next follow-up can be worked on. A resume is
  refused over a continuable child that died in a turn, and over nothing else
  (`OnlyTurnsBlockResume`): the code does have that state.
* **An undisturbed investment run closes its stream** (`UndisturbedRunReturns`), whatever
  the model answers; a portfolio write happens once although the planner decides anew at
  every step (`WriteOnce`); the plan shown stays orderly (`PlanIsOrderly`); every run ends
  (`RunEnds`). Cancelled inside a step or after a lost write it may end with the
  invariant's error instead of its own: the premise of the property names those cases.
* **Batches are orderly** (`BatchIsOrderly`): on record before they run, alone unless safe,
  every outcome at its call's place although refused calls leave gaps in the group.
* **The backtest sees no future** (`NoLookahead` compares the report with the one any other last
  bar would have given; `NoRepaint`: a weekly or monthly bar that an analysis used is used again,
  unchanged, by every later analysis whose window holds its period whole) and
  **its books balance** (`BooksBalance`).
* **A cached series is whole** (`SeriesIsWhole`): one basis, no hole, as long as no two
  fetches overlapped; with overlap the code can mix bases.
* **Research returns only what the guard passed** (`ReturnedIsChecked`), and returns whenever
  nothing disturbed it (`UndisturbedResearchReturns`), in every order of its tasks.
* **The screen is safe** for every strategy (`ScreenIsSafe`); **allocations** add up, keep the
  profiles in order and follow the scores (`PlansAreWhole`, `SharesFollowScores`); **an
  overlay** does not come from a snapshot superseded two days before (`OverlayIsFresh`). Two
  and not one: a verification that straddles midnight counts for the new day, and a
  release of the snapshot's own day is not seen as newer.

### Findings

1. `src/docs/architecture.md:20` promises that interrupted side effects become
   `unknown_outcome`. If the worker dies in `apply_patch` and the user cancels
   before the next claim (or that claim runs into a budget or an internal
   error first), the run closes with the invocation `running` for ever.
2. `src/docs/orchestration.md:11` promises retries up to the limit. A failing
   task with attempts left is not retried when another task of its wave has
   meanwhile failed for good: `start_task` raises `ValueError`, because a
   terminal plan has no ready tasks, and the exception leaves `execute`.
3. `src/docs/architecture.md:48` describes a log whose continuous sequence is
   validated. `append` validates its copy in memory. If it is cancelled while its
   thread writes, the line reaches the file and the copy does not know it; the next
   append of the same store reuses the number, and the next load refuses the whole log.
4. `src/tests/unit/test_sidecar_runs.py:49` says a cancelled run has an explicit terminal
   state. A cancel that arrives while `_drive` gathers its progress reports leaves
   `_drive` through the gather: no status, no event, no entry in the file; the run stays
   `running` until the process ends, and then it is gone.

### Bounds, and why they are enough

One run: no transaction reads two runs (`claim_next` picks one row and skips
locked ones), and a worker holds one at a time; several runs only interleave. Two
workers: a stale one and a current one; fencing, replay and double ownership
need no third. The shortest successful run takes 8 turns and 5 tool calls, two of them
`run_tests`; 10, 8 and 3 leave room for two retries, so that a
retry succeeds and a retry exhausts each kind of budget. The budgets are the only
thing that bounds the state space; crashes and lease expiries are unbounded. For
liveness 9, 6 and 3 leave one retry. In the executor, tasks `a`, `b`, `d` start together
and `c` joins `a` and `b`: between them they cover retry, side effect,
approval before and after dependencies, and a missing handler. `MaxCrashes` = 2
reaches a crash during the recovery of a crash; the counter exists because each
reload permits another attempt. In the event store, one client writes, one
waits and one comes back; four appends are enough for a cancelled one, one that
collides with it, and another on either side of a reload. Each crash or failed
write is one disturbance, and one of each also shows them together.

In the sidecar, runs meet in the history file, the request being served and a thread: one run
that writes to the thread and one that does not cover these; the queue of two events and
the history of one run overflow, four turns make the thread compact twice and
outgrow `MaxStored` = 3. In the session, two attempts are the overlap, three messages and a restore the
order: a turn whose start is lost, one the crash interrupts, and one that takes its number again; tasks and children meet only in the stream. In the investment run, two steps are a
step before and a step after a failure; the four calls of the batch make a group of two, a
call alone and a repeated id. In research, months have one or two trading days and the moving
averages spans 1 and 3, so that ten bars reach crosses, tops and trades, and the window of six slides over them; the cache's five days
have a holiday in the middle, so that there are refused ranges, gaps before, after
and between; each price basis and each release is one disturbance. The grid of scores has the
limits of every rule and the values next to them. One site and one failed answer stand for the
code's four sites and three answers needed; two runs in one process were also checked, with
the same result, and take three times as long.

Deadlock is checked for the sidecar, which is always ready for a request; elsewhere finished runs
and plans really stop.

### Fairness

`RunLifecycle!Fairness`: workers run `while True`, die and are restarted by
their supervisor; leases expire with the clock. Claiming and advancing get
strong fairness - a worker that comes up again and again is not killed
before every poll, and one that gets the lease again and again some day commits
before it expires - because deaths and expiries may disable them infinitely
often; the steps inside a process that is up get weak fairness. Nothing is
assumed of clients, so a run may wait for its approval for ever, and the properties
say so. `SubtaskExecutor!Fairness`: the event loop runs every ready coroutine,
and every handler ends by itself or by `wait_for`'s timeout; neither the sink's
failures nor cancellation nor crashes are assumed to happen. `EventStore!FairSpec`:
the event loop goes on with a client that can go on, and a thread's write ends.
`Sidecar!Fairness`: report tasks run, a cancelled `execute` finishes its finally
clauses, a history fetch returns or raises; nothing is assumed of an `execute` nobody
cancelled, nor of requests. `AgentSession!Fairness`: the monitor of work that ended runs, cancelled work
ends, a delegation whose child has settled goes on; a continuable child's lock is handed on
and its turns end. One-shot work nobody cancelled may go on for ever, and nothing is assumed
of a disposal's timeout. `InvestmentRun!Fairness`: an append ends one way or another, and the
loop, its closing and its return go on; models and tools end, as their timeouts make them.

Each property has a mutant in `PROJECT.json`: a plausible bug in a
mapped definition under which TLC finds the property violated.

## 4. Abstraction

Data is kept to what control depends on: a tool result is "returned" or
"raised"; a phase is its name; arguments, hashes, policies, artifacts, event
payloads and messages are left out. The policy snapshot always lists
`apply_patch` under approval, as `api/app.py` creates it. The event rows of the
database are not modelled. Prices are small integers, averages fixed point, capital an exact
fraction, percentages twentieths: the code's floats can break an exact tie of the rounding the
other way, which changes a percentage by one. Conversation texts are lengths;
research fields are there or not; a candidate is its frame and wave states; a snapshot is its
date, what it knows and whether it carries the fallback's warning.

## 5. What is proved

For every set of runs and workers, any assignment of worker ids, any budgets,
under the ASSUMEs of `RunLifecycle` (the two null values are distinct from real
ones, the budgets are naturals):

* `TypeCorrect`: `Spec => []TypeOK`.
* `PatchAccountedAlways`: `Spec => []PatchAccounted`. `PatchAccounted` with
  `TypeOK` is inductive. The contract alone is not: that the patch is written
  once depends on who has it in hand. The invariant says so - at most one
  worker, approved, nothing written while it has not run - and ties the count
  of writes to the journal (`absent`/`pending`: none; `succeeded`: one) and the
  phase. The key step is `AdvancePrepare`: the journal's `running` is set in
  the transaction that hands out the patch, and `Interrupted` refuses to hand it
  out again. No use is made of the lease, which is why the theorem covers shared ids.
* `ContractHolds`: `Spec => ContractSpec`, the refinement, step by step
  (`ContractStep`): each action is an action of `RunContract` or a stutter, with
  the approval row as the decision.

With the worker ids pairwise distinct in addition (`Unshared`, the hypothesis of each of the
four; under a shared id three of them fail), the second half of `RunLifecycleProofs` proves every
other safety and action property of the run machine:

* `PreparedStaysCurrent`, `PlanAlwaysFollowsPhase`, `UnknownAlwaysReported`: `Spec => []...`;
  `NeverGoesBack`: `Spec => NothingGoesBack`.
  The invariant is `Invariants`: types, `PatchAccounted` and `Fenced`. `Fenced` says of a worker
  with a tool in hand and the lease still its own that the row is as it left it (`Held`). The
  argument is the fencing argument: phase and plan of a row change only in a transaction that
  passed `Owns`, and a lost lease comes back only through `ClaimNext`, which takes a worker that
  holds nothing. `RowFollows` ties phase to plan; it is about the plan library, so the
  lemmas compute what each plan method does to the chain of tasks. A failed task has one attempt
  and therefore closes the plan.

For every DAG, policy, limiter and number of crashes, under the ASSUMEs of
`SubtaskExecutor` (attempt limits and concurrency positive, dependencies and
flags within the tasks):

* `TypeCorrect`: `Spec => []TypeOK`.
* `HandlersJournaled`: `Spec => []HandlerIsJournaled`. Inductive with `TypeOK`:
  an operation on one task leaves a *running* other task running
  (`OthersKept`), and every save writes the whole plan.
* `SideEffectsOnce`: `Spec => []SideEffectOnce`, by the stronger invariant `OnceInv`:
  for a single-attempt side effect, a plan version (memory or file) that
  shows no attempt means no effect, a second attempt is impossible, and recovery turns
  *running* into `unknown_outcome`, never into `pending` (`RecoverKeeps`).
* `ReturnsAreSettled`: `Spec => ReturnsSettled`, under `DagAssumption` (there are tasks, and their
  dependencies have no cycle, as `ExecutionPlan.create` validates) in addition, by `SettleInv`. It rests
  on the plan library having no dead end (`Sound`): a plan with status pending or running has a task that
  runs or can be started. Of the tasks not yet succeeded one depends on none of the others
  (`RefreshSound`). While a call runs, what the plan calls running has a coroutine (`Manned`), so a
  call that finds no coroutine and no ready task finds a plan that has ended or waits.

For every set of clients and every number of appends, crashes and failures, under
the ASSUME of `EventStore` (the bounds are naturals): `TypeCorrect`,
`CacheStaysInOrder`, `FileStaysReplayable` and `CacheMirrorsFile` follow
from one invariant, `IInv`. Continuity of the file is not inductive: that the next
line has the right number depends on the number its writer took before it left for
its thread. `Locked` says that whoever is past the load has the lock and the number
after the copy's last, so that there is one such client (`OneBusy`); `Undisturbed`
says that without stray threads or failures each thread works for a client that
waits for it, and the file is the copy plus the line of an append about to return.
`OthersLeave` is the one fact about the queue: who leaves it does not move its head.
`AckedStayKept` (`Spec => []AckedAreKept`) adds `AckInv`: what was acknowledged is
in the copy while there is one, and in the file as far as no write failed; the file alone is not
enough, since a load must also be known to bring all of it back.

For any number of tasks, attempts, continuable children, messages, lost appends and deaths,
all at once over one stream (TLC explores delegations and children one beside the
other, not together), under the ASSUME of `AgentSession`:

* `LedgerAlwaysBacked`, `AttemptsNeverOverlap`: `Spec => []...`, by the invariant `Delegations`. A
  published result has its event (`ResultCommitted`), and events are never lost from
  the stream (`StreamGrows`), so what the ledger copies from it is backed. `WorkAccounted`
  says where unfinished work may be: with the current attempt while that is being
  delegated or disposed of, or among those a timeout left behind. A retry needs the
  delegation to be over, so it finds either no work or work that is left behind.
* `TurnsStayFifo`: `Spec => []TurnsAreFifo`, by `Turns`: what has run, the message under the
  lock and the line waiting for it are one increasing sequence below the number of
  submissions. A crash drops the end of it, a settlement stands for no number. Nothing is
  assumed of the numbers of turns, which may come again.
* `RestoresEndTurns`: `Spec => RestoreEndsTurns`, by `TurnLog`: behind the start of a turn, the
  stream has no start or end of the same child's turns before that very turn has ended. Every step
  keeps it because every such event passed the check (`TurnsChecked`, `TurnLogStep`). So at most the
  last start is open, and it is the one restore has kept: its end is accepted, and then none is (`RestoreEnds`).
* `ResumesAreAccepted`: `Spec => []OnlyTurnsBlockResume`, by `ResumeInv`. A resume ends the children
  its projection calls running; the check accepts each end because a one-shot child starts once
  and ends after that (`Lives`, `RunningIsOpen`), nobody but a continuable child writes while the
  session opens (`Quiet`, `PendingKept`), and what is still to be appended names each child once.

For any runs, conversations, sizes, limits and deaths of the process, under `SidecarAssumption`
(limits positive, the two null thread names are no threads) and the ASSUME of `Conversations`:

* `FileIsCurrent`, `StoriesEndOnce`, `AnswersStand`, `TurnsCounted`: `Spec => []` of
  `HistoryIsCurrent`, `EventsEndOnce`, `AnswersBelong`, `TurnsAreCounted`, by one invariant
  (`SidecarIsSound`). The file stays current because what an entry shows changes only
  in steps that write the file; after a restart because no run is in it twice and it is no
  longer than what it covers (`KnownInv`), so that the registry read from it would write it again.
  `Story` ties the task of a run to its queue: nothing terminal while the task is alive,
  the terminal event last once it is done, and a queue that drops its oldest event keeps both.
  An answer is new because its run is executing and has not answered (`KnownInv`, `RowsAnswered`),
  also on a conversation deleted and recreated. The count survives compaction because what
  `Compact` folds and what it keeps are the turns it was given, wherever the least sufficient
  cut lies (`CountInv`).

For any catalog, arguments, plans a model may send, number of steps and lost writes, under
`RunAssumption` (the portfolio write is in the catalog, an unknown name is not, the planner names
tools of the catalog, plan items are pairs of texts):

* `WrittenOnce`: `Spec => []WriteOnce`, by `WriteInv`. The planner looks at what was observed, and the
  write is observed after it was made: between the two the invariant knows of a call under way.
* `PlanStaysOrderly`: `Spec => PlanIsOrderly`, by `OneActive`: starting an item needs that none is in
  progress, and finishing one starts at most its successor (`AfterToolKeeps`, `ActiveCount`).
* `UndisturbedReturns`: `Spec => []UndisturbedRunReturns`, and `NothingIsRefused`, which is what it rests on: in a run
  without lost writes and cancellations the lifecycle check accepts every event
  the run is about to append. `CalmInv` says for every phase where the stream stands (`Table`: what is
  open, with which numbers, and what `todo` will open and close); `AppendStep` shows
  that whichever event is next, the check accepts it and the stream stands where the table
  says. Lemmas about one appended event (`HasAppend`, `StageBegins`, `StageEnds`,
  `StageOver`, `StageKept`) carry the check's conditions from stream to stream.

For any batch of calls, whatever is refused, cancelled or lost, under `BatchAssumption` (calls have an
id and are safe or not, the bound is a number):

* `BatchesAreOrderly`: `SpecBatch => []BatchIsOrderly`, by `BatchInv`. `Course` says where the calls of the
  group are in each stage; `OwnResults` that what a call has ended with is its own, which is what `Collect`
  has to keep although refused calls leave gaps: the n-th prepared call is given the n-th result
  (`Place`, `AtPlace`), and counting a position in a set and taking the position at that count are
  inverse. `Recorded` follows the stream: a call is on record once, after its decision; results stand
  in the order of the calls; and as long as no write failed, a call without a result is one of the group.
  A cancelled or abandoned batch keeps only the first three parts.

For any number of fetching threads, any calendar, any ranges asked for and any number of days, changes of
basis, refusals and deaths of the process, under `CacheAssumption` (days are numbers):

* `SeriesStaysWhole`: `Spec => []SeriesIsWhole`, by `SeriesInv`: until two fetches overlap, what the cache
  holds is one run of trading days on one basis and covered (`Whole`), and what the one fetch under
  way knows of it is still true (`Fits`). The bounds it has read may be behind the cache but are cached
  (`Framed`); each gap lies before them, after them or on days without bars (`Placed`, from `GapsOfRange`: a
  gap touches no covered day); so a request that has an answer reaches a cached bar (`Reaches`), and
  one that is stored agrees with it there (`Agrees`). Two runs of days with a day in common are one
  run, and two bases that agree on a day are one basis (`StoredIsWhole`). A rebuild asks for all
  that is cached, so that it has an answer; a death after `Clear` leaves an empty cache, covered nowhere.
  An overlap voids all of it, as in the code: the theorem is about `~overlapped`, like the property.

For any number of runs, sites and days, under `FreshnessAssumption` (the sites are finitely many, the limits
are naturals):

* `OverlaysAreFresh`: `SpecFreshness => []OverlayIsFresh`, by `FreshInv`. A verdict is good for the day it was
  given on: the sites with a release between the snapshot's date and two days before that day are
  at most those that may stay silent (`VerdictsHold`). While pages are asked, each that has answered is either
  counted as silent or has shown its latest release, and a day's releases are only added on the day itself
  (`Verifying`); since a verification outlasts one midnight at most, the days up to the one before
  it started are closed when it ends. That is why the property is two days and no less.

For any states of frames and waves that have the phase of their signals (`FramesAssumption`):

* `ScreensAreSafe`: `SpecScreening => []ScreenIsSafe`, by `ScreenInv`: the advice is always that of the case and the
  sector now attached, and a candidate has passed `PlatformAllowed` under that advice. The work is in the
  lemmas about `Decide` (`ObservedIs`): which flags and steps an analysis can have with which timing.

For both plans, every request, every order of their tasks and every failure:

* `ReturnsAreChecked`, `ResearchReturns`: `SpecPipeline => []` of `ReturnedIsChecked` and
  `UndisturbedResearchReturns`, by `PipelineInv`. What has succeeded is closed under dependencies, also
  counting tasks started (`InOrder`); a task that is done or about to report has filled its fields (`Filled`),
  so that what a task needs was given by what it waits for. The guard is last: when it runs, nothing
  that writes a text is still to come (`SeenByGuard`).

For any calendar, prices, costs, windows and horizons, any number of bars and, but for the first, any analyzer
whatever, under `WalkAssumption` (what `BacktestOptions` and the bars' validation make sure of, among it
that the window is not shorter than the warm-up and that this is two bars or more) and
`CalendarAssumption`:

* `NothingRepaints`: `SpecWalk => []NoRepaint`. The bars come with rising days (`WalkInv`), so periods rise and
  the k-th bar is made of exactly the days of its period that are in the window (`KeysRise`, `PeriodRuns`,
  `BarIsMade`). A period that an analysis used and that began after its window's first is over, by its Friday
  or by the beginning of the next (`OverIsOver`), so all its days are in that window, and in any later
  one that holds it whole: both make the same bar of the same days (`OneIsMade`, `UsedAgain`), and the
  later one uses it because it is not its last. The theorem does not speak of the first weekly or monthly bar of a
  window. The analyses use it too, and it changes: the window cuts its period, and cuts it anew as it slides.
* `BooksAlwaysBalance`: `SpecWalk => []BooksBalance`. The invariant runs along the walk over the bars of one report,
  not along the behaviour: `Balanced` after each bar. The capital is what the trades so far make of one unit
  (`Ledger`, with `Product`), the exposure counts the closes of the trades and of the position that is open
  (`Exposed`), and a pending signal is one of this bar, due at the next. `Along` is the induction over the days.
* `NothingLooksAhead`: `SpecWalk => []NoLookahead`. Two series that differ in their last bar (`Varied`) let the analyzer
  see the same before it, so they give the same signals up to prices and ratings of the last day
  (`SeenAlike`, `SignalsAlike`), hence books with the same past (`Alike`); whatever the last bar adds is
  a trade that is open or ends on it (`Later`).

For any scores, under `ScoresAssumption` (they are integers):

* `PlansStayWhole`: `SpecAllocation => []PlansAreWhole`, and `SharesAlwaysFollow`: `SpecAllocation =>
  SharesFollowScores`. The invariant is only that the plans are those of the scores; the work is what a plan
  comes to (`SharesAre`). What rounding down loses is less than seven (`LostIs`: the rests add up to that many times
  the total), and the assets ranked before any such number are as many (`FirstOnes`), so it is all given back
  (`GivenIsWhole`). The bases are whole percentages and the total is 100 as long as nothing is clipped, so the rests,
  and with them the ranks, depend on the appetite alone (`Shift`): the shares of every profile move by the
  same number of percents, which `LosingIs` and `WinningIs` give for each of the twenty steps of either tilt.
  Only the conservative profile is clipped, at an appetite below 30, which changes its total (`LosingAllIs`,
  `ClippedIs`). From there bounds, order and monotony are those of three step functions. That the total
  is positive, without which the code raises, is part of it.

`ExecutionPlan!OperationsType` is the type theorem of the plan library, used by
`SubtaskExecutorProofs` and `RunLifecycleProofs`.

Only model-checked:

* liveness (`RunSettles`, `ApprovedRunEnds`, `ExecuteEnds`, `AppendEnds`, `DisposalEnds`,
  `ServerReturns`, `RunEnds`), as anything with ENABLED or fairness;
* that the premises of these theorems are met where they matter: the runs reach the cases.

## 6. Plan

Done: every module of the first plan but two. `RunTransactions` (the event counter and the event
stream under SQLite, which ignores row locks) is left, since the documentation confines SQLite to one worker;
`revise` and `recover_from_failure` of the plan have no caller under `src/src`.

Worth adding next: `suspend` of continuable children once something calls it; the other writers of the
portfolio file; the formulas from official metrics to the four scores, which `MacroAllocation` takes as given.

### Not modelled

Vendor data providers and page scraping, prompts and generated text, report rendering, skills and
capability registries (single synchronous steps over a dictionary), sandbox processes, checkpoints and
telemetry (written after the transaction and never read back), attachments and settings requests of the
sidecar, the Electron renderer, deployment files. In modelled files: the memory list of a
conversation, projection of observations into the prompt, ranking order and scores of candidates,
statistics of backtest reports, `validate_plan` and `suspend` of continuable children, the portfolio
file's load-modify-save across processes. The thread of a vendor fetch outlives its task's timeout
(`research/pipeline.py:221`) and its provider is closed under it; it fills no field of a state any
model keeps.
