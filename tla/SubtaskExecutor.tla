--------------------------- MODULE SubtaskExecutor ---------------------------
(***************************************************************************)
(* orchestration/executor.py: one call of SubtaskExecutor.execute after    *)
(* another on one plan, with its coroutines, the plan file, the approvals  *)
(* given in between, cancellation, and the death of the process.           *)
(*                                                                         *)
(* asyncio runs one coroutine at a time and switches only at an await, so  *)
(* an action is the code between two awaits: of the event sink (_emit), of *)
(* the handler, of the semaphore, of gather.  The coroutines share one     *)
(* plan object; store.save writes all of it, atomically, to plan.json.     *)
(***************************************************************************)
EXTENDS ExecutionPlan

CONSTANTS
  NoHandler,        \* tasks whose handler nobody registered
  MaxConcurrency,   \* the limiter's size
  SinkRefuses,      \* whether the event sink may raise
  MaxCrashes        \* bound of the model: how often the process dies

ASSUME ConcurrencyAssumption == MaxConcurrency \in Nat \ {0}

ASSUME SinkAssumption == SinkRefuses \in BOOLEAN

ASSUME CrashesAssumption == MaxCrashes \in Nat

ASSUME PlanAssumption == /\ DependsOn \in [Task -> SUBSET Task]
                         /\ MaxAttempts \in [Task -> Nat \ {0}]
                         /\ SideEffect \subseteq Task
                         /\ NeedsApproval \subseteq Task

\* What ExecutionPlan.create demands: a task at least, and no cycle.  Of finitely
\* many tasks some is then without dependencies among any of them.
ASSUME DagAssumption ==
  /\ Task # {}
  /\ \A S \in SUBSET Task : S # {} => \E t \in S : DependsOn[t] \cap S = {}

VARIABLES
  plan,      \* the plan object in memory
  disk,      \* .state/plan.json
  exec,      \* the state of the current call of execute
  queue,     \* ready tasks of the wave waiting for the limiter
  pc,        \* where each task's coroutine waits
  effects,   \* how often each handler did its work
  crashes    \* how often the process died

vars == <<plan, disk, exec, queue, pc, effects, crashes>>

ExecState == {"idle", "running", "returned", "raised", "cancelled", "down"}

\* "none": no coroutine; "reporting": in the emit before an early return;
\* "starting" and "ending": in the emits around the handler; "acted": in the
\* handler, its work done.
PcState == {"none", "reporting", "starting", "handler", "acted", "ending"}

Active == {t \in Task : pc[t] # "none"}

Init == /\ plan = NewPlan
        /\ disk = NewPlan
        /\ exec = "idle"
        /\ queue = {}
        /\ pc = [t \in Task |-> "none"]
        /\ effects = [t \in Task |-> 0]
        /\ crashes = 0

-----------------------------------------------------------------------------
(* execute. *)

\* Mutation of Save: the file is left for a later save.
SaveDeferred(p) == plan' = p /\ disk' = disk

\* The plan in memory becomes p, and the file with it.
Save(p) == plan' = p /\ disk' = p

Goto(t, place) == pc' = [pc EXCEPT ![t] = place]

\* An exception leaves the coroutine; gather hands the first one to execute's
\* caller and lets the other coroutines run on.
Raise(t) == /\ Goto(t, "none")
            /\ exec' = IF exec = "running" THEN "raised" ELSE exec

\* Mutation of Execute: a plan that was running is taken up as it is.
ExecuteUnrecovered ==
  /\ exec \in {"idle", "returned"}
  /\ Active = {} /\ queue = {}
  /\ Save(plan)
  /\ exec' = "running"
  /\ UNCHANGED <<queue, pc, effects, crashes>>

\* A call, on a plan just created, loaded after a crash, or returned before.
\* Bound: LocalAgentRuntime.execute lets an exception or a cancellation out and
\* drops the plan object, so nothing calls execute on it again.
Execute ==
  /\ exec \in {"idle", "returned"}
  /\ Active = {} /\ queue = {}
  /\ Save(RecoverInterrupted(plan))
  /\ exec' = "running"
  /\ UNCHANGED <<queue, pc, effects, crashes>>

Waveless == plan.status \in PlanTerminal \cup {"waiting_approval"} \/ ReadyTasks(plan) = {}

\* One round of the loop: a coroutine per ready task.
StartWave ==
  /\ exec = "running" /\ Active = {} /\ queue = {}
  /\ ~Waveless
  /\ queue' = ReadyTasks(plan)
  /\ UNCHANGED <<plan, disk, exec, pc, effects, crashes>>

Return ==
  /\ exec = "running" /\ Active = {} /\ queue = {}
  /\ Waveless
  /\ disk' = plan
  /\ exec' = "returned"
  /\ UNCHANGED <<plan, queue, pc, effects, crashes>>

-----------------------------------------------------------------------------
(* _execute_one. *)

\* Mutation of Enter: a coroutine that waits takes up a slot too.
EnterCrowded(t) == /\ t \in queue
                   /\ Cardinality(Active \cup queue) <= MaxConcurrency
                   /\ queue' = queue \ {t}
                   /\ UNCHANGED <<effects, crashes>>

\* The limiter lets a coroutine in.  The order of a wave is the plan's order of
\* tasks, which is arbitrary.
Enter(t) == /\ t \in queue
            /\ Cardinality(Active) < MaxConcurrency
            /\ queue' = queue \ {t}
            /\ UNCHANGED <<effects, crashes>>

Unapproved(t) == t \in NeedsApproval /\ t \notin plan.approved

AskApproval(t) ==
  /\ Enter(t) /\ Unapproved(t)
  /\ CanRequestApproval(plan, t)
  /\ Save(RequestApproval(plan, t))
  /\ Goto(t, "reporting")
  /\ UNCHANGED exec

FailUnhandled(t) ==
  /\ Enter(t) /\ ~Unapproved(t) /\ t \in NoHandler
  /\ CanStart(plan, t)
  /\ Save(FailTask(StartTask(plan, t), t))
  /\ Goto(t, "reporting")
  /\ UNCHANGED exec

Start(t) ==
  /\ Enter(t) /\ ~Unapproved(t) /\ t \notin NoHandler
  /\ CanStart(plan, t)
  /\ Save(StartTask(plan, t))
  /\ Goto(t, "starting")
  /\ UNCHANGED exec

\* request_approval or start_task raises ValueError: the plan has ended since
\* the wave began, and a plan that has ended has no ready task.
EnterRaises(t) ==
  /\ Enter(t)
  /\ ~CanStart(plan, t)
  /\ Raise(t)
  /\ UNCHANGED <<plan, disk>>

Reported(t) ==
  /\ pc[t] = "reporting"
  /\ Goto(t, "none")
  /\ UNCHANGED <<plan, disk, exec, queue, effects, crashes>>

CallHandler(t) ==
  /\ pc[t] = "starting"
  /\ Goto(t, "handler")
  /\ UNCHANGED <<plan, disk, exec, queue, effects, crashes>>

\* External: the handler's work, whatever it is.
Act(t) ==
  /\ pc[t] = "handler"
  /\ Goto(t, "acted")
  /\ effects' = [effects EXCEPT ![t] = @ + 1]
  /\ UNCHANGED <<plan, disk, exec, queue, crashes>>

HandlerReturns(t) ==
  /\ pc[t] = "acted"
  /\ plan' = SucceedTask(plan, t)
  /\ Goto(t, "ending")
  /\ UNCHANGED <<disk, exec, queue, effects, crashes>>

\* The handler raises or times out, or its result breaks the quota: at that
\* point its work may be done.
HandlerFails(t) ==
  /\ pc[t] \in {"handler", "acted"}
  /\ plan' = FailTask(plan, t)
  /\ Goto(t, "ending")
  /\ UNCHANGED <<disk, exec, queue, effects, crashes>>

\* After the emit: save, and go round the attempts loop once more or leave it.
Ended(t) ==
  /\ pc[t] = "ending" /\ plan.task[t] # "pending"
  /\ Save(plan)
  /\ Goto(t, "none")
  /\ UNCHANGED <<exec, queue, effects, crashes>>

Retry(t) ==
  /\ pc[t] = "ending" /\ plan.task[t] = "pending" /\ CanStart(plan, t)
  /\ Save(StartTask(plan, t))
  /\ Goto(t, "starting")
  /\ UNCHANGED <<exec, queue, effects, crashes>>

RetryRaises(t) ==
  /\ pc[t] = "ending" /\ plan.task[t] = "pending" /\ ~CanStart(plan, t)
  /\ Save(plan)
  /\ Raise(t)
  /\ UNCHANGED <<queue, effects, crashes>>

\* The sink refuses the event (or the task's directory cannot be made): nothing
\* is saved.  After a success the except clause calls fail_task on a task that
\* is no longer running, which raises in turn.
EventRefused(t) ==
  /\ SinkRefuses
  /\ pc[t] \in {"reporting", "starting", "ending"}
  /\ Raise(t)
  /\ UNCHANGED <<plan, disk, queue, effects, crashes>>

-----------------------------------------------------------------------------
(* The caller and the process. *)

\* SubtaskExecutor.approve, from another coroutine or between two calls.
Approve(t) ==
  /\ exec # "down"
  /\ CanApprove(plan, t)
  /\ Save(ApproveTask(plan, t))
  /\ UNCHANGED <<exec, queue, pc, effects, crashes>>

\* The task awaiting execute is cancelled and gather cancels the coroutines:
\* they re-raise, and neither the plan nor the file is touched.
CancelExecute ==
  /\ exec = "running"
  /\ exec' = "cancelled"
  /\ queue' = {}
  /\ pc' = [t \in Task |-> "none"]
  /\ UNCHANGED <<plan, disk, effects, crashes>>

Crash ==
  /\ exec # "down" /\ crashes < MaxCrashes
  /\ crashes' = crashes + 1
  /\ exec' = "down"
  /\ queue' = {}
  /\ pc' = [t \in Task |-> "none"]
  /\ UNCHANGED <<plan, disk, effects>>

\* A new process loads plan.json.
Load ==
  /\ exec = "down"
  /\ plan' = disk
  /\ exec' = "idle"
  /\ UNCHANGED <<disk, queue, pc, effects, crashes>>

Step(t) == \/ AskApproval(t) \/ FailUnhandled(t) \/ Start(t) \/ EnterRaises(t)
           \/ Reported(t) \/ CallHandler(t) \/ Act(t) \/ HandlerReturns(t)
           \/ HandlerFails(t) \/ Ended(t) \/ Retry(t) \/ RetryRaises(t)

Next == \/ Execute \/ StartWave \/ Return \/ CancelExecute \/ Crash \/ Load
        \/ \E t \in Task : Step(t) \/ EventRefused(t) \/ Approve(t)

Spec == Init /\ [][Next]_vars

-----------------------------------------------------------------------------
(* Properties. *)

TypeOK == /\ plan \in PlanType
          /\ disk \in PlanType
          /\ exec \in ExecState
          /\ queue \subseteq Task
          /\ pc \in [Task -> PcState]
          /\ effects \in [Task -> Nat]
          /\ crashes \in 0..MaxCrashes

\* The file knows of every handler that may be at work, so a crash at any point
\* leaves a task that recovery sees as interrupted.
HandlerIsJournaled ==
  \A t \in Task : pc[t] \in {"starting", "handler", "acted"} =>
    /\ plan.task[t] = "running"
    /\ disk.task[t] = "running"

\* docs/orchestration.md: an interrupted side effect is not replayed.  One with
\* a single attempt happens at most once over any number of crashes, and no
\* version of the plan that could be loaded takes it for not begun.
SideEffectOnce ==
  \A t \in SideEffect : MaxAttempts[t] = 1 =>
    /\ effects[t] <= 1
    /\ effects[t] > 0 => disk.task[t] \in {"running", "succeeded", "failed",
                                           "unknown_outcome"}

\* A call that returns leaves a settled plan, and leaves it on disk: no task is
\* running, and the plan has failed, or a task of it waits for the user, or
\* every task has succeeded.
ReturnsSettled ==
  [][exec = "running" /\ exec' = "returned" =>
       /\ disk' = plan'
       /\ \A t \in Task : plan'.task[t] # "running"
       /\ \/ plan'.status = "failed" /\ \E t \in Task : plan'.task[t] \in {"failed", "unknown_outcome"}
          \/ plan'.status = "waiting_approval" /\ \E t \in Task : CanApprove(plan', t)
          \/ plan'.status = "succeeded" /\ \A t \in Task : plan'.task[t] = "succeeded"]_vars

\* docs/orchestration.md: a failed task is retried up to its limit.  Once no
\* coroutine is left and nothing was cut short from outside, no task has failed
\* attempts behind it and attempts left.
RetriedUpToLimit ==
  exec \in {"returned", "raised"} /\ Active = {} /\ queue = {} =>
    \A t \in Task : plan.task[t] = "pending" => plan.attempts[t] = 0

-----------------------------------------------------------------------------
(* Liveness. *)

\* The loop runs every coroutine that can go on, and every handler ends: by
\* itself or by its timeout.
Fairness == /\ WF_vars(StartWave \/ Return)
            /\ \A t \in Task : WF_vars(Step(t))

FairSpec == Spec /\ Fairness

\* Every call ends, whatever fails, and the coroutines it leaves behind end too.
ExecuteEnds == exec = "running" ~> exec # "running" /\ Active = {} /\ queue = {}
=============================================================================
