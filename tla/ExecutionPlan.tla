---------------------------- MODULE ExecutionPlan ----------------------------
(***************************************************************************)
(* The value type behind every piece of planned work in EquiSeek: a DAG of *)
(* tasks with a status each, kept in runs.runtime_state.plan by the API    *)
(* worker and in .state/plan.json by the subtask executor.                 *)
(*                                                                         *)
(* The Python class mutates itself; here each method is an operator from a *)
(* plan to a plan.  A method that raises ValueError has a Can... operator  *)
(* beside it, true exactly when it does not raise.  Timestamps, summaries, *)
(* results and the version counter are left out.                           *)
(***************************************************************************)
EXTENDS Naturals, FiniteSets

CONSTANTS
  Task,           \* the task ids of the plan
  DependsOn,      \* [Task -> SUBSET Task]: TaskSpec.depends_on
  SideEffect,     \* tasks declared with side_effect
  NeedsApproval,  \* tasks declared with approval_required
  MaxAttempts     \* [Task -> Nat]: TaskSpec.max_attempts

TaskStatus == {"pending", "running", "waiting_approval", "succeeded", "failed",
               "unknown_outcome", "superseded", "skipped", "cancelled"}

TaskTerminal == {"succeeded", "failed", "unknown_outcome", "superseded",
                 "skipped", "cancelled"}

PlanStatus == {"pending", "running", "waiting_approval", "succeeded", "failed",
               "cancelled"}

PlanTerminal == {"succeeded", "failed", "cancelled"}

\* The plan values: statuses, attempt counters, and the tasks whose record
\* carries approved = True.
PlanType == [status   : PlanStatus,
             task     : [Task -> TaskStatus],
             attempts : [Task -> Nat],
             approved : SUBSET Task]

NewPlan == [status   |-> "pending",
            task     |-> [t \in Task |-> "pending"],
            attempts |-> [t \in Task |-> 0],
            approved |-> {}]

-----------------------------------------------------------------------------
(* Queries and the private helpers. *)

\* Nothing is ready once the plan as a whole is terminal.
ReadyTasks(p) ==
  {t \in Task : /\ p.status \notin PlanTerminal
                /\ p.task[t] = "pending"
                /\ \A d \in DependsOn[t] : p.task[d] \in {"succeeded", "skipped"}}

\* S holds every failed task, and every pending task that depends on S.
Contagious(st, S) ==
  \A t \in Task : \/ st[t] \in {"failed", "unknown_outcome"}
                  \/ st[t] = "pending" /\ DependsOn[t] \cap S # {}
                  => t \in S

\* What the fixpoint loop of _skip_blocked reaches: pending tasks in the least
\* contagious set.
SkipBlocked(st) ==
  [t \in Task |-> IF /\ st[t] = "pending"
                     /\ \A S \in SUBSET Task : Contagious(st, S) => t \in S
                  THEN "skipped" ELSE st[t]]

StopAfterUnknown(st) ==
  [t \in Task |-> IF /\ st[t] \notin TaskTerminal
                     /\ \E u \in Task : st[u] = "unknown_outcome"
                  THEN "skipped" ELSE st[t]]

RefreshedStatus(st) ==
  LET present == {st[t] : t \in Task} IN
  IF present \cap {"failed", "unknown_outcome"} # {} THEN "failed"
  ELSE IF "waiting_approval" \in present THEN "waiting_approval"
  ELSE IF present \subseteq TaskTerminal THEN "succeeded"
  ELSE IF "running" \in present THEN "running" ELSE "pending"

WithTasks(p, st) == [p EXCEPT !.task = st, !.status = RefreshedStatus(st)]

-----------------------------------------------------------------------------
(* The operations. *)

CanStart(p, t) == t \in ReadyTasks(p)

StartTask(p, t) == [p EXCEPT !.task[t] = "running", !.attempts[t] = @ + 1,
                             !.status = "running"]

CanSucceed(p, t) == p.task[t] = "running"

SucceedTask(p, t) == WithTasks(p, [p.task EXCEPT ![t] = "succeeded"])

CanFail(p, t) == p.task[t] = "running"

\* fail_task's return value: the task goes back to pending for another attempt.
Retries(p, t) == p.attempts[t] < MaxAttempts[t]

FailTask(p, t) ==
  IF Retries(p, t)
  THEN WithTasks(p, [p.task EXCEPT ![t] = "pending"])
  ELSE WithTasks(p, SkipBlocked([p.task EXCEPT ![t] = "failed"]))

CanMarkUnknown(p, t) == t \in SideEffect /\ p.task[t] \notin TaskTerminal

MarkUnknown(p, t) ==
  WithTasks(p, StopAfterUnknown(SkipBlocked([p.task EXCEPT ![t] = "unknown_outcome"])))

CanRequestApproval(p, t) == t \in ReadyTasks(p) /\ t \in NeedsApproval

RequestApproval(p, t) == [p EXCEPT !.task[t] = "waiting_approval",
                                   !.status = "waiting_approval"]

CanResume(p, t) == p.task[t] = "waiting_approval"

\* The plan's status is overwritten, whatever it was.
ResumeTask(p, t) == [p EXCEPT !.task[t] = "pending", !.status = "pending"]

CanApprove(p, t) == t \in NeedsApproval /\ CanResume(p, t)

ApproveTask(p, t) == ResumeTask([p EXCEPT !.approved = @ \cup {t}], t)

CancelPlan(p) ==
  [p EXCEPT !.task = [t \in Task |-> IF p.task[t] \in TaskTerminal
                                    THEN p.task[t] ELSE "cancelled"],
            !.status = "cancelled"]

AbortPlan(p) ==
  [p EXCEPT !.task = [t \in Task |-> CASE p.task[t] = "running" -> "failed"
                                       [] p.task[t] \in TaskTerminal -> p.task[t]
                                       [] OTHER -> "skipped"],
            !.status = "failed"]

\* Mutation of RecoverInterrupted: a side effect recovered like a read.
RecoverReplaying(p) ==
  IF \E t \in Task : p.task[t] = "running"
  THEN [p EXCEPT !.task = [t \in Task |-> IF p.task[t] = "running" THEN "pending"
                                         ELSE p.task[t]],
                 !.status = "pending"]
  ELSE p

\* What the executor does to a plan it loads after a crash.
RecoverInterrupted(p) ==
  LET cut == {t \in Task : p.task[t] = "running"}
      st  == StopAfterUnknown(SkipBlocked(
               [t \in Task |-> IF t \notin cut THEN p.task[t]
                               ELSE IF t \in SideEffect THEN "unknown_outcome"
                               ELSE "pending"]))
  IN IF cut = {} THEN p
     ELSE [p EXCEPT !.task = st,
                    !.status = IF \E t \in Task : st[t] = "unknown_outcome"
                               THEN "failed" ELSE "pending"]
=============================================================================
