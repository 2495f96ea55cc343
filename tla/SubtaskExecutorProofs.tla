------------------------ MODULE SubtaskExecutorProofs ------------------------
(***************************************************************************)
(* Proofs about SubtaskExecutor, for every plan, limit and number of       *)
(* crashes: the plan file knows of every handler at work, a side effect    *)
(* with one attempt is done at most once, and a call that returns has      *)
(* settled and saved its plan.                                             *)
(***************************************************************************)
EXTENDS SubtaskExecutor, TLAPS

-----------------------------------------------------------------------------
(* Every operation maps plans to plans, whatever the DAG and the policy. *)

\* Recomputing the plan's status after any change of the tasks gives a plan.
LEMMA WithTasksType ==
  ASSUME NEW p \in PlanType, NEW st \in [Task -> TaskStatus]
  PROVE  WithTasks(p, st) \in PlanType
<1>1. RefreshedStatus(st) \in PlanStatus
  BY DEF RefreshedStatus, PlanStatus
<1>2. QED
  BY <1>1 DEF WithTasks, PlanType

\* _skip_blocked and _stop_after_unknown_outcome only ever write "skipped".
LEMMA SkippingType ==
  ASSUME NEW st \in [Task -> TaskStatus]
  PROVE  /\ SkipBlocked(st) \in [Task -> TaskStatus]
         /\ StopAfterUnknown(st) \in [Task -> TaskStatus]
BY DEF SkipBlocked, StopAfterUnknown, TaskStatus

\* Type correctness of ExecutionPlan's methods as a library.
THEOREM OperationsType ==
  ASSUME NEW p \in PlanType, NEW t \in Task
  PROVE  /\ NewPlan \in PlanType
         /\ StartTask(p, t) \in PlanType
         /\ SucceedTask(p, t) \in PlanType
         /\ FailTask(p, t) \in PlanType
         /\ MarkUnknown(p, t) \in PlanType
         /\ RequestApproval(p, t) \in PlanType
         /\ ResumeTask(p, t) \in PlanType
         /\ ApproveTask(p, t) \in PlanType
         /\ CancelPlan(p) \in PlanType
         /\ AbortPlan(p) \in PlanType
         /\ RecoverInterrupted(p) \in PlanType
<1> DEFINE Set(s) == [p.task EXCEPT ![t] = s]
<1>1. \A s \in TaskStatus : Set(s) \in [Task -> TaskStatus]
  BY DEF PlanType
<1>2. NewPlan \in PlanType
  BY DEF NewPlan, PlanType, PlanStatus, TaskStatus
<1>3. StartTask(p, t) \in PlanType
  <2>1. Set("running") \in [Task -> TaskStatus]
    BY <1>1 DEF TaskStatus
  <2>2. [p.attempts EXCEPT ![t] = @ + 1] \in [Task -> Nat]
    BY DEF PlanType
  <2>3. StartTask(p, t) = [p EXCEPT !.task = Set("running"),
                                    !.attempts = [p.attempts EXCEPT ![t] = @ + 1],
                                    !.status = "running"]
    BY DEF StartTask, PlanType
  <2>4. QED
    BY <2>1, <2>2, <2>3 DEF PlanType, PlanStatus
<1>4. SucceedTask(p, t) \in PlanType
  BY <1>1, WithTasksType DEF SucceedTask, TaskStatus
<1>5. FailTask(p, t) \in PlanType
  <2>1. Set("pending") \in [Task -> TaskStatus] /\ Set("failed") \in [Task -> TaskStatus]
    BY <1>1 DEF TaskStatus
  <2>2. SkipBlocked(Set("failed")) \in [Task -> TaskStatus]
    BY <2>1, SkippingType
  <2>3. QED
    BY <2>1, <2>2, WithTasksType DEF FailTask
<1>6. MarkUnknown(p, t) \in PlanType
  <2>1. Set("unknown_outcome") \in [Task -> TaskStatus]
    BY <1>1 DEF TaskStatus
  <2>2. SkipBlocked(Set("unknown_outcome")) \in [Task -> TaskStatus]
    BY <2>1, SkippingType
  <2>3. StopAfterUnknown(SkipBlocked(Set("unknown_outcome"))) \in [Task -> TaskStatus]
    BY <2>2, SkippingType
  <2>4. QED
    BY <2>3, WithTasksType DEF MarkUnknown
<1>7. RequestApproval(p, t) \in PlanType
  BY DEF RequestApproval, PlanType, PlanStatus, TaskStatus
<1>8. ResumeTask(p, t) \in PlanType
  BY DEF ResumeTask, PlanType, PlanStatus, TaskStatus
<1>9. ApproveTask(p, t) \in PlanType
  <2> DEFINE q == [p EXCEPT !.approved = @ \cup {t}]
  <2>1. q \in PlanType
    BY DEF PlanType
  <2>2. QED
    BY <2>1 DEF ApproveTask, ResumeTask, PlanType, PlanStatus, TaskStatus
<1>10. CancelPlan(p) \in PlanType
  BY DEF CancelPlan, PlanType, PlanStatus, TaskStatus, TaskTerminal
<1>11. AbortPlan(p) \in PlanType
  BY DEF AbortPlan, PlanType, PlanStatus, TaskStatus, TaskTerminal
<1>12. RecoverInterrupted(p) \in PlanType
  <2> DEFINE cut == {u \in Task : p.task[u] = "running"}
             base == [u \in Task |-> IF u \notin cut THEN p.task[u]
                                     ELSE IF u \in SideEffect THEN "unknown_outcome"
                                     ELSE "pending"]
  <2>1. base \in [Task -> TaskStatus]
    BY DEF PlanType, TaskStatus
  <2>2. SkipBlocked(base) \in [Task -> TaskStatus]
    BY <2>1, SkippingType
  <2>3. StopAfterUnknown(SkipBlocked(base)) \in [Task -> TaskStatus]
    BY <2>2, SkippingType
  <2>4. QED
    BY <2>3 DEF RecoverInterrupted, PlanType, PlanStatus
<1>13. QED
  BY <1>2, <1>3, <1>4, <1>5, <1>6, <1>7, <1>8, <1>9, <1>10, <1>11, <1>12

USE PlanAssumption, ConcurrencyAssumption, CrashesAssumption, SinkAssumption

-----------------------------------------------------------------------------
(* What ExecutionPlan's operations do to the task statuses. *)

Begun == {"running", "succeeded", "failed", "unknown_outcome"}

LEMMA RecoverType ==
  ASSUME NEW p \in PlanType
  PROVE  RecoverInterrupted(p) \in PlanType
<1>1. CASE Task = {}
  BY <1>1 DEF RecoverInterrupted, PlanType
<1>2. CASE Task # {}
  BY <1>2, OperationsType
<1>3. QED
  BY <1>1, <1>2

\* The other tasks' running status, and every status that shows a beginning,
\* survive the operations on a task.
LEMMA OthersKept ==
  ASSUME NEW p \in PlanType, NEW t \in Task, NEW u \in Task, p.task[u] \in Begun, u # t
  PROVE  \A q \in {StartTask(p, t), SucceedTask(p, t), FailTask(p, t),
                   RequestApproval(p, t), ApproveTask(p, t)} : q.task[u] = p.task[u]
<1>1. \A st : WithTasks(p, st).task = st
  BY DEF WithTasks, PlanType
<1>2. \A s : [p.task EXCEPT ![t] = s][u] = p.task[u]
  BY DEF PlanType
<1>3. SkipBlocked([p.task EXCEPT ![t] = "failed"])[u] = p.task[u]
  BY <1>2 DEF SkipBlocked, Begun
<1>4. FailTask(p, t).task[u] = p.task[u]
  BY <1>1, <1>2, <1>3 DEF FailTask
<1>5. SucceedTask(p, t).task[u] = p.task[u]
  BY <1>1, <1>2 DEF SucceedTask
<1>6. /\ StartTask(p, t).task[u] = p.task[u]
      /\ RequestApproval(p, t).task[u] = p.task[u]
      /\ ApproveTask(p, t).task[u] = p.task[u]
  BY DEF PlanType, StartTask, RequestApproval, ApproveTask, ResumeTask
<1>7. QED
  BY <1>4, <1>5, <1>6

\* An operation on a task starts no other.
LEMMA OthersNotStarted ==
  ASSUME NEW p \in PlanType, NEW t \in Task, NEW u \in Task, u # t
  PROVE  \A q \in {StartTask(p, t), SucceedTask(p, t), FailTask(p, t),
                   RequestApproval(p, t), ApproveTask(p, t)} :
           q.task[u] = "running" => p.task[u] = "running"
<1>1. \A st : WithTasks(p, st).task = st
  BY DEF WithTasks, PlanType
<1>2. \A s : [p.task EXCEPT ![t] = s][u] = p.task[u]
  BY DEF PlanType
<1>3. SkipBlocked([p.task EXCEPT ![t] = "failed"])[u] \in {p.task[u], "skipped"}
  BY <1>2 DEF SkipBlocked
<1>4. FailTask(p, t).task[u] \in {p.task[u], "skipped"}
  BY <1>1, <1>2, <1>3 DEF FailTask
<1>5. SucceedTask(p, t).task[u] = p.task[u]
  BY <1>1, <1>2 DEF SucceedTask
<1>6. /\ StartTask(p, t).task[u] = p.task[u]
      /\ RequestApproval(p, t).task[u] = p.task[u]
      /\ ApproveTask(p, t).task[u] = p.task[u]
  BY DEF PlanType, StartTask, RequestApproval, ApproveTask, ResumeTask
<1>7. QED
  BY <1>4, <1>5, <1>6

\* Only start_task counts an attempt.
LEMMA AttemptsKept ==
  ASSUME NEW p \in PlanType, NEW t \in Task, NEW u \in Task
  PROVE  /\ StartTask(p, t).attempts[u] = IF u = t THEN p.attempts[u] + 1 ELSE p.attempts[u]
         /\ \A q \in {SucceedTask(p, t), FailTask(p, t), RequestApproval(p, t),
                      ApproveTask(p, t), RecoverInterrupted(p)} :
              q.attempts[u] = p.attempts[u]
BY DEF PlanType, StartTask, SucceedTask, FailTask, RequestApproval, ApproveTask, ResumeTask,
       WithTasks, RecoverInterrupted

\* What they do to their own task.
LEMMA OwnTask ==
  ASSUME NEW p \in PlanType, NEW t \in Task
  PROVE  /\ StartTask(p, t).task[t] = "running"
         /\ SucceedTask(p, t).task[t] = "succeeded"
         /\ RequestApproval(p, t).task[t] = "waiting_approval"
         /\ ApproveTask(p, t).task[t] = "pending"
         /\ ~Retries(p, t) => FailTask(p, t).task[t] = "failed"
BY DEF PlanType, StartTask, SucceedTask, FailTask, RequestApproval, ApproveTask, ResumeTask,
       WithTasks, SkipBlocked

\* A task that fails does not go on running.
LEMMA FailedTask ==
  ASSUME NEW p \in PlanType, NEW t \in Task
  PROVE  FailTask(p, t).task[t] # "running"
BY DEF PlanType, FailTask, WithTasks, SkipBlocked

\* Recovery keeps what has ended and turns a running side effect into an unknown
\* outcome.
LEMMA RecoverKeeps ==
  ASSUME NEW p \in PlanType, NEW t \in Task, NEW q, q = RecoverInterrupted(p)
  PROVE  /\ q.task[t] = "running" => FALSE
         /\ t \in SideEffect /\ p.task[t] \in Begun => q.task[t] \in Begun
BY DEF PlanType, RecoverInterrupted, SkipBlocked, StopAfterUnknown, Begun, TaskTerminal

-----------------------------------------------------------------------------
(* Types. *)

LEMMA TypeInit == Init => TypeOK
<1>1. NewPlan \in PlanType
  BY DEF NewPlan, PlanType, PlanStatus, TaskStatus
<1>2. QED
  BY <1>1 DEF Init, TypeOK, ExecState, PcState

LEMMA TypeStep == TypeOK /\ [Next]_vars => TypeOK'
<1> SUFFICES ASSUME TypeOK, [Next]_vars PROVE TypeOK'
  OBVIOUS
<1> USE DEF TypeOK, ExecState, PcState, Goto, Raise, Save
<1>1. CASE UNCHANGED vars
  BY <1>1 DEF vars
<1>2. CASE Execute
  BY <1>2, RecoverType DEF Execute
<1>3. CASE StartWave \/ Return \/ CancelExecute \/ Load
  BY <1>3 DEF StartWave, ReadyTasks, Return, CancelExecute, Load
<1>4. CASE Crash
  BY <1>4 DEF Crash
<1>5. ASSUME NEW t \in Task, Step(t) \/ EventRefused(t) \/ Approve(t) PROVE TypeOK'
  <2>1. /\ \A q \in PlanType : /\ StartTask(q, t) \in PlanType
                               /\ SucceedTask(q, t) \in PlanType
                               /\ FailTask(q, t) \in PlanType
                               /\ RequestApproval(q, t) \in PlanType
                               /\ ApproveTask(q, t) \in PlanType
    BY OperationsType
  <2>2. CASE AskApproval(t) \/ FailUnhandled(t) \/ Start(t) \/ EnterRaises(t)
    BY <2>1, <2>2 DEF AskApproval, FailUnhandled, Start, EnterRaises, Enter
  <2>3. CASE Reported(t) \/ CallHandler(t) \/ HandlerReturns(t) \/ HandlerFails(t)
    BY <2>1, <2>3 DEF Reported, CallHandler, HandlerReturns, HandlerFails
  <2>4. CASE Act(t)
    BY <2>4 DEF Act
  <2>5. CASE Ended(t) \/ Retry(t) \/ RetryRaises(t) \/ EventRefused(t) \/ Approve(t)
    BY <2>1, <2>5 DEF Ended, Retry, RetryRaises, EventRefused, Approve
  <2>6. QED
    BY <1>5, <2>2, <2>3, <2>4, <2>5 DEF Step
<1>6. QED
  BY <1>1, <1>2, <1>3, <1>4, <1>5 DEF Next

\* The plan object, the file and the coroutines' places keep their types.
THEOREM TypeCorrect == Spec => []TypeOK
BY TypeInit, TypeStep, PTL DEF Spec

-----------------------------------------------------------------------------
(* The file knows of every handler at work. *)

LEMMA JournalStep == TypeOK /\ HandlerIsJournaled /\ [Next]_vars => HandlerIsJournaled'
<1> SUFFICES ASSUME TypeOK, HandlerIsJournaled, [Next]_vars,
                    NEW u \in Task, pc'[u] \in {"starting", "handler", "acted"}
             PROVE  plan'.task[u] = "running" /\ disk'.task[u] = "running"
  BY DEF HandlerIsJournaled
<1> USE DEF Goto, Raise, Save
<1> DEFINE AtWork == pc[u] \in {"starting", "handler", "acted"}
<1>1. AtWork => /\ plan.task[u] = "running" /\ disk.task[u] = "running"
                /\ plan.task[u] \in Begun
  BY DEF HandlerIsJournaled, Begun
<1>2. CASE UNCHANGED vars
  BY <1>1, <1>2 DEF vars
<1>3. CASE Execute \/ StartWave \/ Return
  <2>1. pc[u] = "none" /\ pc' = pc
    BY <1>3 DEF Execute, StartWave, Return, Active
  <2>2. QED
    BY <2>1
<1>4. CASE CancelExecute \/ Crash
  BY <1>4 DEF CancelExecute, Crash
<1>5. CASE Load
  BY <1>1, <1>5 DEF Load
<1>6. ASSUME NEW t \in Task, Step(t) \/ EventRefused(t) \/ Approve(t)
      PROVE  plan'.task[u] = "running" /\ disk'.task[u] = "running"
  <2>1. CASE AskApproval(t) \/ FailUnhandled(t) \/ HandlerReturns(t) \/ HandlerFails(t)
             \/ Approve(t)
    <3>1. u # t /\ AtWork
      BY <1>1, <2>1 DEF AskApproval, FailUnhandled, HandlerReturns, HandlerFails, Approve,
                        CanApprove, CanResume, TypeOK
    <3>2. StartTask(plan, t) \in PlanType
      BY OperationsType DEF TypeOK
    <3>3. StartTask(plan, t).task[u] = "running"
      BY <1>1, <3>1, OthersKept DEF TypeOK
    <3>4. FailTask(StartTask(plan, t), t).task[u] = "running"
      BY <3>1, <3>2, <3>3, OthersKept DEF Begun
    <3>5. \A q \in {SucceedTask(plan, t), FailTask(plan, t), RequestApproval(plan, t),
                    ApproveTask(plan, t)} : q.task[u] = "running"
      BY <1>1, <3>1, OthersKept DEF TypeOK
    <3>6. QED
      BY <1>1, <2>1, <3>1, <3>4, <3>5
         DEF AskApproval, FailUnhandled, HandlerReturns, HandlerFails, Approve
  <2>2. CASE Start(t) \/ Retry(t)
    <3>1. CASE u = t
      BY <2>2, <3>1, OwnTask DEF Start, Retry, TypeOK
    <3>2. CASE u # t
      <4>1. AtWork
        BY <2>2, <3>2 DEF Start, Retry, TypeOK
      <4>2. StartTask(plan, t).task[u] = "running"
        BY <1>1, <3>2, <4>1, OthersKept DEF TypeOK
      <4>3. QED
        BY <2>2, <4>2 DEF Start, Retry
    <3>3. QED
      BY <3>1, <3>2
  <2>3. CASE EnterRaises(t) \/ Reported(t) \/ CallHandler(t) \/ Act(t) \/ Ended(t)
             \/ RetryRaises(t) \/ EventRefused(t)
    <3>1. AtWork
      BY <2>3 DEF EnterRaises, Reported, CallHandler, Act, Ended, RetryRaises, EventRefused,
                  TypeOK
    <3>2. QED
      BY <1>1, <2>3, <3>1 DEF EnterRaises, Reported, CallHandler, Act, Ended, RetryRaises,
                              EventRefused
  <2>4. QED
    BY <1>6, <2>1, <2>2, <2>3 DEF Step
<1>7. QED
  BY <1>2, <1>3, <1>4, <1>5, <1>6 DEF Next

\* A crash at any point leaves a file in which every task whose handler may be
\* at work is running.
THEOREM HandlersJournaled == Spec => []HandlerIsJournaled
<1>1. Init => HandlerIsJournaled
  BY DEF Init, HandlerIsJournaled
<1>2. TypeOK /\ HandlerIsJournaled /\ [Next]_vars => HandlerIsJournaled'
  BY JournalStep
<1>3. QED
  BY <1>1, <1>2, TypeCorrect, PTL DEF Spec

-----------------------------------------------------------------------------
(* A side effect with one attempt is done at most once. *)

Single == {t \in SideEffect : MaxAttempts[t] = 1}

\* The strengthening: a version of the plan that takes the task for not begun
\* exists only while it has not acted, its one attempt is counted as soon as it
\* runs, and a coroutine about to act has not acted before.
OnceInv ==
  \A t \in Single :
    /\ effects[t] <= 1
    /\ effects[t] > 0 => plan.task[t] \in Begun /\ disk.task[t] \in Begun
    /\ pc[t] \in {"starting", "handler"} => effects[t] = 0
    /\ plan.task[t] = "running" => plan.attempts[t] >= 1
    /\ disk.task[t] = "running" => disk.attempts[t] >= 1

LEMMA OnceStep ==
  TypeOK /\ HandlerIsJournaled /\ OnceInv /\ [Next]_vars => OnceInv'
<1> SUFFICES ASSUME TypeOK, HandlerIsJournaled, OnceInv, [Next]_vars, NEW u \in Single
             PROVE  /\ effects'[u] <= 1
                    /\ effects'[u] > 0 => plan'.task[u] \in Begun /\ disk'.task[u] \in Begun
                    /\ pc'[u] \in {"starting", "handler"} => effects'[u] = 0
                    /\ plan'.task[u] = "running" => plan'.attempts[u] >= 1
                    /\ disk'.task[u] = "running" => disk'.attempts[u] >= 1
  BY DEF OnceInv
<1> USE DEF Goto, Raise, Save
<1>1. /\ u \in Task /\ u \in SideEffect /\ MaxAttempts[u] = 1
      /\ plan \in PlanType /\ disk \in PlanType
      /\ pc \in [Task -> PcState] /\ effects \in [Task -> Nat]
      /\ plan.attempts[u] \in Nat /\ disk.attempts[u] \in Nat
  BY DEF Single, TypeOK, PlanType
<1>2. /\ effects[u] <= 1
      /\ effects[u] > 0 => plan.task[u] \in Begun /\ disk.task[u] \in Begun
      /\ pc[u] \in {"starting", "handler"} => effects[u] = 0
      /\ plan.task[u] = "running" => plan.attempts[u] >= 1
      /\ disk.task[u] = "running" => disk.attempts[u] >= 1
  BY DEF OnceInv
<1>3. CASE UNCHANGED vars \/ StartWave \/ Return \/ CancelExecute \/ Crash \/ Load
  BY <1>1, <1>2, <1>3 DEF vars, StartWave, Return, CancelExecute, Crash, Load
<1>4. CASE Execute
  <2> DEFINE q == RecoverInterrupted(plan)
  <2>1. /\ q.task[u] # "running"
        /\ plan.task[u] \in Begun => q.task[u] \in Begun
    BY <1>1, RecoverKeeps
  <2>2. plan' = q /\ disk' = q /\ pc' = pc /\ effects' = effects
    BY <1>4 DEF Execute
  <2> HIDE DEF q
  <2>3. QED
    BY <1>2, <2>1, <2>2
<1>5. ASSUME NEW t \in Task, Step(t) \/ EventRefused(t) \/ Approve(t)
      PROVE  /\ effects'[u] <= 1
             /\ effects'[u] > 0 => plan'.task[u] \in Begun /\ disk'.task[u] \in Begun
             /\ pc'[u] \in {"starting", "handler"} => effects'[u] = 0
             /\ plan'.task[u] = "running" => plan'.attempts[u] >= 1
             /\ disk'.task[u] = "running" => disk'.attempts[u] >= 1
  <2>1. CASE t # u
    <3>1. effects'[u] = effects[u] /\ pc'[u] = pc[u] /\ disk' \in {disk, plan'}
      BY <1>1, <1>5, <2>1
         DEF Step, AskApproval, FailUnhandled, Start, EnterRaises, Enter, Reported,
             CallHandler, Act, HandlerReturns, HandlerFails, Ended, Retry, RetryRaises,
             EventRefused, Approve
    <3>2. \/ plan' \in {plan, StartTask(plan, t), SucceedTask(plan, t), FailTask(plan, t),
                        RequestApproval(plan, t), ApproveTask(plan, t)}
          \/ plan' = FailTask(StartTask(plan, t), t)
      BY <1>5
         DEF Step, AskApproval, FailUnhandled, Start, EnterRaises, Reported,
             CallHandler, Act, HandlerReturns, HandlerFails, Ended, Retry, RetryRaises,
             EventRefused, Approve
    <3>3. /\ plan.task[u] \in Begun => plan'.task[u] = plan.task[u]
          /\ plan'.task[u] = "running" => plan.task[u] = "running"
          /\ plan'.attempts[u] = plan.attempts[u]
      <4>1. CASE plan' \in {plan, StartTask(plan, t), SucceedTask(plan, t),
                            FailTask(plan, t), RequestApproval(plan, t),
                            ApproveTask(plan, t)}
        BY <1>1, <2>1, <4>1, OthersKept, OthersNotStarted, AttemptsKept
      <4>2. CASE plan' = FailTask(StartTask(plan, t), t)
        <5> DEFINE s == StartTask(plan, t)
        <5>1. s \in PlanType
          BY <1>1, OperationsType
        <5>2. /\ plan.task[u] \in Begun => s.task[u] = plan.task[u]
              /\ s.task[u] = "running" => plan.task[u] = "running"
              /\ s.attempts[u] = plan.attempts[u]
          BY <1>1, <2>1, OthersKept, OthersNotStarted, AttemptsKept
        <5> HIDE DEF s
        <5>3. /\ s.task[u] \in Begun => FailTask(s, t).task[u] = s.task[u]
              /\ FailTask(s, t).task[u] = "running" => s.task[u] = "running"
              /\ FailTask(s, t).attempts[u] = s.attempts[u]
          BY <1>1, <2>1, <5>1, OthersKept, OthersNotStarted, AttemptsKept
        <5>4. plan' = FailTask(s, t)
          BY <4>2 DEF s
        <5>5. QED
          BY <5>2, <5>3, <5>4
      <4>3. QED
        BY <3>2, <4>1, <4>2
    <3>4. QED
      BY <1>1, <1>2, <3>1, <3>3
  <2>2. CASE t = u
    <3>1. CASE AskApproval(u) \/ FailUnhandled(u) \/ Start(u) \/ Retry(u) \/ Approve(u)
      <4>1. plan.task[u] \in {"pending", "waiting_approval"}
        BY <3>1 DEF AskApproval, FailUnhandled, Start, Retry, Approve, CanRequestApproval,
                    CanStart, ReadyTasks, CanApprove, CanResume
      <4>2. effects[u] = 0 /\ effects' = effects /\ disk' = plan'
        BY <1>1, <1>2, <3>1, <4>1
           DEF AskApproval, FailUnhandled, Start, Retry, Approve, Enter, Begun
      <4>3. plan'.task[u] = "running" => plan'.attempts[u] >= 1
        <5>1. CASE AskApproval(u) \/ Approve(u)
          BY <1>1, <5>1, OwnTask DEF AskApproval, Approve
        <5>2. CASE Start(u) \/ Retry(u)
          BY <1>1, <5>2, AttemptsKept DEF Start, Retry
        <5>3. CASE FailUnhandled(u)
          <6> DEFINE s == StartTask(plan, u)
          <6>1. s \in PlanType /\ s.attempts[u] = plan.attempts[u] + 1
            BY <1>1, OperationsType, AttemptsKept
          <6> HIDE DEF s
          <6>2. FailTask(s, u).attempts[u] = s.attempts[u]
            BY <1>1, <6>1, AttemptsKept
          <6>3. plan' = FailTask(s, u)
            BY <5>3 DEF FailUnhandled, s
          <6>4. QED
            BY <1>1, <6>1, <6>2, <6>3
        <5>4. QED
          BY <3>1, <5>1, <5>2, <5>3
      <4>4. QED
        BY <4>2, <4>3
    <3>2. CASE EnterRaises(u) \/ Reported(u) \/ CallHandler(u) \/ EventRefused(u)
      BY <1>1, <1>2, <3>2 DEF EnterRaises, Enter, Reported, CallHandler, EventRefused
    <3>3. CASE Act(u)
      <4>1. plan.task[u] = "running" /\ disk.task[u] = "running"
        BY <1>1, <3>3 DEF Act, HandlerIsJournaled
      <4>2. QED
        BY <1>1, <1>2, <3>3, <4>1 DEF Act, Begun
    <3>4. CASE HandlerReturns(u) \/ HandlerFails(u)
      <4>1. plan.task[u] = "running" /\ disk.task[u] = "running"
        BY <1>1, <3>4 DEF HandlerReturns, HandlerFails, HandlerIsJournaled
      <4>2. ~Retries(plan, u)
        BY <1>1, <1>2, <4>1 DEF Retries
      <4>3. plan'.task[u] \in {"succeeded", "failed"}
        BY <1>1, <3>4, <4>2, OwnTask DEF HandlerReturns, HandlerFails
      <4>4. disk' = disk /\ effects' = effects /\ pc'[u] = "ending"
        BY <1>1, <3>4 DEF HandlerReturns, HandlerFails
      <4>5. QED
        BY <1>2, <4>1, <4>3, <4>4 DEF Begun
    <3>5. CASE Ended(u) \/ RetryRaises(u)
      BY <1>1, <1>2, <3>5 DEF Ended, RetryRaises
    <3>6. QED
      BY <1>5, <2>2, <3>1, <3>2, <3>3, <3>4, <3>5 DEF Step
  <2>3. QED
    BY <2>1, <2>2
<1>6. QED
  BY <1>3, <1>4, <1>5 DEF Next

\* However often the process dies, a side effect with a single attempt is done
\* at most once, and the file never takes it for not begun afterwards.
THEOREM SideEffectsOnce == Spec => []SideEffectOnce
<1>1. Init => OnceInv
  BY DEF Init, OnceInv, Single, NewPlan
<1>2. TypeOK /\ HandlerIsJournaled /\ OnceInv /\ [Next]_vars => OnceInv'
  BY OnceStep
<1>3. OnceInv => SideEffectOnce
  BY DEF OnceInv, SideEffectOnce, Single, Begun
<1>4. QED
  BY <1>1, <1>2, <1>3, TypeCorrect, HandlersJournaled, PTL DEF Spec

-----------------------------------------------------------------------------
(* A call that returns leaves a settled plan. *)

Satisfied(st, t) == \A d \in DependsOn[t] : st[d] \in {"succeeded", "skipped"}

Broken(st) == \E t \in Task : st[t] \in {"failed", "unknown_outcome"}

\* Tasks are skipped only after a failure, and none runs or waits for the user
\* before what it depends on.
TasksSound(st) ==
  /\ (\E t \in Task : st[t] = "skipped") => Broken(st)
  /\ \A t \in Task : st[t] \notin {"superseded", "cancelled"}
  /\ \A t \in Task : st[t] \in {"running", "waiting_approval"} => Satisfied(st, t)
  /\ \A t \in Task : st[t] = "waiting_approval" => t \in NeedsApproval

\* A task runs, or can be started.
Goes(st) == \E t \in Task : st[t] = "running" \/ (st[t] = "pending" /\ Satisfied(st, t))

\* The status of the plan says of the tasks what it should.
StatusSound(status, st) ==
  /\ status # "cancelled"
  /\ status = "failed" => Broken(st)
  /\ status = "waiting_approval" => \E t \in Task : st[t] = "waiting_approval"
  /\ status = "succeeded" => \A t \in Task : st[t] = "succeeded"
  /\ status \in {"pending", "running"} => Goes(st)

Sound(p) == TasksSound(p.task) /\ StatusSound(p.status, p.task)

\* In a plan without failures nothing blocks a pending task but another task that
\* has not ended, and the dependencies have no cycle.
LEMMA RefreshSound ==
  ASSUME NEW st \in [Task -> TaskStatus], TasksSound(st)
  PROVE  StatusSound(RefreshedStatus(st), st)
<1> DEFINE present == {st[t] : t \in Task}
<1>1. CASE present \cap {"failed", "unknown_outcome"} # {}
  BY <1>1 DEF RefreshedStatus, StatusSound, Broken
<1>2. CASE /\ present \cap {"failed", "unknown_outcome"} = {}
           /\ "waiting_approval" \in present
  BY <1>2 DEF RefreshedStatus, StatusSound
<1>3. CASE /\ present \cap {"failed", "unknown_outcome"} = {}
           /\ "waiting_approval" \notin present
  <2>1. ~Broken(st)
    BY <1>3 DEF Broken
  <2>2. \A t \in Task : st[t] \in {"pending", "running", "succeeded"}
    BY <1>3, <2>1 DEF TasksSound, TaskStatus, Broken
  <2>3. CASE present \subseteq TaskTerminal
    <3>1. RefreshedStatus(st) = "succeeded"
      BY <1>3, <2>3 DEF RefreshedStatus
    <3>2. \A t \in Task : st[t] = "succeeded"
      BY <2>2, <2>3 DEF TaskTerminal
    <3>3. QED
      BY <3>1, <3>2 DEF StatusSound
  <2>4. CASE ~(present \subseteq TaskTerminal)
    <3>1. RefreshedStatus(st) \in {"pending", "running"}
      BY <1>3, <2>4 DEF RefreshedStatus
    <3>2. Goes(st)
      <4> DEFINE S == {t \in Task : st[t] # "succeeded"}
      <4>1. S # {}
        BY <2>4 DEF TaskTerminal
      <4>2. PICK t \in S : DependsOn[t] \cap S = {}
        BY <4>1, DagAssumption
      <4>3. t \in Task /\ st[t] \in {"pending", "running"}
        BY <2>2
      <4>4. Satisfied(st, t)
        BY <4>2, <4>3 DEF Satisfied
      <4>5. QED
        BY <4>3, <4>4 DEF Goes
    <3>3. QED
      BY <3>1, <3>2 DEF StatusSound
  <2>5. QED
    BY <2>3, <2>4
<1>4. QED
  BY <1>1, <1>2, <1>3

\* A task that has not ended takes a new status.
LEMMA SetSound ==
  ASSUME NEW st \in [Task -> TaskStatus], TasksSound(st), NEW t \in Task,
         st[t] \in {"pending", "running", "waiting_approval"},
         NEW s \in {"pending", "running", "waiting_approval", "succeeded", "failed"},
         s \in {"running", "waiting_approval"} => Satisfied(st, t),
         s = "waiting_approval" => t \in NeedsApproval
  PROVE  /\ TasksSound([st EXCEPT ![t] = s])
         /\ \A u \in Task : Satisfied(st, u) => Satisfied([st EXCEPT ![t] = s], u)
         /\ [st EXCEPT ![t] = s][t] = s
<1> DEFINE new == [st EXCEPT ![t] = s]
<1>1. new[t] = s /\ \A u \in Task : u # t => new[u] = st[u]
  OBVIOUS
<1> HIDE DEF new
<1>2. \A u \in Task : Satisfied(st, u) => Satisfied(new, u)
  BY <1>1 DEF Satisfied
<1>3. Broken(st) => Broken(new)
  BY <1>1 DEF Broken
<1>4. TasksSound(new)
  BY <1>1, <1>2, <1>3 DEF TasksSound
<1>5. QED
  BY <1>1, <1>2, <1>4 DEF new

\* Skipping leaves what has begun, ended or been satisfied.
LEMMA SkipSound ==
  ASSUME NEW st \in [Task -> TaskStatus], TasksSound(st)
  PROVE  /\ TasksSound(SkipBlocked(st)) /\ TasksSound(StopAfterUnknown(st))
         /\ \A t \in Task : Satisfied(st, t) => Satisfied(SkipBlocked(st), t)
<1>1. ASSUME NEW new \in [Task -> TaskStatus],
             \A t \in Task : \/ new[t] = st[t]
                             \/ Broken(st) /\ new[t] = "skipped" /\ st[t] \notin TaskTerminal
      PROVE  TasksSound(new) /\ \A t \in Task : Satisfied(st, t) => Satisfied(new, t)
  <2>1. \A t \in Task : Satisfied(st, t) => Satisfied(new, t)
    BY <1>1 DEF Satisfied
  <2>2. Broken(st) => Broken(new)
    BY <1>1 DEF Broken, TaskTerminal
  <2>3. TasksSound(new)
    BY <1>1, <2>1, <2>2 DEF TasksSound
  <2>4. QED
    BY <2>1, <2>3
<1>2. \A t \in Task : \/ SkipBlocked(st)[t] = st[t]
                      \/ /\ Broken(st) /\ SkipBlocked(st)[t] = "skipped"
                         /\ st[t] \notin TaskTerminal
  <2>1. ~Broken(st) => Contagious(st, {})
    BY DEF Contagious, Broken
  <2>2. QED
    BY <2>1 DEF SkipBlocked, TaskTerminal
<1>3. \A t \in Task : \/ StopAfterUnknown(st)[t] = st[t]
                      \/ /\ Broken(st) /\ StopAfterUnknown(st)[t] = "skipped"
                         /\ st[t] \notin TaskTerminal
  BY DEF StopAfterUnknown, Broken
<1>4. QED
  BY <1>1, <1>2, <1>3, SkippingType

\* No chain of blocked tasks leads to a task that waits for nothing.
LEMMA SatisfiedNotSkipped ==
  ASSUME NEW st \in [Task -> TaskStatus], NEW t \in Task, st[t] = "pending", Satisfied(st, t)
  PROVE  SkipBlocked(st)[t] = "pending"
<1> DEFINE S == {u \in Task : st[u] \notin {"succeeded", "skipped"} /\ u # t}
<1>1. Contagious(st, S)
  BY DEF Contagious, Satisfied
<1>2. S \in SUBSET Task /\ t \notin S
  OBVIOUS
<1>3. QED
  BY <1>1, <1>2 DEF SkipBlocked

LEMMA WithTasksSound ==
  ASSUME NEW p \in PlanType, NEW st \in [Task -> TaskStatus], TasksSound(st)
  PROVE  Sound(WithTasks(p, st))
<1>1. WithTasks(p, st).task = st /\ WithTasks(p, st).status = RefreshedStatus(st)
  BY DEF WithTasks, PlanType
<1>2. QED
  BY <1>1, RefreshSound DEF Sound

\* The operations the executor calls keep a plan sound.
LEMMA BeginSound ==
  ASSUME NEW p \in PlanType, Sound(p), NEW t \in Task, CanStart(p, t)
  PROVE  /\ Sound(StartTask(p, t))
         /\ t \in NeedsApproval => Sound(RequestApproval(p, t))
<1> DEFINE st == p.task
<1>1. st \in [Task -> TaskStatus] /\ TasksSound(st) /\ st[t] = "pending" /\ Satisfied(st, t)
  BY DEF PlanType, Sound, CanStart, ReadyTasks, Satisfied
<1>2. /\ StartTask(p, t).task = [st EXCEPT ![t] = "running"]
      /\ StartTask(p, t).status = "running"
      /\ RequestApproval(p, t).task = [st EXCEPT ![t] = "waiting_approval"]
      /\ RequestApproval(p, t).status = "waiting_approval"
  BY DEF StartTask, RequestApproval, PlanType
<1> HIDE DEF st
<1>3. /\ TasksSound([st EXCEPT ![t] = "running"])
      /\ [st EXCEPT ![t] = "running"][t] = "running"
  BY <1>1, SetSound
<1>4. t \in NeedsApproval =>
        /\ TasksSound([st EXCEPT ![t] = "waiting_approval"])
        /\ [st EXCEPT ![t] = "waiting_approval"][t] = "waiting_approval"
  BY <1>1, SetSound
<1>5. Sound(StartTask(p, t))
  BY <1>2, <1>3 DEF Sound, StatusSound, Goes
<1>6. t \in NeedsApproval => Sound(RequestApproval(p, t))
  BY <1>2, <1>4 DEF Sound, StatusSound
<1>7. QED
  BY <1>5, <1>6

LEMMA EndSound ==
  ASSUME NEW p \in PlanType, Sound(p), NEW t \in Task, p.task[t] = "running"
  PROVE  Sound(SucceedTask(p, t)) /\ Sound(FailTask(p, t))
<1> DEFINE st == p.task
           Set(s) == [st EXCEPT ![t] = s]
<1>1. st \in [Task -> TaskStatus] /\ TasksSound(st)
  BY DEF PlanType, Sound
<1>2. \A s \in {"pending", "succeeded", "failed"} :
        Set(s) \in [Task -> TaskStatus] /\ TasksSound(Set(s))
  BY <1>1, SetSound DEF TaskStatus
<1>3. /\ SkipBlocked(Set("failed")) \in [Task -> TaskStatus]
      /\ TasksSound(SkipBlocked(Set("failed")))
  BY <1>2, SkipSound, SkippingType
<1>4. QED
  BY <1>2, <1>3, WithTasksSound DEF SucceedTask, FailTask

LEMMA ApproveSound ==
  ASSUME NEW p \in PlanType, Sound(p), NEW t \in Task, CanApprove(p, t)
  PROVE  Sound(ApproveTask(p, t))
<1> DEFINE st == p.task
           new == [st EXCEPT ![t] = "pending"]
<1>1. /\ st \in [Task -> TaskStatus] /\ TasksSound(st) /\ st[t] = "waiting_approval"
      /\ Satisfied(st, t)
  BY DEF PlanType, Sound, CanApprove, CanResume, TasksSound
<1>2. ApproveTask(p, t).task = new /\ ApproveTask(p, t).status = "pending"
  BY DEF ApproveTask, ResumeTask, PlanType
<1> HIDE DEF st
<1>3. TasksSound(new) /\ new[t] = "pending" /\ Satisfied(new, t)
  BY <1>1, SetSound
<1> HIDE DEF new
<1>4. QED
  BY <1>2, <1>3 DEF Sound, StatusSound, Goes

LEMMA RecoverSound ==
  ASSUME NEW p \in PlanType, Sound(p)
  PROVE  Sound(RecoverInterrupted(p))
<1> DEFINE cut == {t \in Task : p.task[t] = "running"}
           base == [t \in Task |-> IF t \notin cut THEN p.task[t]
                                   ELSE IF t \in SideEffect THEN "unknown_outcome"
                                   ELSE "pending"]
           skip == SkipBlocked(base)
           st == StopAfterUnknown(skip)
<1>1. CASE cut = {}
  BY <1>1 DEF RecoverInterrupted
<1>2. CASE cut # {}
  <2>1. PICK u \in Task : p.task[u] = "running"
    BY <1>2
  <2>2. p.task \in [Task -> TaskStatus] /\ TasksSound(p.task)
    BY DEF PlanType, Sound
  <2>3. base \in [Task -> TaskStatus]
    BY <2>2 DEF TaskStatus
  <2>4. \A t \in Task : Satisfied(p.task, t) => Satisfied(base, t)
    BY DEF Satisfied
  <2>5. TasksSound(base)
    <3>1. Broken(p.task) => Broken(base)
      BY DEF Broken
    <3>2. QED
      BY <2>2, <2>4, <3>1 DEF TasksSound
  <2>6. Satisfied(base, u) /\ base[u] \in {"unknown_outcome", "pending"}
    BY <2>1, <2>2, <2>4 DEF TasksSound
  <2>7. /\ RecoverInterrupted(p).task = st
        /\ RecoverInterrupted(p).status =
             IF \E t \in Task : st[t] = "unknown_outcome" THEN "failed" ELSE "pending"
    BY <1>2 DEF RecoverInterrupted, PlanType
  <2> HIDE DEF base
  <2>8. /\ skip \in [Task -> TaskStatus] /\ TasksSound(skip)
        /\ Satisfied(skip, u)
    BY <2>3, <2>5, <2>6, SkipSound, SkippingType
  <2>9. \A t \in Task : base[t] = "unknown_outcome" => skip[t] = "unknown_outcome"
    BY DEF SkipBlocked
  <2>10. base[u] = "pending" => skip[u] = "pending"
    BY <2>3, <2>6, SatisfiedNotSkipped
  <2> HIDE DEF skip
  <2>11. TasksSound(st)
    BY <2>8, SkipSound
  <2>12. CASE \E t \in Task : skip[t] = "unknown_outcome"
    <3>1. \E t \in Task : st[t] = "unknown_outcome"
      BY <2>12 DEF StopAfterUnknown, TaskTerminal
    <3>2. RecoverInterrupted(p).status = "failed"
      BY <2>7, <3>1
    <3>3. QED
      BY <2>7, <2>11, <3>1, <3>2 DEF Sound, StatusSound, Broken
  <2>13. CASE ~\E t \in Task : skip[t] = "unknown_outcome"
    <3>1. st = skip
      BY <2>8, <2>13 DEF StopAfterUnknown
    <3>2. skip[u] = "pending"
      BY <2>6, <2>9, <2>10, <2>13
    <3>3. RecoverInterrupted(p).status = "pending"
      BY <2>7, <2>13, <3>1
    <3>4. Goes(skip)
      BY <2>8, <3>2 DEF Goes
    <3>5. QED
      BY <2>7, <2>8, <3>1, <3>3, <3>4 DEF Sound, StatusSound
  <2>14. QED
    BY <2>12, <2>13
<1>3. QED
  BY <1>1, <1>2

\* While a call runs, a task runs only where a coroutine is at its handler.
Manned == exec = "running" =>
  \A t \in Task : plan.task[t] = "running" => pc[t] \in {"starting", "handler", "acted"}

SettleInv == Sound(plan) /\ Sound(disk) /\ Manned

LEMMA SettleInit == Init => SettleInv
<1>1. \E t \in Task : DependsOn[t] \cap Task = {}
  BY DagAssumption
<1>2. Sound(NewPlan)
  BY <1>1 DEF NewPlan, Sound, TasksSound, StatusSound, Goes, Satisfied, Broken
<1>3. QED
  BY <1>2 DEF Init, SettleInv, Manned

LEMMA SettleStep ==
  TypeOK /\ HandlerIsJournaled /\ SettleInv /\ [Next]_vars => SettleInv'
<1> SUFFICES ASSUME TypeOK, HandlerIsJournaled, SettleInv, [Next]_vars
             PROVE  SettleInv'
  OBVIOUS
<1> USE DEF Goto, Save
<1>1. plan \in PlanType /\ Sound(plan) /\ Sound(disk) /\ pc \in [Task -> PcState]
  BY DEF TypeOK, SettleInv
<1>2. ASSUME Sound(plan'), disk' \in {disk, plan'}, Manned'
      PROVE  SettleInv'
  <2>1. Sound(plan)' /\ Sound(disk)'
    BY <1>1, <1>2 DEF Sound
  <2>2. QED
    BY <1>2, <2>1 DEF SettleInv
<1>3. CASE UNCHANGED vars
  <2>1. Manned'
    BY <1>3 DEF vars, SettleInv, Manned
  <2>2. QED
    BY <1>1, <1>2, <1>3, <2>1 DEF vars
<1>4. CASE Execute
  <2>1. Sound(plan') /\ Manned'
    BY <1>1, <1>4, RecoverSound, RecoverKeeps DEF Execute, Manned
  <2>2. QED
    BY <1>2, <1>4, <2>1 DEF Execute
<1>5. CASE StartWave \/ Return \/ CancelExecute \/ Crash
  <2>1. Manned'
    BY <1>5 DEF StartWave, Return, CancelExecute, Crash, SettleInv, Manned
  <2>2. plan' = plan /\ disk' \in {disk, plan}
    BY <1>5 DEF StartWave, Return, CancelExecute, Crash
  <2>3. QED
    BY <1>1, <1>2, <2>1, <2>2
<1>6. CASE Load
  <2>1. Sound(plan') /\ Manned'
    BY <1>1, <1>6 DEF Load, Manned
  <2>2. QED
    BY <1>2, <1>6, <2>1 DEF Load
<1>7. ASSUME NEW t \in Task, Step(t) \/ EventRefused(t) \/ Approve(t)
      PROVE  SettleInv'
  <2>1. CASE AskApproval(t)
    <3>1. Sound(plan')
      BY <1>1, <2>1, BeginSound DEF AskApproval, CanRequestApproval, CanStart
    <3>2. Manned'
      <4>1. plan.task[t] = "pending"
        BY <2>1 DEF AskApproval, CanRequestApproval, ReadyTasks
      <4>2. \A u \in Task : plan'.task[u] = "running" => u # t /\ plan.task[u] = "running"
        BY <1>1, <2>1, OwnTask, OthersNotStarted DEF AskApproval
      <4>3. QED
        BY <1>1, <2>1, <4>2 DEF AskApproval, SettleInv, Manned
    <3>3. QED
      BY <1>2, <2>1, <3>1, <3>2 DEF AskApproval
  <2>2. CASE FailUnhandled(t)
    <3> DEFINE s == StartTask(plan, t)
    <3>1. s \in PlanType /\ Sound(s) /\ s.task[t] = "running"
      BY <1>1, <2>2, BeginSound, OwnTask, OperationsType DEF FailUnhandled
    <3>2. \A u \in Task : u # t /\ s.task[u] = "running" => plan.task[u] = "running"
      BY <1>1, OthersNotStarted
    <3>3. plan' = FailTask(s, t)
      BY <2>2 DEF FailUnhandled
    <3> HIDE DEF s
    <3>4. Sound(plan')
      BY <3>1, <3>3, EndSound
    <3>5. plan'.task[t] # "running"
      BY <3>1, <3>3, FailedTask
    <3>6. \A u \in Task : u # t /\ plan'.task[u] = "running" => s.task[u] = "running"
      BY <3>1, <3>3, OthersNotStarted
    <3>7. Manned'
      BY <1>1, <2>2, <3>2, <3>5, <3>6 DEF FailUnhandled, SettleInv, Manned
    <3>8. QED
      BY <1>2, <2>2, <3>4, <3>7 DEF FailUnhandled
  <2>3. CASE Start(t) \/ Retry(t)
    <3>1. Sound(plan') /\ disk' = plan'
      BY <1>1, <2>3, BeginSound DEF Start, Retry
    <3>2. \A u \in Task : u # t /\ plan'.task[u] = "running" => plan.task[u] = "running"
      BY <1>1, <2>3, OthersNotStarted DEF Start, Retry
    <3>3. Manned'
      BY <1>1, <2>3, <3>2 DEF Start, Retry, SettleInv, Manned
    <3>4. QED
      BY <1>2, <3>1, <3>3
  <2>4. CASE HandlerReturns(t) \/ HandlerFails(t)
    <3>1. plan.task[t] = "running"
      BY <2>4 DEF HandlerReturns, HandlerFails, HandlerIsJournaled
    <3>2. Sound(plan') /\ disk' = disk
      BY <1>1, <2>4, <3>1, EndSound DEF HandlerReturns, HandlerFails
    <3>3. \A u \in Task : plan'.task[u] = "running" => u # t /\ plan.task[u] = "running"
      BY <1>1, <2>4, OthersNotStarted, OwnTask, FailedTask DEF HandlerReturns, HandlerFails
    <3>4. Manned'
      BY <1>1, <2>4, <3>3 DEF HandlerReturns, HandlerFails, SettleInv, Manned
    <3>5. QED
      BY <1>2, <3>2, <3>4
  <2>5. CASE Approve(t)
    <3>1. Sound(plan')
      BY <1>1, <2>5, ApproveSound DEF Approve
    <3>2. \A u \in Task : plan'.task[u] = "running" => plan.task[u] = "running"
      BY <1>1, <2>5, OthersNotStarted, OwnTask DEF Approve
    <3>3. Manned'
      BY <2>5, <3>2 DEF Approve, SettleInv, Manned
    <3>4. QED
      BY <1>2, <2>5, <3>1, <3>3 DEF Approve
  <2>6. CASE EnterRaises(t) \/ RetryRaises(t) \/ EventRefused(t)
    <3>1. plan' = plan /\ disk' \in {disk, plan'} /\ exec' # "running"
      BY <2>6 DEF EnterRaises, RetryRaises, EventRefused, Raise
    <3>2. QED
      BY <1>1, <1>2, <3>1 DEF Manned
  <2>7. CASE Reported(t) \/ CallHandler(t) \/ Act(t) \/ Ended(t)
    <3>1. plan' = plan /\ disk' \in {disk, plan'} /\ exec' = exec
      BY <2>7 DEF Reported, CallHandler, Act, Ended
    <3>2. \A u \in Task : pc[u] \in {"starting", "handler", "acted"} =>
                            pc'[u] \in {"starting", "handler", "acted"}
      BY <1>1, <2>7 DEF Reported, CallHandler, Act, Ended
    <3>3. Manned'
      BY <3>1, <3>2 DEF SettleInv, Manned
    <3>4. QED
      BY <1>1, <1>2, <3>1, <3>3
  <2>8. QED
    BY <1>7, <2>1, <2>2, <2>3, <2>4, <2>5, <2>6, <2>7 DEF Step
<1>8. QED
  BY <1>3, <1>4, <1>5, <1>6, <1>7 DEF Next

\* When no coroutine is left and nothing can be started, the plan has ended or
\* waits for the user.
LEMMA ReturnSettles ==
  ASSUME TypeOK, SettleInv, Return
  PROVE  /\ disk' = plan'
         /\ \A t \in Task : plan'.task[t] # "running"
         /\ \/ plan'.status = "failed" /\ \E t \in Task : plan'.task[t] \in {"failed", "unknown_outcome"}
            \/ plan'.status = "waiting_approval" /\ \E t \in Task : CanApprove(plan', t)
            \/ plan'.status = "succeeded" /\ \A t \in Task : plan'.task[t] = "succeeded"
<1>1. plan' = plan /\ disk' = plan
  BY DEF Return
<1>2. \A t \in Task : plan.task[t] # "running"
  BY DEF Return, SettleInv, Manned, Active
<1>3. plan.status \in PlanStatus /\ TasksSound(plan.task) /\ StatusSound(plan.status, plan.task)
  BY DEF TypeOK, PlanType, SettleInv, Sound
<1>4. plan.status \notin {"pending", "running"}
  <2>1. SUFFICES ASSUME plan.status \in {"pending", "running"}
                 PROVE  FALSE
    OBVIOUS
  <2>2. PICK t \in Task : plan.task[t] = "pending" /\ Satisfied(plan.task, t)
    BY <1>2, <1>3, <2>1 DEF StatusSound, Goes
  <2>3. t \in ReadyTasks(plan)
    BY <2>1, <2>2 DEF ReadyTasks, Satisfied, PlanTerminal
  <2>4. QED
    BY <2>1, <2>3 DEF Return, Waveless, PlanTerminal
<1>5. plan.status \in {"failed", "waiting_approval", "succeeded"}
  BY <1>3, <1>4 DEF PlanStatus, StatusSound
<1>6. plan.status = "failed" => \E t \in Task : plan.task[t] \in {"failed", "unknown_outcome"}
  BY <1>3 DEF StatusSound, Broken
<1>7. plan.status = "waiting_approval" => \E t \in Task : CanApprove(plan, t)
  BY <1>3 DEF StatusSound, TasksSound, CanApprove, CanResume
<1>8. plan.status = "succeeded" => \A t \in Task : plan.task[t] = "succeeded"
  BY <1>3 DEF StatusSound
<1>9. QED
  BY <1>1, <1>2, <1>5, <1>6, <1>7, <1>8

\* A call that returns leaves no task running and a plan, in memory as on disk,
\* that has failed, waits for an approval that can be given, or has succeeded in
\* every task: it never returns with work that could go on.
THEOREM ReturnsAreSettled == Spec => ReturnsSettled
<1>1. TypeOK /\ SettleInv /\ [Next]_vars =>
        [exec = "running" /\ exec' = "returned" =>
           /\ disk' = plan'
           /\ \A t \in Task : plan'.task[t] # "running"
           /\ \/ plan'.status = "failed" /\ \E t \in Task : plan'.task[t] \in {"failed", "unknown_outcome"}
              \/ plan'.status = "waiting_approval" /\ \E t \in Task : CanApprove(plan', t)
              \/ plan'.status = "succeeded" /\ \A t \in Task : plan'.task[t] = "succeeded"]_vars
  <2> SUFFICES ASSUME TypeOK, SettleInv, Next, exec = "running", exec' = "returned"
               PROVE  Return
    BY ReturnSettles
  <2>1. ASSUME NEW t \in Task, Step(t) \/ EventRefused(t) \/ Approve(t)
        PROVE  exec' \in {exec, "raised"}
    BY <2>1 DEF Step, AskApproval, FailUnhandled, Start, EnterRaises, Reported,
                CallHandler, Act, HandlerReturns, HandlerFails, Ended, Retry, RetryRaises,
                EventRefused, Approve, Raise
  <2>2. QED
    BY <2>1 DEF Next, Execute, StartWave, CancelExecute, Crash, Load
<1>2. Spec => []SettleInv
  BY SettleInit, SettleStep, TypeCorrect, HandlersJournaled, PTL DEF Spec
<1>3. QED
  BY <1>1, <1>2, TypeCorrect, PTL DEF Spec, ReturnsSettled

=============================================================================
