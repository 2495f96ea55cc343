---------------------------- MODULE RunLifecycle -----------------------------
(***************************************************************************)
(* The durable issue-triage runs of the API deployment: the run row and    *)
(* its lease (persistence/repository.py), the worker loop                  *)
(* (runtime/worker.py), the step machine (runtime/issue_triage.py), the    *)
(* approval and cancel endpoints (api/app.py), the invocation journal and  *)
(* the budgets (tools/).                                                   *)
(*                                                                         *)
(* One action is one committed database transaction, one tool execution    *)
(* between two transactions, or an event of the environment: a crash, a    *)
(* restart, a lease that runs out, a request of the client.  A transaction *)
(* takes the run row FOR UPDATE, so it is atomic; what a worker remembers  *)
(* between two of them is in pc, job and prepared and may be stale.        *)
(***************************************************************************)
EXTENDS Naturals, FiniteSets

CONSTANTS
  Runs,
  Workers,            \* worker processes
  WorkerId,           \* [Workers -> settings.worker_id]: two processes may share one
  NoOwner,            \* lease_owner = None
  NoRun,              \* an idle worker's job
  MaxModelTurns,      \* BudgetSnapshot.max_model_turns
  MaxToolCalls,       \* BudgetSnapshot.max_tool_calls
  MaxRepeatedAction   \* BudgetSnapshot.max_repeated_action

ASSUME RunsAssumption == NoRun \notin Runs

ASSUME WorkersAssumption == \A w \in Workers : WorkerId[w] # NoOwner

ASSUME BudgetAssumption == /\ MaxModelTurns \in Nat
                           /\ MaxToolCalls \in Nat
                           /\ MaxRepeatedAction \in Nat

VARIABLES
  status,     \* RunModel.status; "absent" before the run is created
  reason,     \* RunModel.terminal_reason
  owner,      \* RunModel.lease_owner
  lease,      \* "held" until lease_expires_at passes, then "expired"
  phase,      \* runtime_state["phase"]
  plan,       \* runtime_state["plan"]
  inv,        \* the status of the invocation each tool phase begins
  approval,   \* the approval row of the apply_patch invocation
  turns,      \* budget_usage.model_turns
  repeats,    \* budget_usage.repeated_actions, per tool
  effects,    \* how often apply_patch wrote its file
  pc,         \* where each worker is in run_once
  job,        \* the run it claimed
  prepared    \* PreparedToolCall.phase

store  == <<status, reason, owner, lease, phase, plan, inv, approval, turns, repeats>>
worker == <<pc, job, prepared>>
vars   == <<store, effects, worker>>

-----------------------------------------------------------------------------
(* The scripted model and the plan it works through. *)

RunStatus   == {"queued", "running", "waiting_approval", "succeeded", "failed",
                "cancelled"}
RunTerminal == {"succeeded", "failed", "cancelled"}
Reasons     == {"none", "completed", "user_cancelled", "approval_rejected",
                "budget_exhausted", "sandbox_timeout", "tool_unrecoverable",
                "unknown_external_outcome", "internal_error"}

ToolPhase == {"skill_loaded", "tests_failed", "source_read", "patch_created",
              "patch_applied"}
Phase     == ToolPhase \cup {"created", "verified"}
Tool      == {"run_tests", "read_file", "create_patch", "apply_patch"}

InvStatus == {"absent", "pending", "running", "succeeded", "failed",
              "unknown_outcome"}
PcState   == {"idle", "claimed", "tool", "returned", "raised", "down"}

\* The tool the model asks for in a phase.
ToolOf(ph) == CASE ph = "tests_failed"  -> "read_file"
                [] ph = "source_read"   -> "create_patch"
                [] ph = "patch_created" -> "apply_patch"
                [] OTHER                -> "run_tests"

NextPhase(ph) == CASE ph = "created"       -> "skill_loaded"
                   [] ph = "skill_loaded"  -> "tests_failed"
                   [] ph = "tests_failed"  -> "source_read"
                   [] ph = "source_read"   -> "patch_created"
                   [] ph = "patch_created" -> "patch_applied"
                   [] OTHER                -> "verified"

\* The plan task that _record_plan_action books a phase's action under.
TaskOf(ph) == CASE ph = "created"       -> "skill"
                [] ph = "skill_loaded"  -> "baseline"
                [] ph = "tests_failed"  -> "inspect"
                [] ph = "source_read"   -> "patch"
                [] ph = "patch_created" -> "approval"
                [] ph = "patch_applied" -> "verify"
                [] OTHER                -> "report"

TriageTask == {"skill", "baseline", "inspect", "patch", "approval", "verify",
               "report"}

TriageDependsOn ==
  [t \in TriageTask |-> CASE t = "skill"    -> {}
                          [] t = "baseline" -> {"skill"}
                          [] t = "inspect"  -> {"baseline"}
                          [] t = "patch"    -> {"inspect"}
                          [] t = "approval" -> {"patch"}
                          [] t = "verify"   -> {"approval"}
                          [] t = "report"   -> {"verify"}]

Plan == INSTANCE ExecutionPlan WITH
          Task <- TriageTask, DependsOn <- TriageDependsOn,
          SideEffect <- {"approval"}, NeedsApproval <- {"approval"},
          MaxAttempts <- [t \in TriageTask |-> 1]

-----------------------------------------------------------------------------
(* Pieces of the transactions. *)

Approved(r) == approval[r] = "approved"

CallsTool(r) == phase[r] \in ToolPhase /\ (phase[r] = "patch_created" => Approved(r))

ToolCalls(r) == repeats[r]["run_tests"] + repeats[r]["read_file"]
                + repeats[r]["create_patch"] + repeats[r]["apply_patch"]

CallsExhausted(r) == \/ ToolCalls(r) >= MaxToolCalls
                     \/ repeats[r][ToolOf(phase[r])] >= MaxRepeatedAction

\* Mutations of Owns: the owner is not compared; nothing is re-read at all.
OwnsUnfenced(w, r) == job[w] = r /\ status[r] = "running"
OwnsOnceClaimed(w, r) == job[w] = r

\* execute_claimed, _execute_prepared and _fail_prepared re-read the row and
\* go on only if it is still running under this worker's id.
Owns(w, r) == job[w] = r /\ status[r] = "running" /\ owner[r] = WorkerId[w]

Stepping(w, r) == pc[w] = "claimed" /\ Owns(w, r)

\* RunRepository.transition to a terminal status drops the lease.
Close(r, target, why) ==
  /\ status' = [status EXCEPT ![r] = target]
  /\ reason' = [reason EXCEPT ![r] = why]
  /\ owner' = [owner EXCEPT ![r] = NoOwner]
  /\ lease' = [lease EXCEPT ![r] = "none"]

\* Any other target leaves lease_owner and lease_expires_at as they are.
MoveTo(r, target) ==
  /\ status' = [status EXCEPT ![r] = target]
  /\ UNCHANGED <<reason, owner, lease>>

\* The worker forgets the run; "created" prepares no tool.
Leave(w, to) ==
  /\ pc' = [pc EXCEPT ![w] = to]
  /\ job' = [job EXCEPT ![w] = NoRun]
  /\ prepared' = [prepared EXCEPT ![w] = "created"]

Release(w) == Leave(w, "idle")

SetPlan(r, p) == plan' = [plan EXCEPT ![r] = p]

\* _record_plan_action(completed=False) on the phase's task.
StartedPlan(r) ==
  LET t == TaskOf(phase[r])
      p == IF plan[r].task[t] = "waiting_approval" /\ t \in plan[r].approved
           THEN Plan!ResumeTask(plan[r], t) ELSE plan[r]
  IN IF Plan!CanStart(p, t) /\ (t = "approval" => t \in p.approved)
     THEN Plan!StartTask(p, t) ELSE p

\* Mutation of CompletedPlan: the task is never marked done.
CompletedPlanLost(p, t) == p

\* _record_plan_action(completed=True).
CompletedPlan(p, t) == IF Plan!CanSucceed(p, t) THEN Plan!SucceedTask(p, t) ELSE p

\* InvocationRepository.begin: the row of an earlier attempt is found again.
Begun(r) == IF phase[r] \in ToolPhase /\ inv[r][phase[r]] = "absent"
            THEN [inv EXCEPT ![r][phase[r]] = "pending"] ELSE inv

UseTurn(r) == turns' = [turns EXCEPT ![r] = @ + 1]

UseCall(r) == repeats' = [repeats EXCEPT ![r][ToolOf(phase[r])] = @ + 1]

WithinBudget(r) == /\ turns[r] < MaxModelTurns
                   /\ CallsTool(r) => ~CallsExhausted(r)

-----------------------------------------------------------------------------
Init ==
  /\ status = [r \in Runs |-> "absent"]
  /\ reason = [r \in Runs |-> "none"]
  /\ owner = [r \in Runs |-> NoOwner]
  /\ lease = [r \in Runs |-> "none"]
  /\ phase = [r \in Runs |-> "created"]
  /\ plan = [r \in Runs |-> Plan!NewPlan]
  /\ inv = [r \in Runs |-> [ph \in ToolPhase |-> "absent"]]
  /\ approval = [r \in Runs |-> "none"]
  /\ turns = [r \in Runs |-> 0]
  /\ repeats = [r \in Runs |-> [t \in Tool |-> 0]]
  /\ effects = [r \in Runs |-> 0]
  /\ pc = [w \in Workers |-> "idle"]
  /\ job = [w \in Workers |-> NoRun]
  /\ prepared = [w \in Workers |-> "created"]

\* POST /api/runs.  A repeat with the same Idempotency-Key finds the row and
\* changes nothing.
CreateRun(r) ==
  /\ status[r] = "absent"
  /\ MoveTo(r, "queued")
  /\ UNCHANGED <<phase, plan, inv, approval, turns, repeats, effects, worker>>

\* Mutation of ClaimNext: expired leases are not recovered.
ClaimNextQueuedOnly(w, r) ==
  /\ pc[w] = "idle" /\ status[r] = "queued"
  /\ status' = [status EXCEPT ![r] = "running"]
  /\ owner' = [owner EXCEPT ![r] = WorkerId[w]]
  /\ lease' = [lease EXCEPT ![r] = "held"]
  /\ pc' = [pc EXCEPT ![w] = "claimed"]
  /\ job' = [job EXCEPT ![w] = r]
  /\ UNCHANGED <<reason, phase, plan, inv, approval, turns, repeats, effects, prepared>>

\* claim_next: a queued run, or a running one whose lease has run out.  SKIP
\* LOCKED passes over rows other transactions hold, so any of them may be it.
ClaimNext(w, r) ==
  /\ pc[w] = "idle"
  /\ \/ status[r] = "queued"
     \/ status[r] = "running" /\ lease[r] = "expired"
  /\ status' = [status EXCEPT ![r] = "running"]
  /\ owner' = [owner EXCEPT ![r] = WorkerId[w]]
  /\ lease' = [lease EXCEPT ![r] = "held"]
  /\ pc' = [pc EXCEPT ![w] = "claimed"]
  /\ job' = [job EXCEPT ![w] = r]
  /\ UNCHANGED <<reason, phase, plan, inv, approval, turns, repeats, effects, prepared>>

-----------------------------------------------------------------------------
(* execute_claimed and _advance: one transaction, many outcomes. *)

\* The run was cancelled or re-claimed since this worker claimed it.
AdvanceRefused(w) ==
  /\ pc[w] = "claimed"
  /\ ~Owns(w, job[w])
  /\ Release(w)
  /\ UNCHANGED <<store, effects>>

\* BudgetExceededError: wall time first, then turns, then tool calls.  The
\* usage counted so far is not written back.
AdvanceOverBudget(w, r) ==
  /\ Stepping(w, r)
  /\ \/ SetPlan(r, Plan!AbortPlan(plan[r])) /\ UNCHANGED inv
     \/ /\ turns[r] >= MaxModelTurns
        /\ SetPlan(r, Plan!AbortPlan(StartedPlan(r)))
        /\ UNCHANGED inv
     \/ /\ turns[r] < MaxModelTurns
        /\ CallsTool(r) /\ CallsExhausted(r)
        /\ SetPlan(r, Plan!AbortPlan(StartedPlan(r)))
        /\ inv' = Begun(r)
  /\ Close(r, "failed", "budget_exhausted")
  /\ Release(w)
  /\ UNCHANGED <<phase, approval, turns, repeats, effects>>

\* load_skill and a cached result store the next phase before the plan is
\* marked completed, which can still raise.
PhaseWritten(r) == \/ phase[r] = "created"
                   \/ CallsTool(r) /\ inv[r][phase[r]] = "succeeded"

\* Any other exception (workspace quota, skill loading, artifact store, ...),
\* before or after the plan was marked started and the invocation begun.  One
\* that also breaks the handler (the plan's file, the database) rolls the
\* transaction back and ends the worker process, as Crash(w) does.
AdvanceBroken(w, r) ==
  /\ Stepping(w, r)
  /\ \/ SetPlan(r, Plan!AbortPlan(plan[r])) /\ UNCHANGED <<inv, phase>>
     \/ /\ SetPlan(r, Plan!AbortPlan(StartedPlan(r)))
        /\ inv' \in {inv, Begun(r)}
        /\ phase' \in {phase} \cup (IF PhaseWritten(r)
                                    THEN {[phase EXCEPT ![r] = NextPhase(@)]} ELSE {})
  /\ Close(r, "failed", "internal_error")
  /\ Release(w)
  /\ UNCHANGED <<approval, turns, repeats, effects>>

AdvanceLoadSkill(w, r) ==
  /\ Stepping(w, r) /\ WithinBudget(r)
  /\ phase[r] = "created"
  /\ phase' = [phase EXCEPT ![r] = "skill_loaded"]
  /\ SetPlan(r, CompletedPlan(StartedPlan(r), "skill"))
  /\ UseTurn(r)
  /\ MoveTo(r, "queued")
  /\ Release(w)
  /\ UNCHANGED <<inv, approval, repeats, effects>>

AdvanceFinish(w, r) ==
  /\ Stepping(w, r) /\ WithinBudget(r)
  /\ phase[r] = "verified"
  /\ SetPlan(r, CompletedPlan(StartedPlan(r), "report"))
  /\ UseTurn(r)
  /\ Close(r, "succeeded", "completed")
  /\ Release(w)
  /\ UNCHANGED <<phase, inv, approval, repeats, effects>>

\* The patch needs a decision: no tool call is consumed.  If the plan refuses
\* request_approval the exception reaches execute_claimed with the run already
\* waiting; FAILED is then an invalid transition, the transaction rolls back
\* and the worker process ends, which Crash(w) covers.
AdvanceAskApproval(w, r) ==
  /\ Stepping(w, r) /\ WithinBudget(r)
  /\ phase[r] = "patch_created" /\ approval[r] = "none"
  /\ Plan!CanRequestApproval(StartedPlan(r), "approval")
  /\ approval' = [approval EXCEPT ![r] = "pending"]
  /\ inv' = Begun(r)
  /\ SetPlan(r, Plan!RequestApproval(StartedPlan(r), "approval"))
  /\ UseTurn(r)
  /\ MoveTo(r, "waiting_approval")
  /\ Release(w)
  /\ UNCHANGED <<phase, repeats, effects>>

\* An earlier attempt already succeeded: take its recorded result.
AdvanceCached(w, r) ==
  /\ Stepping(w, r) /\ WithinBudget(r) /\ CallsTool(r)
  /\ inv[r][phase[r]] = "succeeded"
  /\ phase' = [phase EXCEPT ![r] = NextPhase(phase[r])]
  /\ SetPlan(r, CompletedPlan(StartedPlan(r), TaskOf(phase[r])))
  /\ UseTurn(r) /\ UseCall(r)
  /\ MoveTo(r, "queued")
  /\ Release(w)
  /\ UNCHANGED <<inv, approval, effects>>

\* Mutation of Interrupted: an interrupted patch is retried like a read.
InterruptedNever(r) == FALSE

Interrupted(r) == /\ phase[r] = "patch_created"
                  /\ inv[r]["patch_created"] \in {"running", "unknown_outcome"}

\* A side effect somebody started and nobody finished is never replayed.
AdvanceUnknown(w, r) ==
  /\ Stepping(w, r) /\ WithinBudget(r) /\ CallsTool(r)
  /\ Interrupted(r)
  /\ Plan!CanMarkUnknown(StartedPlan(r), "approval")
  /\ inv' = [inv EXCEPT ![r]["patch_created"] = "unknown_outcome"]
  /\ SetPlan(r, Plan!MarkUnknown(StartedPlan(r), "approval"))
  /\ UseTurn(r) /\ UseCall(r)
  /\ Close(r, "failed", "unknown_external_outcome")
  /\ Release(w)
  /\ UNCHANGED <<phase, approval, effects>>

\* First attempt, or the retry of an interrupted tool without side effects.
AdvancePrepare(w, r) ==
  /\ Stepping(w, r) /\ WithinBudget(r) /\ CallsTool(r)
  /\ inv[r][phase[r]] # "succeeded"
  /\ ~Interrupted(r)
  /\ inv' = [inv EXCEPT ![r][phase[r]] = "running"]
  /\ SetPlan(r, StartedPlan(r))
  /\ UseTurn(r) /\ UseCall(r)
  /\ pc' = [pc EXCEPT ![w] = "tool"]
  /\ prepared' = [prepared EXCEPT ![w] = phase[r]]
  /\ UNCHANGED <<status, reason, owner, lease, phase, approval, effects, job>>

-----------------------------------------------------------------------------
(* _execute_prepared: the tool, then the transaction that records it. *)

\* The tool ends, with a result or an exception.  A write that raises may
\* have happened or not.
RunTool(w) ==
  /\ pc[w] = "tool"
  /\ \E end \in {"returned", "raised"} :
       /\ pc' = [pc EXCEPT ![w] = end]
       /\ effects' \in {IF prepared[w] = "patch_created"
                        THEN [effects EXCEPT ![job[w]] = @ + 1] ELSE effects}
                       \cup (IF end = "raised" THEN {effects} ELSE {})
  /\ UNCHANGED <<store, job, prepared>>

\* The lease moved on while the tool ran: its outcome is dropped.
ResultRefused(w) ==
  /\ pc[w] \in {"returned", "raised"}
  /\ ~Owns(w, job[w])
  /\ Release(w)
  /\ UNCHANGED <<store, effects>>

CompletePrepared(w, r) ==
  /\ pc[w] = "returned" /\ Owns(w, r)
  /\ inv' = [inv EXCEPT ![r][prepared[w]] = "succeeded"]
  /\ phase' = [phase EXCEPT ![r] = NextPhase(prepared[w])]
  /\ SetPlan(r, CompletedPlan(plan[r], TaskOf(prepared[w])))
  /\ MoveTo(r, "queued")
  /\ Release(w)
  /\ UNCHANGED <<approval, turns, repeats, effects>>

\* consume_output (or the workspace quota) raises outside the try: the
\* transaction is lost and the exception ends the worker process, the run still
\* running under its lease.
OutputOverrun(w, r) ==
  /\ pc[w] = "returned" /\ Owns(w, r)
  /\ Leave(w, "down")
  /\ UNCHANGED <<store, effects>>

FailPrepared(w, r) ==
  /\ pc[w] = "raised" /\ Owns(w, r)
  /\ inv' = [inv EXCEPT ![r][prepared[w]] = "failed"]
  /\ LET t == TaskOf(prepared[w])
     IN SetPlan(r, IF Plan!CanFail(plan[r], t) THEN Plan!FailTask(plan[r], t)
                   ELSE plan[r])
  /\ \E why \in {"sandbox_timeout", "tool_unrecoverable"} : Close(r, "failed", why)
  /\ Release(w)
  /\ UNCHANGED <<phase, approval, turns, repeats, effects>>

-----------------------------------------------------------------------------
(* The environment. *)

Crash(w) ==
  /\ pc[w] # "down"
  /\ Leave(w, "down")
  /\ UNCHANGED <<store, effects>>

Restart(w) ==
  /\ pc[w] = "down"
  /\ pc' = [pc EXCEPT ![w] = "idle"]
  /\ UNCHANGED <<store, effects, job, prepared>>

\* lease_expires_at passes; no worker ever calls heartbeat to extend it.
LeaseExpires(r) ==
  /\ status[r] = "running" /\ lease[r] = "held"
  /\ lease' = [lease EXCEPT ![r] = "expired"]
  /\ UNCHANGED <<status, reason, owner, phase, plan, inv, approval, turns, repeats,
                 effects, worker>>

\* POST /api/runs/{id}/cancel.  The approval row is left as it is.
CancelRun(r) ==
  /\ status[r] \in {"queued", "running", "waiting_approval"}
  /\ SetPlan(r, Plan!CancelPlan(plan[r]))
  /\ Close(r, "cancelled", "user_cancelled")
  /\ UNCHANGED <<phase, inv, approval, turns, repeats, effects, worker>>

\* Mutation of Approve: the run is not put back in the queue.
ApproveWithoutRequeue(r) ==
  /\ approval[r] = "pending" /\ status[r] = "waiting_approval"
  /\ approval' = [approval EXCEPT ![r] = "approved"]
  /\ SetPlan(r, Plan!ApproveTask(plan[r], "approval"))
  /\ UNCHANGED <<status, reason, owner, lease, phase, inv, turns, repeats, effects, worker>>

\* POST /api/approvals/{id}/decision, approve.  On a run that no longer waits
\* the transition raises and nothing is committed.
Approve(r) ==
  /\ approval[r] = "pending" /\ status[r] = "waiting_approval"
  /\ approval' = [approval EXCEPT ![r] = "approved"]
  /\ SetPlan(r, IF Plan!CanApprove(plan[r], "approval")
                THEN Plan!ApproveTask(plan[r], "approval") ELSE plan[r])
  /\ MoveTo(r, "queued")
  /\ UNCHANGED <<phase, inv, turns, repeats, effects, worker>>

Reject(r) ==
  /\ approval[r] = "pending" /\ status[r] = "waiting_approval"
  /\ approval' = [approval EXCEPT ![r] = "rejected"]
  /\ SetPlan(r, Plan!CancelPlan(plan[r]))
  /\ Close(r, "cancelled", "approval_rejected")
  /\ UNCHANGED <<phase, inv, turns, repeats, effects, worker>>

-----------------------------------------------------------------------------
Advance(w, r) ==
  \/ AdvanceOverBudget(w, r)
  \/ AdvanceBroken(w, r)
  \/ AdvanceLoadSkill(w, r)
  \/ AdvanceFinish(w, r)
  \/ AdvanceAskApproval(w, r)
  \/ AdvanceCached(w, r)
  \/ AdvanceUnknown(w, r)
  \/ AdvancePrepare(w, r)

Record(w, r) ==
  \/ CompletePrepared(w, r)
  \/ OutputOverrun(w, r)
  \/ FailPrepared(w, r)

Next ==
  \/ \E w \in Workers, r \in Runs : \/ ClaimNext(w, r)
                                    \/ Advance(w, r)
                                    \/ Record(w, r)
  \/ \E w \in Workers : \/ AdvanceRefused(w)
                        \/ RunTool(w)
                        \/ ResultRefused(w)
                        \/ Crash(w)
                        \/ Restart(w)
  \/ \E r \in Runs : \/ CreateRun(r)
                     \/ LeaseExpires(r)
                     \/ CancelRun(r)
                     \/ Approve(r)
                     \/ Reject(r)

Spec == Init /\ [][Next]_vars

-----------------------------------------------------------------------------
(* Properties. *)

\* The values the columns and the worker's locals range over.
TypeOK ==
  /\ status \in [Runs -> RunStatus \cup {"absent"}]
  /\ reason \in [Runs -> Reasons]
  /\ owner \in [Runs -> {WorkerId[w] : w \in Workers} \cup {NoOwner}]
  /\ lease \in [Runs -> {"none", "held", "expired"}]
  /\ phase \in [Runs -> Phase]
  /\ plan \in [Runs -> Plan!PlanType]
  /\ inv \in [Runs -> [ToolPhase -> InvStatus]]
  /\ approval \in [Runs -> {"none", "pending", "approved", "rejected"}]
  /\ turns \in [Runs -> Nat]
  /\ repeats \in [Runs -> [Tool -> Nat]]
  /\ effects \in [Runs -> Nat]
  /\ pc \in [Workers -> PcState]
  /\ job \in [Workers -> Runs \cup {NoRun}]
  /\ prepared \in [Workers -> Phase]

InTool(w, r) == job[w] = r /\ pc[w] \in {"tool", "returned", "raised"}

\* The client's view: the abstract contract with the approval row as the
\* decision.
Contract == INSTANCE RunContract WITH decision <- approval

\* Every history of the run rows is one the contract allows: the patch is
\* written at most once and only after an approval, a run succeeds only with
\* its patch written, terminal states are final.
ContractSpec == Contract!Spec

InPatch(w, r) == InTool(w, r) /\ prepared[w] = "patch_created"

\* Why the contract holds even when worker ids are shared: at any time at most
\* one worker has the patch in hand, only for an approved run, and the journal
\* and the phase say whether it was written.  Inductive together with TypeOK.
PatchAccounted ==
  /\ \A w \in Workers : pc[w] \in {"tool", "returned", "raised"}
                          => job[w] \in Runs /\ prepared[w] \in ToolPhase
  /\ \A r \in Runs :
       /\ effects[r] \in {0, 1}
       /\ inv[r]["patch_created"] \in {"absent", "pending"}
            => effects[r] = 0 /\ \A w \in Workers : ~InPatch(w, r)
       /\ inv[r]["patch_created"] = "succeeded" => effects[r] = 1
       /\ inv[r]["patch_created"] = "failed" => status[r] = "failed"
       /\ phase[r] \in {"patch_applied", "verified"} => effects[r] = 1
  /\ \A w \in Workers, r \in Runs :
       /\ InPatch(w, r) => /\ Approved(r)
                           /\ (pc[w] = "tool" => effects[r] = 0)
                           /\ (pc[w] = "returned" => effects[r] = 1)
                           /\ \A v \in Workers \ {w} : ~InPatch(v, r)
       /\ InTool(w, r) /\ prepared[w] = "patch_applied" => effects[r] = 1

\* What a worker carries over a tool execution is still what the row says
\* when its lease check lets it write: same phase, its invocation running,
\* its task running, and no second worker with the same right.
PreparedIsCurrent ==
  \A w \in Workers, r \in Runs :
    InTool(w, r) /\ Owns(w, r) =>
      /\ phase[r] = prepared[w]
      /\ inv[r][prepared[w]] = "running"
      /\ plan[r].task[TaskOf(prepared[w])] = "running"
      /\ \A v \in Workers \ {w} : ~(pc[v] # "down" /\ Owns(v, r))

Rank(ph) == CASE ph = "created"       -> 0
              [] ph = "skill_loaded"  -> 1
              [] ph = "tests_failed"  -> 2
              [] ph = "source_read"   -> 3
              [] ph = "patch_created" -> 4
              [] ph = "patch_applied" -> 5
              [] OTHER                -> 6

\* The records of progress kept on the row agree.  While the run lives, the tasks
\* before the phase's are done and those after it untouched; while it waits, its
\* approval is open, its plan accepts the answer and the tool has not been
\* started; and whatever ends it closes its plan in the matching status, so that
\* no task stays open under a run nobody will claim again.
PlanFollowsPhase ==
  \A r \in Runs :
    /\ status[r] \notin RunTerminal =>
         \A ph \in Phase :
           /\ Rank(ph) < Rank(phase[r]) => plan[r].task[TaskOf(ph)] = "succeeded"
           /\ Rank(ph) > Rank(phase[r]) => plan[r].task[TaskOf(ph)] = "pending"
    /\ status[r] = "waiting_approval" =>
         /\ approval[r] = "pending" /\ Plan!CanApprove(plan[r], "approval")
         /\ plan[r].status = "waiting_approval" /\ inv[r]["patch_created"] = "pending"
    /\ status[r] \in RunTerminal =>
         /\ plan[r].status = status[r]
         /\ \A t \in TriageTask : plan[r].task[t] \in Plan!TaskTerminal
    /\ status[r] = "succeeded" =>
         \A t \in TriageTask : plan[r].task[t] = "succeeded"

\* The journal, the plan and the terminal reason tell the same story about a
\* side effect whose outcome is unknown.
UnknownIsReported ==
  \A r \in Runs :
    /\ inv[r]["patch_created"] = "unknown_outcome"
         <=> reason[r] = "unknown_external_outcome"
    /\ reason[r] = "unknown_external_outcome"
         => plan[r].task["approval"] = "unknown_outcome" /\ status[r] = "failed"

\* Whatever late workers, approvals or cancellations arrive, a finished run's row
\* is never written again, and no run is taken back to an earlier phase or past
\* one.
NothingGoesBack ==
  [][\A r \in Runs :
       /\ Rank(phase'[r]) \in {Rank(phase[r]), Rank(phase[r]) + 1}
       /\ status[r] \in RunTerminal =>
            UNCHANGED <<status[r], reason[r], owner[r], phase[r], plan[r], inv[r],
                        approval[r], turns[r]>>]_vars

\* docs/architecture.md: interrupted side-effecting tools become
\* unknown_outcome.  A closed run whose patch invocation still says running
\* has a worker still at it.
InterruptedEffectIsUnknown ==
  \A r \in Runs :
    status[r] \in RunTerminal /\ inv[r]["patch_created"] = "running"
      => \E w \in Workers : InTool(w, r) /\ prepared[w] = "patch_created"

-----------------------------------------------------------------------------
(* Liveness. *)

\* Worker processes keep running their loop and are restarted when they die,
\* and time passes.  Strong fairness: a worker that keeps coming up does not
\* die before every poll, and one that keeps getting the lease some day gets
\* its transaction through before the lease runs out.  Clients owe nothing.
Fairness ==
  /\ \A w \in Workers :
       /\ SF_vars(\E r \in Runs : Advance(w, r))
       /\ SF_vars(\E r \in Runs : ClaimNext(w, r))
       /\ WF_vars(AdvanceRefused(w))
       /\ WF_vars(RunTool(w))
       /\ WF_vars(ResultRefused(w) \/ \E r \in Runs : Record(w, r))
       /\ WF_vars(Restart(w))
  /\ \A r \in Runs : WF_vars(LeaseExpires(r))

FairSpec == Spec /\ Fairness

\* However often workers die or lose their lease, the budgets bring every run
\* to an end or to a question for the user.
RunSettles ==
  \A r \in Runs : status[r] \in {"queued", "running"}
                    ~> status[r] \in RunTerminal \cup {"waiting_approval"}

\* An approval is never lost: the approved run ends.
ApprovedRunEnds ==
  \A r \in Runs : Approved(r) ~> status[r] \in RunTerminal
=============================================================================
