------------------------- MODULE RunLifecycleProofs --------------------------
(***************************************************************************)
(* Proofs about RunLifecycle, for any number of runs and workers, any      *)
(* assignment of worker ids (shared ones included) and any budget.         *)
(***************************************************************************)
EXTENDS RunLifecycle, TLAPS

-----------------------------------------------------------------------------
(* Type correctness. *)

\* The columns after one row of them changed.
LEMMA PlanUpdate ==
  ASSUME TypeOK, NEW r \in Runs, NEW p \in Plan!PlanType, SetPlan(r, p)
  PROVE  plan' \in [Runs -> Plan!PlanType]
BY DEF TypeOK, SetPlan

LEMMA InvUpdate ==
  ASSUME TypeOK, NEW r \in Runs, NEW ph, NEW s \in InvStatus
  PROVE  [inv EXCEPT ![r][ph] = s] \in [Runs -> [ToolPhase -> InvStatus]]
BY DEF TypeOK

LEMMA BegunType ==
  ASSUME TypeOK, NEW r \in Runs
  PROVE  Begun(r) \in [Runs -> [ToolPhase -> InvStatus]]
<1>1. "pending" \in InvStatus
  BY DEF InvStatus
<1>2. QED
  BY <1>1, InvUpdate DEF Begun, TypeOK

LEMMA PhaseTypes ==
  ASSUME NEW ph \in Phase
  PROVE  /\ NextPhase(ph) \in Phase
         /\ TaskOf(ph) \in TriageTask
         /\ ToolOf(ph) \in Tool
BY DEF Phase, ToolPhase, NextPhase, TaskOf, TriageTask, ToolOf, Tool

\* Recomputing the status of the triage plan after a change of its tasks gives a
\* plan, and what is written to the tasks beside the change is "skipped".
LEMMA PlanWithTasks ==
  ASSUME NEW p \in Plan!PlanType, NEW st \in [TriageTask -> Plan!TaskStatus]
  PROVE  /\ Plan!WithTasks(p, st) \in Plan!PlanType
         /\ Plan!SkipBlocked(st) \in [TriageTask -> Plan!TaskStatus]
         /\ Plan!StopAfterUnknown(st) \in [TriageTask -> Plan!TaskStatus]
<1>1. Plan!RefreshedStatus(st) \in Plan!PlanStatus
  BY DEF Plan!RefreshedStatus, Plan!PlanStatus
<1>2. Plan!WithTasks(p, st) \in Plan!PlanType
  BY <1>1 DEF Plan!WithTasks, Plan!PlanType
<1>3. /\ Plan!SkipBlocked(st) \in [TriageTask -> Plan!TaskStatus]
      /\ Plan!StopAfterUnknown(st) \in [TriageTask -> Plan!TaskStatus]
  BY DEF Plan!SkipBlocked, Plan!StopAfterUnknown, Plan!TaskStatus
<1>4. QED
  BY <1>2, <1>3

\* Every operation on the triage plan gives a plan (SubtaskExecutorProofs has the
\* like for any DAG and policy).
LEMMA PlanTypes ==
  ASSUME NEW p \in Plan!PlanType, NEW t \in TriageTask
  PROVE  /\ Plan!NewPlan \in Plan!PlanType
         /\ Plan!StartTask(p, t) \in Plan!PlanType
         /\ CompletedPlan(p, t) \in Plan!PlanType
         /\ Plan!FailTask(p, t) \in Plan!PlanType
         /\ Plan!MarkUnknown(p, t) \in Plan!PlanType
         /\ Plan!RequestApproval(p, t) \in Plan!PlanType
         /\ Plan!ResumeTask(p, t) \in Plan!PlanType
         /\ Plan!ApproveTask(p, t) \in Plan!PlanType
         /\ Plan!CancelPlan(p) \in Plan!PlanType
         /\ Plan!AbortPlan(p) \in Plan!PlanType
<1> DEFINE Set(s) == [p.task EXCEPT ![t] = s]
<1>1. \A s \in Plan!TaskStatus : Set(s) \in [TriageTask -> Plan!TaskStatus]
  BY DEF Plan!PlanType
<1>2. Plan!NewPlan \in Plan!PlanType
  BY DEF Plan!NewPlan, Plan!PlanType, Plan!PlanStatus, Plan!TaskStatus
<1>3. Plan!StartTask(p, t) \in Plan!PlanType
  <2>1. Set("running") \in [TriageTask -> Plan!TaskStatus]
    BY <1>1 DEF Plan!TaskStatus
  <2>2. [p.attempts EXCEPT ![t] = @ + 1] \in [TriageTask -> Nat]
    BY DEF Plan!PlanType
  <2>3. Plan!StartTask(p, t) = [p EXCEPT !.task = Set("running"),
                                         !.attempts = [p.attempts EXCEPT ![t] = @ + 1],
                                         !.status = "running"]
    BY DEF Plan!StartTask, Plan!PlanType
  <2>4. QED
    BY <2>1, <2>2, <2>3 DEF Plan!PlanType, Plan!PlanStatus
<1>4. CompletedPlan(p, t) \in Plan!PlanType
  BY <1>1, PlanWithTasks DEF CompletedPlan, Plan!SucceedTask, Plan!TaskStatus
<1>5. Plan!FailTask(p, t) \in Plan!PlanType
  <2>1. Set("pending") \in [TriageTask -> Plan!TaskStatus] /\ Set("failed") \in [TriageTask -> Plan!TaskStatus]
    BY <1>1 DEF Plan!TaskStatus
  <2>2. Plan!SkipBlocked(Set("failed")) \in [TriageTask -> Plan!TaskStatus]
    BY <2>1, PlanWithTasks
  <2>3. QED
    BY <2>1, <2>2, PlanWithTasks DEF Plan!FailTask
<1>6. Plan!MarkUnknown(p, t) \in Plan!PlanType
  <2>1. Set("unknown_outcome") \in [TriageTask -> Plan!TaskStatus]
    BY <1>1 DEF Plan!TaskStatus
  <2>2. Plan!StopAfterUnknown(Plan!SkipBlocked(Set("unknown_outcome"))) \in [TriageTask -> Plan!TaskStatus]
    BY <2>1, PlanWithTasks
  <2>3. QED
    BY <2>2, PlanWithTasks DEF Plan!MarkUnknown
<1>7. /\ Plan!RequestApproval(p, t) \in Plan!PlanType
      /\ Plan!ResumeTask(p, t) \in Plan!PlanType
  BY DEF Plan!RequestApproval, Plan!ResumeTask, Plan!PlanType, Plan!PlanStatus, Plan!TaskStatus
<1>8. Plan!ApproveTask(p, t) \in Plan!PlanType
  <2>1. [p EXCEPT !.approved = @ \cup {t}] \in Plan!PlanType
    BY DEF Plan!PlanType
  <2>2. QED
    BY <2>1 DEF Plan!ApproveTask, Plan!ResumeTask, Plan!PlanType, Plan!PlanStatus, Plan!TaskStatus
<1>9. Plan!CancelPlan(p) \in Plan!PlanType /\ Plan!AbortPlan(p) \in Plan!PlanType
  BY DEF Plan!CancelPlan, Plan!AbortPlan, Plan!PlanType, Plan!PlanStatus, Plan!TaskStatus, Plan!TaskTerminal
<1>10. QED
  BY <1>2, <1>3, <1>4, <1>5, <1>6, <1>7, <1>8, <1>9

LEMMA StartedPlanType ==
  ASSUME TypeOK, NEW r \in Runs
  PROVE  StartedPlan(r) \in Plan!PlanType
<1>1. plan[r] \in Plan!PlanType /\ TaskOf(phase[r]) \in TriageTask
  BY PhaseTypes DEF TypeOK
<1>2. QED
  BY <1>1, PlanTypes DEF StartedPlan

\* Counting a turn or a tool call keeps the counters natural.
LEMMA CountersType ==
  ASSUME TypeOK, NEW r \in Runs
  PROVE  /\ UseTurn(r) => turns' \in [Runs -> Nat]
         /\ UseCall(r) => repeats' \in [Runs -> [Tool -> Nat]]
<1>1. ToolOf(phase[r]) \in Tool
  BY PhaseTypes DEF TypeOK
<1>2. UseTurn(r) => turns' \in [Runs -> Nat]
  BY DEF TypeOK, UseTurn
<1>3. ASSUME UseCall(r) PROVE repeats' \in [Runs -> [Tool -> Nat]]
  <2> DEFINE row == [repeats[r] EXCEPT ![ToolOf(phase[r])] = @ + 1]
  <2>1. row \in [Tool -> Nat]
    BY <1>1 DEF TypeOK
  <2>2. repeats' = [repeats EXCEPT ![r] = row]
    BY <1>3 DEF UseCall
  <2>3. QED
    BY <2>1, <2>2 DEF TypeOK
<1>4. QED
  BY <1>2, <1>3

\* What the shared pieces of the transactions write.
LEMMA CloseType ==
  ASSUME TypeOK, NEW r \in Runs, NEW target \in RunStatus, NEW why \in Reasons,
         Close(r, target, why)
  PROVE  /\ status' \in [Runs -> RunStatus \cup {"absent"}]
         /\ reason' \in [Runs -> Reasons]
         /\ owner' \in [Runs -> {WorkerId[w] : w \in Workers} \cup {NoOwner}]
         /\ lease' \in [Runs -> {"none", "held", "expired"}]
BY DEF TypeOK, Close

LEMMA MoveType ==
  ASSUME TypeOK, NEW r \in Runs, NEW target \in RunStatus, MoveTo(r, target)
  PROVE  /\ status' \in [Runs -> RunStatus \cup {"absent"}]
         /\ reason' \in [Runs -> Reasons]
         /\ owner' \in [Runs -> {WorkerId[w] : w \in Workers} \cup {NoOwner}]
         /\ lease' \in [Runs -> {"none", "held", "expired"}]
BY DEF TypeOK, MoveTo

LEMMA LeaveType ==
  ASSUME TypeOK, NEW w \in Workers, NEW to \in PcState, Leave(w, to)
  PROVE  /\ pc' \in [Workers -> PcState]
         /\ job' \in [Workers -> Runs \cup {NoRun}]
         /\ prepared' \in [Workers -> Phase]
BY DEF TypeOK, Leave, Phase

LEMMA ReleaseType ==
  ASSUME TypeOK, NEW w \in Workers, Release(w)
  PROVE  /\ pc' \in [Workers -> PcState]
         /\ job' \in [Workers -> Runs \cup {NoRun}]
         /\ prepared' \in [Workers -> Phase]
BY LeaveType DEF Release, PcState

LEMMA Literals ==
  /\ {"queued", "running", "waiting_approval", "succeeded", "failed", "cancelled"}
       \subseteq RunStatus
  /\ {"none", "completed", "user_cancelled", "approval_rejected", "budget_exhausted",
      "sandbox_timeout", "tool_unrecoverable", "unknown_external_outcome",
      "internal_error"} \subseteq Reasons
  /\ {"running", "succeeded", "failed", "unknown_outcome"} \subseteq InvStatus
  /\ {"skill_loaded", "created", "patch_created"} \subseteq Phase
  /\ "patch_created" \in ToolPhase
  /\ {"approval", "skill", "report"} \subseteq TriageTask
  /\ ToolPhase \subseteq Phase
  /\ {"idle", "claimed", "tool", "returned", "raised", "down"} \subseteq PcState
BY DEF RunStatus, Reasons, InvStatus, Phase, ToolPhase, TriageTask, PcState

LEMMA TypeInit == Init => TypeOK
<1>1. Plan!NewPlan \in Plan!PlanType
  BY PlanTypes DEF TriageTask, Plan!NewPlan, Plan!PlanType, Plan!PlanStatus,
                   Plan!TaskStatus
<1>2. QED
  BY <1>1 DEF Init, TypeOK, Reasons, Phase, InvStatus, PcState

\* Every action keeps the types.
LEMMA TypeStep == TypeOK /\ [Next]_vars => TypeOK'
<1> SUFFICES ASSUME TypeOK, [Next]_vars PROVE TypeOK'
  OBVIOUS
<1> USE Literals
<1>1. CASE UNCHANGED vars
  BY <1>1 DEF TypeOK, vars, store, worker
<1>2. ASSUME NEW w \in Workers, NEW r \in Runs, ClaimNext(w, r) PROVE TypeOK'
  BY <1>2 DEF ClaimNext, TypeOK
<1>3. ASSUME NEW w \in Workers, NEW r \in Runs, Advance(w, r) PROVE TypeOK'
  <2> DEFINE ph == phase[r]
  <2>1. /\ plan[r] \in Plan!PlanType
        /\ StartedPlan(r) \in Plan!PlanType
        /\ Plan!AbortPlan(plan[r]) \in Plan!PlanType
        /\ Plan!AbortPlan(StartedPlan(r)) \in Plan!PlanType
        /\ Begun(r) \in [Runs -> [ToolPhase -> InvStatus]]
        /\ ph \in Phase /\ NextPhase(ph) \in Phase /\ TaskOf(ph) \in TriageTask
    BY StartedPlanType, BegunType, PlanTypes, PhaseTypes DEF TypeOK
  <2>2. CASE AdvanceOverBudget(w, r)
    <3>1. plan' \in [Runs -> Plan!PlanType] /\ inv' \in [Runs -> [ToolPhase -> InvStatus]]
      BY <2>1, <2>2, PlanUpdate DEF AdvanceOverBudget, TypeOK
    <3>2. Close(r, "failed", "budget_exhausted") /\ Release(w)
      BY <2>2 DEF AdvanceOverBudget
    <3>3. QED
      BY <2>2, <3>1, <3>2, CloseType, ReleaseType DEF AdvanceOverBudget, TypeOK
  <2>3. CASE AdvanceBroken(w, r)
    <3>1. /\ plan' \in [Runs -> Plan!PlanType]
          /\ inv' \in [Runs -> [ToolPhase -> InvStatus]]
          /\ phase' \in [Runs -> Phase]
      BY <2>1, <2>3, PlanUpdate DEF AdvanceBroken, TypeOK
    <3>2. Close(r, "failed", "internal_error") /\ Release(w)
      BY <2>3 DEF AdvanceBroken
    <3>3. QED
      BY <2>3, <3>1, <3>2, CloseType, ReleaseType DEF AdvanceBroken, TypeOK
  <2>4. CASE AdvanceLoadSkill(w, r)
    <3>1. plan' \in [Runs -> Plan!PlanType]
      BY <2>1, <2>4, PlanTypes, PlanUpdate DEF AdvanceLoadSkill
    <3>2. MoveTo(r, "queued") /\ Release(w) /\ UseTurn(r)
      BY <2>4 DEF AdvanceLoadSkill
    <3>3. QED
      BY <2>4, <3>1, <3>2, MoveType, ReleaseType, CountersType
         DEF AdvanceLoadSkill, TypeOK
  <2>5. CASE AdvanceFinish(w, r)
    <3>1. plan' \in [Runs -> Plan!PlanType]
      BY <2>1, <2>5, PlanTypes, PlanUpdate DEF AdvanceFinish
    <3>2. Close(r, "succeeded", "completed") /\ Release(w) /\ UseTurn(r)
      BY <2>5 DEF AdvanceFinish
    <3>3. QED
      BY <2>5, <3>1, <3>2, CloseType, ReleaseType, CountersType
         DEF AdvanceFinish, TypeOK
  <2>6. CASE AdvanceAskApproval(w, r)
    <3>1. plan' \in [Runs -> Plan!PlanType] /\ inv' \in [Runs -> [ToolPhase -> InvStatus]]
      BY <2>1, <2>6, PlanTypes, PlanUpdate DEF AdvanceAskApproval
    <3>2. MoveTo(r, "waiting_approval") /\ Release(w) /\ UseTurn(r)
      BY <2>6 DEF AdvanceAskApproval
    <3>3. QED
      BY <2>6, <3>1, <3>2, MoveType, ReleaseType, CountersType
         DEF AdvanceAskApproval, TypeOK
  <2>7. CASE AdvanceCached(w, r)
    <3>1. plan' \in [Runs -> Plan!PlanType]
      BY <2>1, <2>7, PlanTypes, PlanUpdate DEF AdvanceCached
    <3>2. MoveTo(r, "queued") /\ Release(w) /\ UseTurn(r) /\ UseCall(r)
      BY <2>7 DEF AdvanceCached
    <3>3. QED
      BY <2>1, <2>7, <3>1, <3>2, MoveType, ReleaseType, CountersType
         DEF AdvanceCached, TypeOK
  <2>8. CASE AdvanceUnknown(w, r)
    <3>1. plan' \in [Runs -> Plan!PlanType] /\ inv' \in [Runs -> [ToolPhase -> InvStatus]]
      BY <2>1, <2>8, PlanTypes, PlanUpdate, InvUpdate DEF AdvanceUnknown
    <3>2. /\ Close(r, "failed", "unknown_external_outcome")
          /\ Release(w) /\ UseTurn(r) /\ UseCall(r)
      BY <2>8 DEF AdvanceUnknown
    <3>3. QED
      BY <2>8, <3>1, <3>2, CloseType, ReleaseType, CountersType
         DEF AdvanceUnknown, TypeOK
  <2>9. CASE AdvancePrepare(w, r)
    <3>1. plan' \in [Runs -> Plan!PlanType] /\ inv' \in [Runs -> [ToolPhase -> InvStatus]]
      <4>1. ph \in ToolPhase
        BY <2>9 DEF AdvancePrepare, CallsTool
      <4>2. QED
        BY <2>1, <2>9, <4>1, PlanUpdate, InvUpdate DEF AdvancePrepare
    <3>2. UseTurn(r) /\ UseCall(r)
      BY <2>9 DEF AdvancePrepare
    <3>3. QED
      BY <2>1, <2>9, <3>1, <3>2, CountersType DEF AdvancePrepare, TypeOK
  <2>10. QED
    BY <1>3, <2>2, <2>3, <2>4, <2>5, <2>6, <2>7, <2>8, <2>9 DEF Advance
<1>4. ASSUME NEW w \in Workers, NEW r \in Runs, Record(w, r) PROVE TypeOK'
  <2>1. plan[r] \in Plan!PlanType /\ prepared[w] \in Phase
    BY DEF TypeOK
  <2>2. NextPhase(prepared[w]) \in Phase /\ TaskOf(prepared[w]) \in TriageTask
    BY <2>1, PhaseTypes
  <2>3. CASE CompletePrepared(w, r)
    <3>1. plan' \in [Runs -> Plan!PlanType] /\ inv' \in [Runs -> [ToolPhase -> InvStatus]]
      BY <2>1, <2>2, <2>3, PlanTypes, PlanUpdate, InvUpdate DEF CompletePrepared
    <3>2. MoveTo(r, "queued") /\ Release(w)
      BY <2>3 DEF CompletePrepared
    <3>3. QED
      BY <2>2, <2>3, <3>1, <3>2, MoveType, ReleaseType DEF CompletePrepared, TypeOK
  <2>4. CASE OutputOverrun(w, r)
    BY <2>4, LeaveType DEF OutputOverrun, TypeOK, store
  <2>5. CASE FailPrepared(w, r)
    <3>1. plan' \in [Runs -> Plan!PlanType] /\ inv' \in [Runs -> [ToolPhase -> InvStatus]]
      BY <2>1, <2>2, <2>5, PlanTypes, PlanUpdate, InvUpdate DEF FailPrepared
    <3>2. PICK why \in {"sandbox_timeout", "tool_unrecoverable"} : Close(r, "failed", why)
      BY <2>5 DEF FailPrepared
    <3>3. QED
      BY <2>5, <3>1, <3>2, CloseType, ReleaseType DEF FailPrepared, TypeOK
  <2>6. QED
    BY <1>4, <2>3, <2>4, <2>5 DEF Record
<1>5. ASSUME NEW w \in Workers,
             \/ AdvanceRefused(w) \/ RunTool(w) \/ ResultRefused(w) \/ Crash(w) \/ Restart(w)
      PROVE TypeOK'
  <2>1. CASE AdvanceRefused(w)
    BY <2>1, ReleaseType DEF AdvanceRefused, TypeOK, store
  <2>2. CASE RunTool(w)
    <3>1. [effects EXCEPT ![job[w]] = @ + 1] \in [Runs -> Nat]
      <4> DEFINE j == job[w]
      <4>1. CASE j \in Runs
        <5>1. effects[j] + 1 \in Nat
          BY <4>1 DEF TypeOK
        <5>2. QED
          BY <5>1, <4>1 DEF TypeOK
      <4>2. CASE j \notin Runs
        <5> HIDE DEF j
        <5>1. [effects EXCEPT ![j] = effects[j] + 1] = [x \in Runs |-> effects[x]]
          BY <4>2 DEF TypeOK
        <5>2. QED
          BY <5>1 DEF TypeOK, j
      <4>3. QED
        BY <4>1, <4>2
    <3>2. effects' \in [Runs -> Nat]
      BY <2>2, <3>1 DEF RunTool, TypeOK
    <3>3. pc' \in [Workers -> PcState]
      BY <2>2 DEF RunTool, TypeOK
    <3>4. QED
      BY <2>2, <3>2, <3>3 DEF RunTool, TypeOK, store
  <2>3. CASE ResultRefused(w)
    BY <2>3, ReleaseType DEF ResultRefused, TypeOK, store
  <2>4. CASE Crash(w)
    BY <2>4, LeaveType DEF Crash, TypeOK, store
  <2>5. CASE Restart(w)
    BY <2>5 DEF Restart, TypeOK, store
  <2>6. QED
    BY <1>5, <2>1, <2>2, <2>3, <2>4, <2>5
<1>6. ASSUME NEW r \in Runs,
             \/ CreateRun(r) \/ LeaseExpires(r) \/ CancelRun(r) \/ Approve(r) \/ Reject(r)
      PROVE TypeOK'
  <2>1. CASE CreateRun(r)
    BY <2>1, MoveType DEF CreateRun, TypeOK, worker
  <2>2. CASE LeaseExpires(r)
    BY <2>2 DEF LeaseExpires, TypeOK, worker
  <2>3. plan[r] \in Plan!PlanType
    BY DEF TypeOK
  <2>4. CASE CancelRun(r)
    <3>1. plan' \in [Runs -> Plan!PlanType]
      BY <2>3, <2>4, PlanTypes, PlanUpdate DEF CancelRun
    <3>2. QED
      BY <2>4, <3>1, CloseType DEF CancelRun, TypeOK, worker
  <2>5. CASE Approve(r)
    <3>1. plan' \in [Runs -> Plan!PlanType]
      BY <2>3, <2>5, PlanTypes, PlanUpdate DEF Approve
    <3>2. QED
      BY <2>5, <3>1, MoveType DEF Approve, TypeOK, worker
  <2>6. CASE Reject(r)
    <3>1. plan' \in [Runs -> Plan!PlanType]
      BY <2>3, <2>6, PlanTypes, PlanUpdate DEF Reject
    <3>2. QED
      BY <2>6, <3>1, CloseType DEF Reject, TypeOK, worker
  <2>7. QED
    BY <1>6, <2>1, <2>2, <2>4, <2>5, <2>6
<1>7. QED
  BY <1>1, <1>2, <1>3, <1>4, <1>5, <1>6 DEF Next

\* The columns and the workers' locals stay within their types, for any number
\* of runs and workers and any budget.
THEOREM TypeCorrect == Spec => []TypeOK
<1>1. QED
  BY TypeInit, TypeStep, PTL DEF Spec

-----------------------------------------------------------------------------
(* PatchAccounted is inductive. *)

PatchInv(r) == inv[r]["patch_created"]

\* What a transaction may do to the patch's invocation row without an account
\* of the worker that holds the patch.
JournalMove(r) ==
  \/ PatchInv(r)' = PatchInv(r)
  \/ PatchInv(r) = "absent" /\ PatchInv(r)' = "pending"
  \/ PatchInv(r)' = "unknown_outcome"
  \/ PatchInv(r)' = "failed" /\ status'[r] = "failed"
  \/ PatchInv(r)' = "succeeded" /\ effects[r] = 1

\* A step in which no worker takes up or writes a patch.
LEMMA QuietStep ==
  ASSUME TypeOK, PatchAccounted, effects' = effects,
         \A r \in Runs :
           /\ JournalMove(r)
           /\ status[r] = "failed" => status'[r] = "failed"
           /\ phase'[r] \in {"patch_applied", "verified"} => effects[r] = 1
           /\ Approved(r) => Approved(r)',
         \A w \in Workers :
           \/ pc'[w] = pc[w] /\ job'[w] = job[w] /\ prepared'[w] = prepared[w]
           \/ pc'[w] \in {"idle", "claimed", "down"}
  PROVE  PatchAccounted'
<1>1. \A w \in Workers, r \in Runs :
        /\ InTool(w, r)' => InTool(w, r) /\ pc'[w] = pc[w] /\ prepared'[w] = prepared[w]
        /\ InPatch(w, r)' => InPatch(w, r)
  BY DEF InTool, InPatch
<1>2. \A w \in Workers : pc'[w] \in {"tool", "returned", "raised"} => job'[w] \in Runs /\ prepared'[w] \in ToolPhase
  BY DEF PatchAccounted
<1>3. \A r \in Runs :
        /\ effects'[r] \in {0, 1}
        /\ PatchInv(r)' \in {"absent", "pending"}
             => effects'[r] = 0 /\ \A w \in Workers : ~InPatch(w, r)'
        /\ PatchInv(r)' = "succeeded" => effects'[r] = 1
        /\ PatchInv(r)' = "failed" => status'[r] = "failed"
        /\ phase'[r] \in {"patch_applied", "verified"} => effects'[r] = 1
  BY <1>1 DEF PatchAccounted, JournalMove, PatchInv
<1>4. \A w \in Workers, r \in Runs :
        /\ InPatch(w, r)' => /\ Approved(r)'
                             /\ (pc'[w] = "tool" => effects'[r] = 0)
                             /\ (pc'[w] = "returned" => effects'[r] = 1)
                             /\ \A v \in Workers \ {w} : ~InPatch(v, r)'
        /\ InTool(w, r)' /\ prepared'[w] = "patch_applied" => effects'[r] = 1
  BY <1>1 DEF PatchAccounted
<1>5. QED
  BY <1>2, <1>3, <1>4 DEF PatchAccounted, PatchInv

\* A worker takes up the tool call of the phase.
LEMMA PrepareStep ==
  ASSUME TypeOK, PatchAccounted, NEW w \in Workers, NEW r \in Runs, AdvancePrepare(w, r)
  PROVE  PatchAccounted'
<1>1. /\ pc[w] = "claimed" /\ job[w] = r /\ status[r] = "running"
      /\ phase[r] \in ToolPhase
      /\ phase[r] = "patch_created" => /\ Approved(r)
                                       /\ PatchInv(r) \notin {"running", "unknown_outcome", "succeeded"}
      /\ pc' = [pc EXCEPT ![w] = "tool"] /\ job' = job
      /\ prepared' = [prepared EXCEPT ![w] = phase[r]]
      /\ UNCHANGED <<status, phase, approval, effects>>
      /\ inv' = [inv EXCEPT ![r][phase[r]] = "running"]
  BY DEF AdvancePrepare, Stepping, Owns, CallsTool, Interrupted, PatchInv
<1>2. phase[r] = "patch_created" => PatchInv(r) \in {"absent", "pending"}
  BY <1>1 DEF PatchAccounted, PatchInv, TypeOK, ToolPhase, InvStatus
<1>3. \A x \in Runs : PatchInv(x)' = IF x = r /\ phase[r] = "patch_created" THEN "running"
                                     ELSE PatchInv(x)
  BY <1>1 DEF PatchInv, TypeOK, ToolPhase
<1>4. \A v \in Workers, x \in Runs :
        /\ InTool(v, x)' <=> InTool(v, x) \/ (v = w /\ x = r)
        /\ InPatch(v, x)' <=> InPatch(v, x) \/ (v = w /\ x = r /\ phase[r] = "patch_created")
        /\ v # w => pc'[v] = pc[v] /\ prepared'[v] = prepared[v]
        /\ pc'[w] = "tool" /\ prepared'[w] = phase[r]
  <2>1. \A v \in Workers : /\ pc'[v] = IF v = w THEN "tool" ELSE pc[v]
                           /\ prepared'[v] = IF v = w THEN phase[r] ELSE prepared[v]
    BY <1>1 DEF TypeOK
  <2>2. job' = job /\ job[w] = r /\ \A x \in Runs : ~InTool(w, x)
    BY <1>1 DEF InTool
  <2>3. ASSUME NEW v \in Workers, NEW x \in Runs
        PROVE  /\ InTool(v, x)' <=> InTool(v, x) \/ (v = w /\ x = r)
               /\ InPatch(v, x)' <=> InPatch(v, x) \/ (v = w /\ x = r /\ phase[r] = "patch_created")
    <3>1. CASE v = w
      BY <2>1, <2>2, <3>1 DEF InTool, InPatch
    <3>2. CASE v # w
      BY <2>1, <2>2, <3>2 DEF InTool, InPatch
    <3>3. QED
      BY <3>1, <3>2
  <2>4. QED
    BY <2>1, <2>3
<1>5. ASSUME phase[r] = "patch_created"
      PROVE  effects[r] = 0 /\ \A v \in Workers : ~InPatch(v, r)
  <2>1. inv[r]["patch_created"] \in {"absent", "pending"}
    BY <1>2, <1>5 DEF PatchInv
  <2>2. QED
    BY <2>1 DEF PatchAccounted
<1>6. \A v \in Workers : pc'[v] \in {"tool", "returned", "raised"} => job'[v] \in Runs /\ prepared'[v] \in ToolPhase
  BY <1>1 DEF PatchAccounted, TypeOK
<1>7. \A x \in Runs :
        /\ effects'[x] \in {0, 1}
        /\ PatchInv(x)' \in {"absent", "pending"}
             => effects'[x] = 0 /\ \A v \in Workers : ~InPatch(v, x)'
        /\ PatchInv(x)' = "succeeded" => effects'[x] = 1
        /\ PatchInv(x)' = "failed" => status'[x] = "failed"
        /\ phase'[x] \in {"patch_applied", "verified"} => effects'[x] = 1
  BY <1>1, <1>3, <1>4 DEF PatchAccounted, PatchInv
<1>8. ASSUME NEW v \in Workers, NEW x \in Runs, InPatch(v, x)'
      PROVE  /\ Approved(x)'
             /\ (pc'[v] = "tool" => effects'[x] = 0)
             /\ (pc'[v] = "returned" => effects'[x] = 1)
             /\ \A u \in Workers \ {v} : ~InPatch(u, x)'
  <2>1. CASE v = w
    <3>1. x = r /\ phase[r] = "patch_created"
      BY <1>1, <1>8, <2>1 DEF InPatch, InTool, TypeOK
    <3>2. QED
      BY <1>1, <1>4, <1>5, <2>1, <3>1 DEF Approved
  <2>2. CASE v # w
    <3>1. InPatch(v, x)
      BY <1>4, <1>8, <2>2
    <3>2. QED
      BY <1>1, <1>4, <1>5, <2>2, <3>1 DEF PatchAccounted, Approved
  <2>3. QED
    BY <2>1, <2>2
<1>9. ASSUME NEW v \in Workers, NEW x \in Runs,
             InTool(v, x)', prepared'[v] = "patch_applied"
      PROVE  effects'[x] = 1
  <2>1. CASE v = w
    <3>1. x = r /\ phase[r] = "patch_applied"
      BY <1>1, <1>9, <2>1 DEF InTool, TypeOK
    <3>2. QED
      BY <1>1, <3>1 DEF PatchAccounted
  <2>2. CASE v # w
    BY <1>1, <1>4, <1>9, <2>2 DEF PatchAccounted
  <2>3. QED
    BY <2>1, <2>2
<1>10. QED
  BY <1>6, <1>7, <1>8, <1>9 DEF PatchAccounted, PatchInv

\* The tool runs: the only step that writes the patch.
LEMMA ToolStep ==
  ASSUME TypeOK, PatchAccounted, NEW w \in Workers, RunTool(w)
  PROVE  PatchAccounted'
<1> DEFINE r == job[w]
<1>1. /\ r \in Runs /\ InTool(w, r) /\ pc[w] = "tool"
      /\ pc'[w] \in {"returned", "raised"}
      /\ \A v \in Workers \ {w} : pc'[v] = pc[v]
      /\ UNCHANGED <<status, phase, inv, approval, job, prepared>>
  BY DEF RunTool, PatchAccounted, InTool, TypeOK, store
<1>2. /\ prepared[w] # "patch_created" => effects' = effects
      /\ prepared[w] = "patch_created"
           => \/ effects' = [effects EXCEPT ![r] = @ + 1]
              \/ effects' = effects /\ pc'[w] = "raised"
  BY DEF RunTool, TypeOK
<1>3. \A v \in Workers, x \in Runs : /\ InTool(v, x)' <=> InTool(v, x)
                                     /\ InPatch(v, x)' <=> InPatch(v, x)
  BY <1>1 DEF InTool, InPatch
<1>4. CASE effects' = effects /\ (prepared[w] # "patch_created" \/ pc'[w] = "raised")
  <2>1. /\ effects' = effects /\ inv' = inv /\ status' = status /\ phase' = phase
        /\ prepared' = prepared /\ job' = job
        /\ \A x \in Runs : Approved(x)' <=> Approved(x)
    BY <1>1, <1>4 DEF Approved
  <2>2. \A v \in Workers :
          /\ pc'[v] = "tool" => pc[v] = "tool"
          /\ pc'[v] \in {"tool", "returned", "raised"}
               => pc[v] \in {"tool", "returned", "raised"}
    BY <1>1
  <2>3. \A v \in Workers, x \in Runs : pc'[v] = "returned" /\ InPatch(v, x)
                                          => pc[v] = "returned"
    BY <1>1, <1>4 DEF InPatch
  <2>4. \A v \in Workers : pc'[v] \in {"tool", "returned", "raised"} => job'[v] \in Runs /\ prepared'[v] \in ToolPhase
    <3>1. \A v \in Workers : pc[v] \in {"tool", "returned", "raised"} => job[v] \in Runs /\ prepared[v] \in ToolPhase
      BY DEF PatchAccounted
    <3>2. QED
      BY <2>1, <2>2, <3>1
  <2>5. \A x \in Runs :
          /\ effects'[x] \in {0, 1}
          /\ inv'[x]["patch_created"] \in {"absent", "pending"}
               => effects'[x] = 0 /\ \A v \in Workers : ~InPatch(v, x)'
          /\ inv'[x]["patch_created"] = "succeeded" => effects'[x] = 1
          /\ inv'[x]["patch_created"] = "failed" => status'[x] = "failed"
          /\ phase'[x] \in {"patch_applied", "verified"} => effects'[x] = 1
    BY <1>3, <2>1 DEF PatchAccounted
  <2>6. ASSUME NEW v \in Workers, NEW x \in Runs, InPatch(v, x)'
        PROVE  /\ Approved(x)'
               /\ (pc'[v] = "tool" => effects'[x] = 0)
               /\ (pc'[v] = "returned" => effects'[x] = 1)
               /\ \A u \in Workers \ {v} : ~InPatch(u, x)'
    <3>1. InPatch(v, x)
      BY <1>3, <2>6
    <3>2. /\ Approved(x)
          /\ pc[v] = "tool" => effects[x] = 0
          /\ pc[v] = "returned" => effects[x] = 1
          /\ \A u \in Workers \ {v} : ~InPatch(u, x)
      BY <3>1 DEF PatchAccounted
    <3>3. QED
      BY <1>3, <2>1, <2>2, <2>3, <3>1, <3>2
  <2>7. \A v \in Workers, x \in Runs :
          InTool(v, x)' /\ prepared'[v] = "patch_applied" => effects'[x] = 1
    BY <1>3, <2>1 DEF PatchAccounted
  <2>8. QED
    BY <2>4, <2>5, <2>6, <2>7 DEF PatchAccounted
<1>5. CASE /\ prepared[w] = "patch_created"
           /\ effects' = [effects EXCEPT ![r] = @ + 1]
  <2>1. InPatch(w, r) /\ effects[r] = 0 /\ \A v \in Workers \ {w} : ~InPatch(v, r)
    BY <1>1, <1>5 DEF InPatch, PatchAccounted
  <2>2. /\ effects'[r] = 1
        /\ \A x \in Runs \ {r} : effects'[x] = effects[x]
    BY <1>1, <1>5, <2>1 DEF TypeOK
  <2>3. /\ inv[r]["patch_created"] \notin {"absent", "pending", "succeeded"}
        /\ phase[r] \notin {"patch_applied", "verified"}
    BY <1>1, <2>1 DEF PatchAccounted
  <2>4. QED
    BY <1>1, <1>3, <1>5, <2>1, <2>2, <2>3 DEF PatchAccounted, Approved, InPatch, InTool
<1>6. QED
  BY <1>2, <1>4, <1>5

-----------------------------------------------------------------------------
(* The remaining actions are quiet. *)

\* Begun only opens a journal row.
LEMMA BegunMove ==
  ASSUME TypeOK, NEW r \in Runs, inv' \in {inv, Begun(r)}
  PROVE  \A x \in Runs : PatchInv(x)' = PatchInv(x)
                         \/ (PatchInv(x) = "absent" /\ PatchInv(x)' = "pending")
<1>1. CASE inv' = inv
  BY <1>1 DEF PatchInv
<1>2. CASE inv' = [inv EXCEPT ![r][phase[r]] = "pending"] /\ inv[r][phase[r]] = "absent"
  BY <1>2 DEF PatchInv, TypeOK, ToolPhase
<1>3. QED
  BY <1>1, <1>2 DEF Begun

\* The patch has been written once the phase after it is reached.
LEMMA NextPhaseEffect ==
  ASSUME TypeOK, PatchAccounted, NEW r \in Runs,
         phase[r] = "patch_created" => PatchInv(r) = "succeeded",
         NextPhase(phase[r]) \in {"patch_applied", "verified"}
  PROVE  effects[r] = 1
<1>1. phase[r] \in {"patch_created", "patch_applied", "verified"}
  BY DEF NextPhase, TypeOK, Phase, ToolPhase
<1>2. QED
  BY <1>1 DEF PatchAccounted, PatchInv

LEMMA AdvanceKeepsAccount ==
  ASSUME TypeOK, PatchAccounted, NEW w \in Workers, NEW r \in Runs, Advance(w, r)
  PROVE  PatchAccounted'
<1>1. CASE AdvancePrepare(w, r)
  BY <1>1, PrepareStep
<1>2. ASSUME ~AdvancePrepare(w, r) PROVE PatchAccounted'
  <2>1. /\ effects' = effects
        /\ status[r] = "running"
        /\ \A x \in Runs \ {r} : status'[x] = status[x]
        /\ \A x \in Runs : status[x] = "failed" => status'[x] = "failed"
    BY <1>2 DEF Advance, AdvanceOverBudget, AdvanceBroken, AdvanceLoadSkill, AdvanceFinish,
                AdvanceAskApproval, AdvanceCached, AdvanceUnknown, Stepping, Owns, Close,
                MoveTo, TypeOK
  <2>2. \A x \in Runs : Approved(x) => Approved(x)'
    BY <1>2 DEF Advance, AdvanceOverBudget, AdvanceBroken, AdvanceLoadSkill, AdvanceFinish,
                AdvanceAskApproval, AdvanceCached, AdvanceUnknown, Approved, TypeOK
  <2>3. \A v \in Workers : \/ pc'[v] = pc[v] /\ job'[v] = job[v] /\ prepared'[v] = prepared[v]
                           \/ pc'[v] = "idle"
    BY <1>2 DEF Advance, AdvanceOverBudget, AdvanceBroken, AdvanceLoadSkill, AdvanceFinish,
                AdvanceAskApproval, AdvanceCached, AdvanceUnknown, Release, Leave, TypeOK
  <2>4. \A x \in Runs : JournalMove(x)
    <3>1. CASE AdvanceUnknown(w, r)
      BY <3>1 DEF AdvanceUnknown, JournalMove, PatchInv, TypeOK, ToolPhase
    <3>2. CASE ~AdvanceUnknown(w, r)
      <4>1. inv' \in {inv, Begun(r)}
        BY <1>2, <3>2 DEF Advance, AdvanceOverBudget, AdvanceBroken, AdvanceLoadSkill,
                          AdvanceFinish, AdvanceAskApproval, AdvanceCached
      <4>2. QED
        BY <4>1, BegunMove DEF JournalMove
    <3>3. QED
      BY <3>1, <3>2
  <2>5. \A x \in Runs : phase'[x] \in {"patch_applied", "verified"} => effects[x] = 1
    <3>1. CASE phase' = phase
      BY <3>1 DEF PatchAccounted
    <3>2. CASE /\ phase' = [phase EXCEPT ![r] = NextPhase(phase[r])]
               /\ (phase[r] = "patch_created" => PatchInv(r) = "succeeded")
      BY <3>2, NextPhaseEffect DEF PatchAccounted, TypeOK
    <3>3. CASE phase' = [phase EXCEPT ![r] = "skill_loaded"]
      BY <3>3 DEF PatchAccounted, TypeOK
    <3>4. QED
      BY <1>2, <3>1, <3>2, <3>3
         DEF Advance, AdvanceOverBudget, AdvanceBroken, AdvanceLoadSkill, AdvanceFinish,
             AdvanceAskApproval, AdvanceCached, AdvanceUnknown, PhaseWritten, PatchInv
  <2>6. QED
    BY <2>1, <2>2, <2>3, <2>4, <2>5, QuietStep
<1>3. QED
  BY <1>1, <1>2

LEMMA RecordKeepsAccount ==
  ASSUME TypeOK, PatchAccounted, NEW w \in Workers, NEW r \in Runs, Record(w, r)
  PROVE  PatchAccounted'
<1>1. /\ effects' = effects
      /\ status[r] = "running" \/ status' = status
      /\ \A x \in Runs : status[x] = "failed" => status'[x] = "failed"
      /\ \A x \in Runs : Approved(x) => Approved(x)'
      /\ \A v \in Workers : \/ pc'[v] = pc[v] /\ job'[v] = job[v] /\ prepared'[v] = prepared[v]
                            \/ pc'[v] \in {"idle", "down"}
  BY DEF Record, CompletePrepared, OutputOverrun, FailPrepared, Owns, Close, MoveTo,
         Approved, Release, Leave, TypeOK, store
<1>2. CASE CompletePrepared(w, r)
  <2>1. InTool(w, r) /\ pc[w] = "returned"
    BY <1>2 DEF CompletePrepared, Owns, InTool
  <2>2. prepared[w] = "patch_created" => effects[r] = 1
    BY <2>1 DEF PatchAccounted, InPatch
  <2>3. \A x \in Runs : JournalMove(x)
    BY <1>2, <2>2 DEF CompletePrepared, JournalMove, PatchInv, TypeOK, ToolPhase
  <2>4. NextPhase(prepared[w]) \in {"patch_applied", "verified"} => effects[r] = 1
    <3>1. prepared[w] \in ToolPhase
      BY <2>1 DEF PatchAccounted, InTool
    <3>2. QED
      BY <2>1, <2>2, <3>1 DEF NextPhase, ToolPhase, PatchAccounted
  <2>5. \A x \in Runs : phase'[x] \in {"patch_applied", "verified"} => effects[x] = 1
    BY <1>2, <2>4 DEF CompletePrepared, PatchAccounted, TypeOK
  <2>6. QED
    BY <1>1, <2>3, <2>5, QuietStep
<1>3. CASE FailPrepared(w, r)
  <2>1. status'[r] = "failed"
    BY <1>3 DEF FailPrepared, Close, TypeOK
  <2>2. \A x \in Runs : JournalMove(x)
    BY <1>3, <2>1 DEF FailPrepared, JournalMove, PatchInv, TypeOK, ToolPhase
  <2>3. \A x \in Runs : phase'[x] \in {"patch_applied", "verified"} => effects[x] = 1
    BY <1>3 DEF FailPrepared, PatchAccounted
  <2>4. QED
    BY <1>1, <2>2, <2>3, QuietStep
<1>4. CASE OutputOverrun(w, r)
  <2>1. /\ \A x \in Runs : JournalMove(x)
        /\ \A x \in Runs : phase'[x] \in {"patch_applied", "verified"} => effects[x] = 1
    BY <1>4 DEF OutputOverrun, JournalMove, PatchInv, store, PatchAccounted
  <2>2. QED
    BY <1>1, <2>1, QuietStep
<1>5. QED
  BY <1>2, <1>3, <1>4 DEF Record

LEMMA PatchStep == TypeOK /\ PatchAccounted /\ [Next]_vars => PatchAccounted'
<1> SUFFICES ASSUME TypeOK, PatchAccounted, [Next]_vars PROVE PatchAccounted'
  OBVIOUS
<1>1. CASE UNCHANGED vars
  <2>1. \A r \in Runs : JournalMove(r)
    BY <1>1 DEF JournalMove, PatchInv, vars, store
  <2>2. QED
    BY <1>1, <2>1, QuietStep DEF vars, store, worker, Approved, PatchAccounted
<1>2. ASSUME NEW w \in Workers, NEW r \in Runs, ClaimNext(w, r) PROVE PatchAccounted'
  <2>1. \A x \in Runs : JournalMove(x)
    BY <1>2 DEF ClaimNext, JournalMove, PatchInv
  <2>2. \A v \in Workers : \/ pc'[v] = pc[v] /\ job'[v] = job[v] /\ prepared'[v] = prepared[v]
                           \/ pc'[v] = "claimed"
    BY <1>2 DEF ClaimNext, TypeOK
  <2>3. \A x \in Runs : status[x] = "failed" => status'[x] = "failed"
    BY <1>2 DEF ClaimNext, TypeOK
  <2>4. QED
    BY <1>2, <2>1, <2>2, <2>3, QuietStep DEF ClaimNext, Approved, PatchAccounted
<1>3. ASSUME NEW w \in Workers,
             \/ AdvanceRefused(w) \/ ResultRefused(w) \/ Crash(w) \/ Restart(w)
      PROVE PatchAccounted'
  <2>1. UNCHANGED <<store, effects>>
    BY <1>3 DEF AdvanceRefused, ResultRefused, Crash, Restart
  <2>2. \A x \in Runs : JournalMove(x)
    BY <2>1 DEF JournalMove, PatchInv, store
  <2>3. \A v \in Workers : \/ pc'[v] = pc[v] /\ job'[v] = job[v] /\ prepared'[v] = prepared[v]
                           \/ pc'[v] \in {"idle", "down"}
    BY <1>3 DEF AdvanceRefused, ResultRefused, Crash, Restart, Release, Leave, TypeOK
  <2>4. QED
    BY <2>1, <2>2, <2>3, QuietStep DEF store, Approved, PatchAccounted
<1>4. ASSUME NEW r \in Runs,
             \/ CreateRun(r) \/ LeaseExpires(r) \/ CancelRun(r) \/ Approve(r) \/ Reject(r)
      PROVE PatchAccounted'
  <2>1. inv' = inv /\ phase' = phase /\ effects' = effects /\ UNCHANGED worker
    BY <1>4 DEF CreateRun, LeaseExpires, CancelRun, Approve, Reject
  <2>2. \A x \in Runs : JournalMove(x)
    BY <2>1 DEF JournalMove, PatchInv
  <2>3. /\ \A x \in Runs : status[x] = "failed" => status'[x] = "failed"
        /\ \A x \in Runs : Approved(x) => Approved(x)'
    BY <1>4 DEF CreateRun, LeaseExpires, CancelRun, Approve, Reject, Close, MoveTo, Approved,
                TypeOK
  <2>4. QED
    BY <2>1, <2>2, <2>3, QuietStep DEF worker, PatchAccounted
<1>5. QED
  BY <1>1, <1>2, <1>3, <1>4, AdvanceKeepsAccount, RecordKeepsAccount, ToolStep DEF Next

LEMMA PatchInit == Init => PatchAccounted
BY DEF Init, PatchAccounted, InTool, InPatch, ToolPhase

\* At most one worker ever has the patch in hand, and the journal tells whether
\* it was written - for any number of workers, sharing an id or not.
THEOREM PatchAccountedAlways == Spec => []PatchAccounted
<1>1. Init => TypeOK /\ PatchAccounted
  BY TypeInit, PatchInit
<1>2. TypeOK /\ PatchAccounted /\ [Next]_vars => TypeOK' /\ PatchAccounted'
  BY TypeStep, PatchStep
<1>3. QED
  BY <1>1, <1>2, PTL DEF Spec

-----------------------------------------------------------------------------
(* The component implements the client's contract. *)

\* Every step is a step of the contract, or one the client cannot see.
LEMMA ContractStep ==
  TypeOK /\ PatchAccounted /\ [Next]_vars => [Contract!Next]_(Contract!vars)
<1> SUFFICES ASSUME TypeOK, PatchAccounted, [Next]_vars,
                    ~ UNCHANGED <<status, approval, effects>>
             PROVE  Contract!Next
  BY DEF Contract!vars
<1> USE DEF Contract!Next, Contract!Move
<1>1. ASSUME UNCHANGED <<status, approval, effects>> PROVE FALSE
  BY <1>1
<1>2. ASSUME NEW w \in Workers, NEW r \in Runs, ClaimNext(w, r) PROVE Contract!Next
  BY <1>2 DEF ClaimNext, Contract!Take
<1>3. ASSUME NEW w \in Workers, NEW r \in Runs, Advance(w, r) PROVE Contract!Next
  <2>1. status[r] = "running"
    BY <1>3 DEF Advance, AdvanceOverBudget, AdvanceBroken, AdvanceLoadSkill, AdvanceFinish,
                AdvanceAskApproval, AdvanceCached, AdvanceUnknown, AdvancePrepare,
                Stepping, Owns
  <2>2. CASE AdvanceOverBudget(w, r) \/ AdvanceBroken(w, r) \/ AdvanceUnknown(w, r)
    <3>1. Contract!Fail(r)
      BY <2>1, <2>2 DEF AdvanceOverBudget, AdvanceBroken, AdvanceUnknown, Close, Contract!Fail
    <3>2. QED
      BY <3>1
  <2>3. CASE AdvanceLoadSkill(w, r) \/ AdvanceCached(w, r)
    <3>1. Contract!Return(r)
      BY <2>1, <2>3 DEF AdvanceLoadSkill, AdvanceCached, MoveTo, Contract!Return
    <3>2. QED
      BY <3>1
  <2>4. CASE AdvanceFinish(w, r)
    <3>1. effects[r] = 1
      BY <2>4 DEF AdvanceFinish, PatchAccounted
    <3>2. Contract!Succeed(r)
      BY <2>1, <2>4, <3>1 DEF AdvanceFinish, Close, Contract!Succeed
    <3>3. QED
      BY <3>2
  <2>5. CASE AdvanceAskApproval(w, r)
    <3>1. Contract!Ask(r)
      BY <2>1, <2>5 DEF AdvanceAskApproval, MoveTo, Contract!Ask
    <3>2. QED
      BY <3>1
  <2>6. CASE AdvancePrepare(w, r)
    BY <1>1, <2>6 DEF AdvancePrepare
  <2>7. QED
    BY <1>3, <2>2, <2>3, <2>4, <2>5, <2>6 DEF Advance
<1>4. ASSUME NEW w \in Workers, NEW r \in Runs, Record(w, r) PROVE Contract!Next
  <2>1. CASE CompletePrepared(w, r)
    <3>1. Contract!Return(r)
      BY <2>1 DEF CompletePrepared, Owns, MoveTo, Contract!Return
    <3>2. QED
      BY <3>1
  <2>2. CASE OutputOverrun(w, r)
    BY <1>1, <2>2 DEF OutputOverrun, store
  <2>3. CASE FailPrepared(w, r)
    <3>1. Contract!Fail(r)
      BY <2>3 DEF FailPrepared, Owns, Close, Contract!Fail
    <3>2. QED
      BY <3>1
  <2>4. QED
    BY <1>4, <2>1, <2>2, <2>3 DEF Record
<1>5. ASSUME NEW w \in Workers, RunTool(w) PROVE Contract!Next
  <2>1. /\ UNCHANGED <<status, approval>>
        /\ effects' # effects
        /\ job[w] \in Runs /\ InTool(w, job[w]) /\ pc[w] = "tool"
    BY <1>1, <1>5 DEF RunTool, store, PatchAccounted, InTool
  <2>2. prepared[w] = "patch_created" /\ effects' = [effects EXCEPT ![job[w]] = @ + 1]
    BY <1>5, <2>1 DEF RunTool
  <2>3. approval[job[w]] = "approved" /\ effects[job[w]] = 0
    BY <2>1, <2>2 DEF PatchAccounted, InPatch, Approved
  <2>4. Contract!Apply(job[w])
    BY <2>1, <2>2, <2>3 DEF Contract!Apply
  <2>5. QED
    BY <2>1, <2>4
<1>6. ASSUME NEW w \in Workers,
             \/ AdvanceRefused(w) \/ ResultRefused(w) \/ Crash(w) \/ Restart(w)
      PROVE Contract!Next
  BY <1>1, <1>6 DEF AdvanceRefused, ResultRefused, Crash, Restart, store
<1>7. ASSUME NEW r \in Runs, CreateRun(r) PROVE Contract!Next
  BY <1>7 DEF CreateRun, MoveTo, Contract!Create
<1>8. ASSUME NEW r \in Runs, LeaseExpires(r) PROVE Contract!Next
  BY <1>1, <1>8 DEF LeaseExpires
<1>9. ASSUME NEW r \in Runs, CancelRun(r) PROVE Contract!Next
  BY <1>9 DEF CancelRun, Close, Contract!Cancel
<1>10. ASSUME NEW r \in Runs, Approve(r) PROVE Contract!Next
  BY <1>10 DEF Approve, MoveTo, Contract!Approve
<1>11. ASSUME NEW r \in Runs, Reject(r) PROVE Contract!Next
  BY <1>11 DEF Reject, Close, Contract!Reject
<1>12. CASE UNCHANGED vars
  BY <1>1, <1>12 DEF vars, store
<1>13. QED
  BY <1>2, <1>3, <1>4, <1>5, <1>6, <1>7, <1>8, <1>9, <1>10, <1>11, <1>12 DEF Next

\* Whatever the workers, crashes, expired leases and budgets do, the client sees
\* the contract: the patch written at most once and only after an approval,
\* success only with the patch written, terminal statuses final.
THEOREM ContractHolds == Spec => ContractSpec
<1>1. Init => Contract!Init
  BY DEF Init, Contract!Init
<1>2. TypeOK /\ PatchAccounted /\ [Next]_vars => [Contract!Next]_(Contract!vars)
  BY ContractStep
<1>3. QED
  BY <1>1, <1>2, TypeCorrect, PatchAccountedAlways, PTL DEF Spec, ContractSpec, Contract!Spec

-----------------------------------------------------------------------------
(***************************************************************************)
(* What the lease check of RunLifecycle is worth when every worker process *)
(* has its own settings.worker_id: for any number of runs and workers and  *)
(* any budget, what a worker carries over a tool execution is still what   *)
(* the row says when the check lets it write, the plan keeps up with the   *)
(* phase, and nothing goes back.                                           *)
(***************************************************************************)

Unshared == \A v, w \in Workers : WorkerId[v] = WorkerId[w] => v = w

-----------------------------------------------------------------------------
(* The triage plan is a chain, one task per phase. *)

\* The phases with their tasks, ranks and successors, spelled out.
LEMMA Table ==
  /\ Phase = {"created", "skill_loaded", "tests_failed", "source_read", "patch_created",
              "patch_applied", "verified"}
  /\ TaskOf("created") = "skill" /\ TaskOf("skill_loaded") = "baseline"
  /\ TaskOf("tests_failed") = "inspect" /\ TaskOf("source_read") = "patch"
  /\ TaskOf("patch_created") = "approval" /\ TaskOf("patch_applied") = "verify"
  /\ TaskOf("verified") = "report"
  /\ Rank("created") = 0 /\ Rank("skill_loaded") = 1 /\ Rank("tests_failed") = 2
  /\ Rank("source_read") = 3 /\ Rank("patch_created") = 4
  /\ Rank("patch_applied") = 5 /\ Rank("verified") = 6
  /\ NextPhase("created") = "skill_loaded" /\ NextPhase("skill_loaded") = "tests_failed"
  /\ NextPhase("tests_failed") = "source_read" /\ NextPhase("source_read") = "patch_created"
  /\ NextPhase("patch_created") = "patch_applied"
  /\ NextPhase("patch_applied") = "verified"
BY DEF Phase, ToolPhase, TaskOf, Rank, NextPhase

\* What the proofs use of the table: the ranks count the phases, one task each.
LEMMA PhaseFacts ==
  /\ \A ph \in Phase : Rank(ph) \in Nat /\ Rank(ph) =< 6
  /\ \A ph \in Phase : ph # "verified" =>
       NextPhase(ph) \in Phase /\ Rank(NextPhase(ph)) = Rank(ph) + 1
  /\ Rank("verified") = 6
  /\ TaskOf("patch_created") = "approval"
  /\ TaskOf("verified") = "report"
  /\ \A ph, q \in Phase : Rank(ph) = Rank(q) \/ TaskOf(ph) = TaskOf(q) => ph = q
<1>1. \A ph \in Phase : Rank(ph) \in Nat /\ Rank(ph) =< 6
  BY Table
<1>2. \A ph \in Phase : ph # "verified" =>
        NextPhase(ph) \in Phase /\ Rank(NextPhase(ph)) = Rank(ph) + 1
  BY Table
<1>3. \A ph, q \in Phase : Rank(ph) = Rank(q) => ph = q
  BY Table
<1>4. \A ph, q \in Phase : TaskOf(ph) = TaskOf(q) => ph = q
  BY Table
<1>5. QED
  BY <1>1, <1>2, <1>3, <1>4, Table

\* No task of the plan is outside the table.
LEMMA EveryTaskHasItsPhase ==
  ASSUME NEW t \in TriageTask
  PROVE  \E ph \in Phase : TaskOf(ph) = t
BY Table DEF TriageTask

\* A task depends only on tasks of earlier phases.
LEMMA DependsOnEarlier ==
  ASSUME NEW ph \in Phase, NEW d \in TriageDependsOn[TaskOf(ph)]
  PROVE  \E q \in Phase : Rank(q) < Rank(ph) /\ TaskOf(q) = d
<1>1. /\ TriageDependsOn["skill"] = {} /\ TriageDependsOn["baseline"] = {"skill"}
      /\ TriageDependsOn["inspect"] = {"baseline"} /\ TriageDependsOn["patch"] = {"inspect"}
      /\ TriageDependsOn["approval"] = {"patch"} /\ TriageDependsOn["verify"] = {"approval"}
      /\ TriageDependsOn["report"] = {"verify"}
  BY DEF TriageDependsOn, TriageTask
<1>2. QED
  BY <1>1, Table

\* The plan of a live run in a phase: everything before is done, everything
\* after untouched, the phase's own task in one of the statuses S.
AtPhase(p, ph, S) ==
  /\ p.status \notin Plan!PlanTerminal
  /\ \A q \in Phase :
       /\ Rank(q) < Rank(ph) => p.task[TaskOf(q)] = "succeeded"
       /\ Rank(q) > Rank(ph) => p.task[TaskOf(q)] = "pending"
  /\ p.task[TaskOf(ph)] \in S
  /\ p.task[TaskOf(ph)] = "running" => p.attempts[TaskOf(ph)] >= 1

\* A plan closed in the matching status.
ClosedAs(p, target) ==
  /\ p.status = target
  /\ \A t \in TriageTask : p.task[t] \in Plan!TaskTerminal

\* A pending task of the current phase is ready, and starting it disturbs no other.
LEMMA StartTaskAt ==
  ASSUME NEW p \in Plan!PlanType, NEW ph \in Phase, AtPhase(p, ph, {"pending"})
  PROVE  /\ Plan!CanStart(p, TaskOf(ph))
         /\ AtPhase(Plan!StartTask(p, TaskOf(ph)), ph, {"running"})
         /\ Plan!StartTask(p, TaskOf(ph)).approved = p.approved
<1> DEFINE t == TaskOf(ph)
           q == Plan!StartTask(p, t)
<1>1. t \in TriageTask /\ \A o \in Phase : TaskOf(o) \in TriageTask
  BY PhaseTypes
<1>2. Plan!CanStart(p, t)
  BY <1>1, DependsOnEarlier DEF AtPhase, Plan!CanStart, Plan!ReadyTasks
<1>3. /\ q.status = "running" /\ q.approved = p.approved
      /\ q.task[t] = "running" /\ q.attempts[t] = p.attempts[t] + 1
      /\ \A u \in TriageTask \ {t} : q.task[u] = p.task[u]
  BY <1>1 DEF Plan!StartTask, Plan!PlanType
<1>4. p.attempts[t] + 1 >= 1
  BY <1>1 DEF Plan!PlanType
<1>5. \A o \in Phase : Rank(o) # Rank(ph) => TaskOf(o) # t
  BY PhaseFacts
<1> HIDE DEF q
<1>6. QED
  BY <1>1, <1>2, <1>3, <1>4, <1>5 DEF AtPhase, Plan!PlanTerminal, q

\* _record_plan_action(completed=False): the phase's task is running afterwards,
\* unless it still waits for an approval.
LEMMA StartedAt ==
  ASSUME TypeOK, NEW r \in Runs, AtPhase(plan[r], phase[r], {"pending", "running"})
  PROVE  /\ AtPhase(StartedPlan(r), phase[r], {"pending", "running"})
         /\ StartedPlan(r).approved = plan[r].approved
         /\ (phase[r] = "patch_created" => "approval" \in plan[r].approved)
              => AtPhase(StartedPlan(r), phase[r], {"running"})
<1> DEFINE t == TaskOf(phase[r])
<1>1. plan[r] \in Plan!PlanType /\ phase[r] \in Phase
  BY DEF TypeOK
<1>2. StartedPlan(r) = IF Plan!CanStart(plan[r], t) /\ (t = "approval" => t \in plan[r].approved)
                       THEN Plan!StartTask(plan[r], t) ELSE plan[r]
  BY DEF AtPhase, StartedPlan
<1>3. t = "approval" => phase[r] = "patch_created"
  BY <1>1 DEF TaskOf, Phase, ToolPhase
<1>4. CASE plan[r].task[t] = "running"
  <2>1. ~Plan!CanStart(plan[r], t)
    BY <1>4 DEF Plan!CanStart, Plan!ReadyTasks
  <2>2. QED
    BY <1>2, <1>4, <2>1 DEF AtPhase
<1>5. CASE plan[r].task[t] = "pending"
  <2>1. AtPhase(plan[r], phase[r], {"pending"})
    BY <1>5 DEF AtPhase
  <2>2. /\ Plan!CanStart(plan[r], t)
        /\ AtPhase(Plan!StartTask(plan[r], t), phase[r], {"running"})
        /\ Plan!StartTask(plan[r], t).approved = plan[r].approved
    BY <1>1, <2>1, StartTaskAt
  <2>3. \A p : AtPhase(p, phase[r], {"running"}) => AtPhase(p, phase[r], {"pending", "running"})
    BY DEF AtPhase
  <2>4. QED
    BY <1>2, <1>3, <2>2, <2>3, PhaseFacts
<1>6. QED
  BY <1>4, <1>5 DEF AtPhase

\* _record_plan_action(completed=True) before the last phase moves the plan on.
LEMMA CompletedAt ==
  ASSUME NEW p \in Plan!PlanType, NEW ph \in Phase, ph # "verified",
         AtPhase(p, ph, {"running"})
  PROVE  /\ AtPhase(CompletedPlan(p, TaskOf(ph)), NextPhase(ph), {"pending"})
         /\ CompletedPlan(p, TaskOf(ph)).approved = p.approved
<1> DEFINE t  == TaskOf(ph)
           st == [p.task EXCEPT ![t] = "succeeded"]
           q  == CompletedPlan(p, t)
<1>1. t \in TriageTask /\ \A o \in Phase : TaskOf(o) \in TriageTask
  BY PhaseTypes
<1>2. q = Plan!WithTasks(p, st)
  BY DEF AtPhase, CompletedPlan, Plan!CanSucceed, Plan!SucceedTask
<1>3. /\ st[t] = "succeeded"
      /\ \A u \in TriageTask \ {t} : st[u] = p.task[u]
  BY <1>1 DEF Plan!PlanType
<1>4. /\ q.task = st /\ q.approved = p.approved /\ q.attempts = p.attempts
      /\ q.status = Plan!RefreshedStatus(st)
  BY <1>2 DEF Plan!WithTasks, Plan!PlanType
<1>5. \A o \in Phase : /\ Rank(o) =< Rank(ph) => st[TaskOf(o)] = "succeeded"
                       /\ Rank(o) > Rank(ph) => st[TaskOf(o)] = "pending"
  BY <1>1, <1>3, PhaseFacts DEF AtPhase
<1>6. NextPhase(ph) \in Phase /\ Rank(NextPhase(ph)) = Rank(ph) + 1 /\ Rank(ph) \in Nat
  BY PhaseFacts
<1>7. \A u \in TriageTask : st[u] \in {"succeeded", "pending"}
  BY <1>5, EveryTaskHasItsPhase, PhaseFacts
<1>8. st[TaskOf(NextPhase(ph))] = "pending"
  BY <1>5, <1>6
<1>9. q.status \notin Plan!PlanTerminal
  <2> HIDE DEF st
  <2>1. "pending" \in {st[u] : u \in TriageTask}
    BY <1>1, <1>6, <1>8
  <2>2. {st[u] : u \in TriageTask} \cap {"failed", "unknown_outcome"} = {}
    BY <1>7
  <2>3. Plan!RefreshedStatus(st) \in {"pending", "running", "waiting_approval"}
    BY <2>1, <2>2 DEF Plan!RefreshedStatus, Plan!TaskTerminal
  <2>4. QED
    BY <1>4, <2>3 DEF Plan!PlanTerminal
<1> HIDE DEF st, q
<1>10. \A o \in Phase : /\ Rank(o) < Rank(NextPhase(ph)) => q.task[TaskOf(o)] = "succeeded"
                        /\ Rank(o) > Rank(NextPhase(ph)) => q.task[TaskOf(o)] = "pending"
  BY <1>4, <1>5, <1>6, PhaseFacts
<1>11. AtPhase(q, NextPhase(ph), {"pending"})
  BY <1>4, <1>8, <1>9, <1>10 DEF AtPhase
<1>12. QED
  BY <1>4, <1>11 DEF q

\* ... and in the last phase closes it.
LEMMA FinishedAt ==
  ASSUME NEW p \in Plan!PlanType, AtPhase(p, "verified", {"running"})
  PROVE  /\ ClosedAs(CompletedPlan(p, "report"), "succeeded")
         /\ \A t \in TriageTask : CompletedPlan(p, "report").task[t] = "succeeded"
<1> DEFINE st == [p.task EXCEPT !["report"] = "succeeded"]
           q  == CompletedPlan(p, "report")
<1>1. "report" \in TriageTask /\ "verified" \in Phase /\ TaskOf("verified") = "report"
  BY Table DEF TriageTask
<1>2. q = Plan!WithTasks(p, st)
  BY <1>1 DEF AtPhase, CompletedPlan, Plan!CanSucceed, Plan!SucceedTask
<1>3. st["report"] = "succeeded" /\ \A u \in TriageTask \ {"report"} : st[u] = p.task[u]
  BY <1>1 DEF Plan!PlanType
<1>4. \A u \in TriageTask : st[u] = "succeeded"
  BY <1>1, <1>3, EveryTaskHasItsPhase, Table DEF AtPhase
<1>5. q.task = st /\ q.status = Plan!RefreshedStatus(st)
  BY <1>2 DEF Plan!WithTasks, Plan!PlanType
<1> HIDE DEF st, q
<1>6. {st[u] : u \in TriageTask} = {"succeeded"}
  BY <1>1, <1>4
<1>7. Plan!RefreshedStatus(st) = "succeeded"
  BY <1>6 DEF Plan!RefreshedStatus, Plan!TaskTerminal
<1>8. QED
  BY <1>4, <1>5, <1>7 DEF ClosedAs, Plan!TaskTerminal, q

\* fail_task on the phase's task: it has no attempt left, and what depends on it is
\* skipped.
LEMMA FailedAt ==
  ASSUME NEW p \in Plan!PlanType, NEW ph \in Phase, AtPhase(p, ph, {"running"})
  PROVE  /\ Plan!CanFail(p, TaskOf(ph))
         /\ ClosedAs(Plan!FailTask(p, TaskOf(ph)), "failed")
<1> DEFINE t  == TaskOf(ph)
           st == [p.task EXCEPT ![t] = "failed"]
           sk == Plan!SkipBlocked(st)
           q  == Plan!FailTask(p, t)
<1>1. t \in TriageTask /\ \A o \in Phase : TaskOf(o) \in TriageTask
  BY PhaseTypes
<1>2. Plan!CanFail(p, t) /\ p.attempts[t] >= 1 /\ p.attempts[t] \in Nat
  BY <1>1 DEF AtPhase, Plan!CanFail, Plan!PlanType
<1>3. ~Plan!Retries(p, t)
  BY <1>1, <1>2 DEF Plan!Retries
<1>4. q = Plan!WithTasks(p, sk)
  BY <1>3 DEF Plan!FailTask
<1>5. q.task = sk /\ q.status = Plan!RefreshedStatus(sk)
  BY <1>4 DEF Plan!WithTasks, Plan!PlanType
<1>6. st[t] = "failed" /\ \A u \in TriageTask \ {t} : st[u] = p.task[u]
  BY <1>1 DEF Plan!PlanType
<1> HIDE DEF st, sk, q
<1>7. \A o \in Phase : /\ Rank(o) < Rank(ph) => st[TaskOf(o)] = "succeeded"
                       /\ Rank(o) > Rank(ph) => st[TaskOf(o)] = "pending"
  BY <1>1, <1>6, PhaseFacts DEF AtPhase
<1>8. ASSUME NEW S \in SUBSET TriageTask, Plan!Contagious(st, S),
             NEW u \in TriageTask, st[u] = "pending"
      PROVE  u \in S
  <2>1. t \in S
    BY <1>1, <1>6, <1>8 DEF Plan!Contagious
  <2>2. \A a, b \in TriageTask :
          st[b] = "pending" /\ TriageDependsOn[b] = {a} /\ a \in S => b \in S
    BY <1>8 DEF Plan!Contagious
  <2>3. /\ TriageDependsOn["baseline"] = {"skill"}
        /\ TriageDependsOn["inspect"] = {"baseline"} /\ TriageDependsOn["patch"] = {"inspect"}
        /\ TriageDependsOn["approval"] = {"patch"}
        /\ TriageDependsOn["verify"] = {"approval"}
        /\ TriageDependsOn["report"] = {"verify"}
    BY DEF TriageDependsOn, TriageTask
  <2>4. /\ st["baseline"] = "pending" /\ "skill" \in S => "baseline" \in S
        /\ st["inspect"] = "pending" /\ "baseline" \in S => "inspect" \in S
        /\ st["patch"] = "pending" /\ "inspect" \in S => "patch" \in S
        /\ st["approval"] = "pending" /\ "patch" \in S => "approval" \in S
        /\ st["verify"] = "pending" /\ "approval" \in S => "verify" \in S
        /\ st["report"] = "pending" /\ "verify" \in S => "report" \in S
    BY <2>2, <2>3 DEF TriageTask
  <2>5. \A k \in TriageTask : st[k] = "pending" => k \in S
    BY <1>6, <1>7, <2>1, <2>4, Table DEF TriageTask
  <2>6. QED
    BY <1>8, <2>5
<1>9. \A u \in TriageTask : sk[u] = IF st[u] = "pending" THEN "skipped" ELSE st[u]
  BY <1>8 DEF Plan!SkipBlocked, sk
<1>10. \A u \in TriageTask : st[u] \in {"succeeded", "pending", "failed"}
  <2>1. TAKE u \in TriageTask
  <2>2. PICK o \in Phase : TaskOf(o) = u
    BY EveryTaskHasItsPhase
  <2>3. QED
    BY <1>6, <1>7, <2>2, PhaseFacts
<1>11. sk[t] = "failed" /\ \A u \in TriageTask : sk[u] \in Plan!TaskTerminal
  BY <1>1, <1>6, <1>9, <1>10 DEF Plan!TaskTerminal
<1>12. "failed" \in {sk[u] : u \in TriageTask}
  BY <1>1, <1>11
<1>13. Plan!RefreshedStatus(sk) = "failed"
  BY <1>12 DEF Plan!RefreshedStatus
<1>14. QED
  BY <1>2, <1>5, <1>11, <1>13 DEF ClosedAs, q

\* mark_unknown_outcome stops everything, cancel and abort too.
LEMMA StoppedPlans ==
  ASSUME NEW p \in Plan!PlanType
  PROVE  /\ ClosedAs(Plan!MarkUnknown(p, "approval"), "failed")
         /\ ClosedAs(Plan!AbortPlan(p), "failed")
         /\ ClosedAs(Plan!CancelPlan(p), "cancelled")
<1> DEFINE st == [p.task EXCEPT !["approval"] = "unknown_outcome"]
           sk == Plan!SkipBlocked(st)
           so == Plan!StopAfterUnknown(sk)
           q  == Plan!MarkUnknown(p, "approval")
<1>1. "approval" \in TriageTask
  BY DEF TriageTask
<1>2. st["approval"] = "unknown_outcome"
  BY <1>1 DEF Plan!PlanType
<1>3. q.task = so /\ q.status = Plan!RefreshedStatus(so)
  BY DEF Plan!MarkUnknown, Plan!WithTasks, Plan!PlanType
<1> HIDE DEF st
<1>4. sk["approval"] = "unknown_outcome"
  BY <1>1, <1>2 DEF Plan!SkipBlocked
<1> HIDE DEF sk
<1>5. so["approval"] = "unknown_outcome" /\ \A u \in TriageTask : so[u] \in Plan!TaskTerminal
  BY <1>1, <1>4 DEF Plan!StopAfterUnknown, Plan!TaskTerminal
<1> HIDE DEF so, q
<1>6. "unknown_outcome" \in {so[u] : u \in TriageTask}
  BY <1>1, <1>5
<1>7. Plan!RefreshedStatus(so) = "failed"
  BY <1>6 DEF Plan!RefreshedStatus
<1>8. ClosedAs(q, "failed")
  BY <1>3, <1>5, <1>7 DEF ClosedAs
<1>9. ClosedAs(Plan!AbortPlan(p), "failed")
  BY DEF ClosedAs, Plan!AbortPlan, Plan!PlanType, Plan!TaskTerminal
<1>10. ClosedAs(Plan!CancelPlan(p), "cancelled")
  BY DEF ClosedAs, Plan!CancelPlan, Plan!PlanType, Plan!TaskTerminal
<1>11. QED
  BY <1>8, <1>9, <1>10 DEF q

-----------------------------------------------------------------------------
(* The inductive invariant: what each row says of itself, and what each      *)
(* worker that holds a tool and its row's lease may rely on.                 *)

OpenStatus(r) == IF status[r] = "waiting_approval" THEN {"waiting_approval"}
                 ELSE {"pending", "running"}

RowFollows(r) ==
  /\ status[r] \notin RunTerminal =>
       /\ AtPhase(plan[r], phase[r], OpenStatus(r))
       /\ Approved(r) => "approval" \in plan[r].approved
       /\ ~Approved(r) => inv[r]["patch_created"] \in {"absent", "pending"}
  /\ status[r] = "waiting_approval" =>
       /\ phase[r] = "patch_created" /\ approval[r] = "pending"
       /\ plan[r].status = "waiting_approval" /\ inv[r]["patch_created"] = "pending"
  /\ status[r] \in RunTerminal => ClosedAs(plan[r], status[r])
  /\ status[r] = "succeeded" => \A t \in TriageTask : plan[r].task[t] = "succeeded"

Held(w, r) ==
  InTool(w, r) /\ Owns(w, r) =>
    /\ phase[r] = prepared[w]
    /\ inv[r][prepared[w]] = "running"
    /\ plan[r].task[TaskOf(prepared[w])] = "running"

Fenced == /\ \A r \in Runs : RowFollows(r)
          /\ \A w \in Workers, r \in Runs : Held(w, r)

Invariants == TypeOK /\ PatchAccounted /\ Fenced

SameRow(r) ==
  /\ status'[r] = status[r] /\ owner'[r] = owner[r] /\ phase'[r] = phase[r]
  /\ plan'[r] = plan[r] /\ inv'[r] = inv[r] /\ approval'[r] = approval[r]

SameWorker(w) == pc'[w] = pc[w] /\ job'[w] = job[w] /\ prepared'[w] = prepared[w]

\* A row that was not written says what it said.
LEMMA SameRowFollows ==
  ASSUME NEW r \in Runs, RowFollows(r), SameRow(r)
  PROVE  RowFollows(r)'
BY DEF RowFollows, SameRow, OpenStatus, Approved

\* A transaction by one worker on one row: afterwards the row is not running, or
\* it is this worker's, so that no other worker may write it.
LEMMA OneRowStep ==
  ASSUME Unshared, TypeOK, Fenced, NEW w \in Workers, NEW r \in Runs,
         \A x \in Runs \ {r} : SameRow(x),
         \A v \in Workers \ {w} : SameWorker(v),
         status'[r] = "running" => owner'[r] = WorkerId[w],
         \A x \in Runs : InTool(w, x)' => Held(w, x)',
         RowFollows(r)'
  PROVE  Fenced'
<1>1. \A x \in Runs : RowFollows(x)'
  BY SameRowFollows DEF Fenced
<1>2. ASSUME NEW v \in Workers, NEW x \in Runs PROVE Held(v, x)'
  <2>1. CASE v = w
    BY <2>1 DEF Held
  <2>2. CASE v # w /\ x = r
    BY <2>2 DEF Held, Owns, Unshared
  <2>3. CASE v # w /\ x # r
    <3>1. SameRow(x) /\ SameWorker(v) /\ Held(v, x)
      BY <2>3 DEF Fenced
    <3>2. QED
      BY <3>1 DEF Held, InTool, Owns, SameRow, SameWorker
  <2>4. QED
    BY <2>1, <2>2, <2>3
<1>3. QED
  BY <1>1, <1>2 DEF Fenced

\* A step of one worker that writes no row: it takes up no tool.
LEMMA NoRowStep ==
  ASSUME Fenced, UNCHANGED store,
         \A w \in Workers, r \in Runs :
           InTool(w, r)' => InTool(w, r) /\ prepared'[w] = prepared[w]
  PROVE  Fenced'
<1>1. \A r \in Runs : SameRow(r)
  BY DEF SameRow, store
<1>2. \A r \in Runs : RowFollows(r)'
  BY <1>1, SameRowFollows DEF Fenced
<1>3. ASSUME NEW w \in Workers, NEW r \in Runs PROVE Held(w, r)'
  <2>1. Held(w, r) /\ SameRow(r)
    BY <1>1 DEF Fenced
  <2>2. QED
    BY <2>1 DEF Held, InTool, Owns, SameRow
<1>4. QED
  BY <1>2, <1>3 DEF Fenced

\* A request of the client or the clock: no worker moves, and the row is not
\* running afterwards or says what it said.
LEMMA RequestStep ==
  ASSUME Fenced, NEW r \in Runs, UNCHANGED worker,
         \A x \in Runs \ {r} : SameRow(x),
         status'[r] # "running" \/ SameRow(r),
         RowFollows(r)'
  PROVE  Fenced'
<1>1. \A x \in Runs : RowFollows(x)'
  BY SameRowFollows DEF Fenced
<1>2. ASSUME NEW w \in Workers, NEW x \in Runs PROVE Held(w, x)'
  <2>1. CASE SameRow(x)
    <3>1. Held(w, x)
      BY DEF Fenced
    <3>2. QED
      BY <2>1, <3>1 DEF Held, InTool, Owns, SameRow, worker
  <2>2. CASE status'[x] # "running"
    BY <2>2 DEF Held, Owns
  <2>3. QED
    BY <2>1, <2>2
<1>3. QED
  BY <1>1, <1>2 DEF Fenced

-----------------------------------------------------------------------------
(* One lemma per kind of transaction. *)

\* What an advancing worker finds and what starting the phase's task does.
LEMMA AdvancingRow ==
  ASSUME Invariants, NEW w \in Workers, NEW r \in Runs, Stepping(w, r)
  PROVE  /\ status[r] = "running" /\ plan[r] \in Plan!PlanType
         /\ StartedPlan(r) \in Plan!PlanType
         /\ AtPhase(plan[r], phase[r], {"pending", "running"})
         /\ AtPhase(StartedPlan(r), phase[r], {"pending", "running"})
         /\ StartedPlan(r).approved = plan[r].approved
         /\ (phase[r] = "patch_created" => Approved(r))
              => AtPhase(StartedPlan(r), phase[r], {"running"})
<1>1. status[r] = "running" /\ plan[r] \in Plan!PlanType
  BY DEF Stepping, Owns, Invariants, TypeOK
<1>2. /\ AtPhase(plan[r], phase[r], {"pending", "running"})
      /\ Approved(r) => "approval" \in plan[r].approved
  BY <1>1 DEF Invariants, Fenced, RowFollows, OpenStatus, RunTerminal
<1>3. QED
  BY <1>1, <1>2, StartedAt, StartedPlanType DEF Invariants

\* Closing the row with its plan closed in the same status.
LEMMA ClosedRow ==
  ASSUME TypeOK, NEW r \in Runs, NEW target \in {"failed", "cancelled"}, NEW why,
         NEW p, ClosedAs(p, target), SetPlan(r, p), Close(r, target, why)
  PROVE  RowFollows(r)'
<1>1. status'[r] = target /\ plan'[r] = p
  BY DEF TypeOK, SetPlan, Close
<1>2. QED
  BY <1>1 DEF RowFollows, RunTerminal, ClosedAs

\* An advancing or recording worker touches its own row and its own locals only.
LEMMA OtherRows ==
  ASSUME TypeOK, NEW w \in Workers, NEW r \in Runs, Advance(w, r) \/ Record(w, r)
  PROVE  /\ \A x \in Runs \ {r} : SameRow(x)
         /\ \A v \in Workers \ {w} : SameWorker(v)
<1>1. CASE Advance(w, r)
  <2>1. /\ \A v \in Workers \ {w} : SameWorker(v)
        /\ \A x \in Runs \ {r} : status'[x] = status[x] /\ owner'[x] = owner[x]
        /\ \A x \in Runs \ {r} : plan'[x] = plan[x] /\ phase'[x] = phase[x]
    BY <1>1 DEF Advance, AdvanceOverBudget, AdvanceBroken, AdvanceLoadSkill, AdvanceFinish,
                AdvanceAskApproval, AdvanceCached, AdvanceUnknown, AdvancePrepare, Release,
                Leave, SameWorker, Close, MoveTo, SetPlan, TypeOK
  <2>2. \A x \in Runs \ {r} : approval'[x] = approval[x] /\ inv'[x] = inv[x]
    BY <1>1 DEF Advance, AdvanceOverBudget, AdvanceBroken, AdvanceLoadSkill, AdvanceFinish,
                AdvanceAskApproval, AdvanceCached, AdvanceUnknown, AdvancePrepare, Begun,
                TypeOK
  <2>3. QED
    BY <2>1, <2>2 DEF SameRow
<1>2. CASE Record(w, r)
  BY <1>2 DEF Record, CompletePrepared, OutputOverrun, FailPrepared, Release, Leave,
              SameWorker, SameRow, Close, MoveTo, SetPlan, TypeOK, store
<1>3. QED
  BY <1>1, <1>2

\* execute_claimed keeps the invariant: only AdvancePrepare hands out a tool.
LEMMA AdvanceFences ==
  ASSUME Unshared, Invariants, NEW w \in Workers, NEW r \in Runs, Advance(w, r)
  PROVE  Fenced'
<1>1. Stepping(w, r)
  BY DEF Advance, AdvanceOverBudget, AdvanceBroken, AdvanceLoadSkill, AdvanceFinish,
         AdvanceAskApproval, AdvanceCached, AdvanceUnknown, AdvancePrepare
<1>2. /\ status[r] = "running" /\ plan[r] \in Plan!PlanType
      /\ StartedPlan(r) \in Plan!PlanType
      /\ AtPhase(plan[r], phase[r], {"pending", "running"})
      /\ AtPhase(StartedPlan(r), phase[r], {"pending", "running"})
      /\ StartedPlan(r).approved = plan[r].approved
      /\ (phase[r] = "patch_created" => Approved(r))
           => AtPhase(StartedPlan(r), phase[r], {"running"})
  BY <1>1, AdvancingRow
<1>3. /\ TypeOK /\ Fenced /\ RowFollows(r) /\ phase[r] \in Phase
      /\ Approved(r) => "approval" \in plan[r].approved
      /\ ~Approved(r) => inv[r]["patch_created"] \in {"absent", "pending"}
  <2>1. TypeOK /\ Fenced
    BY DEF Invariants
  <2>2. RowFollows(r) /\ phase[r] \in Phase
    BY <2>1 DEF Fenced, TypeOK
  <2>3. status[r] \notin RunTerminal
    BY <1>2 DEF RunTerminal
  <2>4. QED
    BY <2>1, <2>2, <2>3 DEF RowFollows
<1>4. /\ \A x \in Runs \ {r} : SameRow(x)
      /\ \A v \in Workers \ {w} : SameWorker(v)
  BY <1>3, OtherRows
<1>5. CASE AdvancePrepare(w, r)
  <2>1. /\ phase[r] \in ToolPhase
        /\ phase[r] = "patch_created" => Approved(r)
        /\ inv' = [inv EXCEPT ![r][phase[r]] = "running"]
        /\ plan' = [plan EXCEPT ![r] = StartedPlan(r)]
        /\ status' = status /\ owner' = owner /\ phase' = phase /\ approval' = approval
        /\ job' = job /\ prepared' = [prepared EXCEPT ![w] = phase[r]]
    BY <1>5 DEF AdvancePrepare, CallsTool, SetPlan
  <2>2. AtPhase(StartedPlan(r), phase[r], {"running"})
    BY <1>2, <2>1
  <2>3. /\ plan'[r] = StartedPlan(r) /\ inv'[r][phase[r]] = "running"
        /\ phase[r] # "patch_created" => inv'[r]["patch_created"] = inv[r]["patch_created"]
        /\ prepared'[w] = phase[r]
    BY <1>3, <2>1 DEF TypeOK, ToolPhase
  <2>4. RowFollows(r)'
    BY <1>2, <1>3, <2>1, <2>2, <2>3
       DEF RowFollows, AtPhase, OpenStatus, Approved, RunTerminal
  <2>5. \A x \in Runs : InTool(w, x)' => Held(w, x)'
    BY <1>1, <2>1, <2>2, <2>3 DEF Held, InTool, AtPhase, Stepping, Owns
  <2>6. owner'[r] = WorkerId[w]
    BY <1>1, <2>1 DEF Stepping, Owns
  <2>7. QED
    BY <1>3, <1>4, <2>4, <2>5, <2>6, OneRowStep
<1>6. ASSUME ~AdvancePrepare(w, r) PROVE Fenced'
  <2>1. \A x \in Runs : ~InTool(w, x)'
    BY <1>3, <1>6 DEF Advance, AdvanceOverBudget, AdvanceBroken, AdvanceLoadSkill,
       AdvanceFinish, AdvanceAskApproval, AdvanceCached, AdvanceUnknown, Release, Leave,
       InTool, TypeOK
  <2>2. status'[r] # "running"
    BY <1>3, <1>6 DEF Advance, AdvanceOverBudget, AdvanceBroken, AdvanceLoadSkill,
       AdvanceFinish, AdvanceAskApproval, AdvanceCached, AdvanceUnknown, Close, MoveTo,
       TypeOK
  <2>3. ASSUME AdvanceOverBudget(w, r) \/ AdvanceBroken(w, r) PROVE RowFollows(r)'
    <3>1. PICK p \in {plan[r], StartedPlan(r)} : SetPlan(r, Plan!AbortPlan(p))
      BY <2>3 DEF AdvanceOverBudget, AdvanceBroken
    <3>2. PICK why : Close(r, "failed", why)
      BY <2>3 DEF AdvanceOverBudget, AdvanceBroken
    <3>3. ClosedAs(Plan!AbortPlan(p), "failed")
      BY <1>2, <3>1, StoppedPlans
    <3>4. QED
      BY <1>3, <3>1, <3>2, <3>3, ClosedRow
  <2>4. ASSUME AdvanceUnknown(w, r) PROVE RowFollows(r)'
    <3>1. /\ SetPlan(r, Plan!MarkUnknown(StartedPlan(r), "approval"))
          /\ Close(r, "failed", "unknown_external_outcome")
      BY <2>4 DEF AdvanceUnknown
    <3>2. ClosedAs(Plan!MarkUnknown(StartedPlan(r), "approval"), "failed")
      BY <1>2, StoppedPlans
    <3>3. QED
      BY <1>3, <3>1, <3>2, ClosedRow
  <2>5. ASSUME AdvanceFinish(w, r) PROVE RowFollows(r)'
    <3>1. /\ phase[r] = "verified"
          /\ SetPlan(r, CompletedPlan(StartedPlan(r), "report"))
          /\ Close(r, "succeeded", "completed")
      BY <2>5 DEF AdvanceFinish
    <3>2. /\ ClosedAs(CompletedPlan(StartedPlan(r), "report"), "succeeded")
          /\ \A t \in TriageTask : CompletedPlan(StartedPlan(r), "report").task[t] = "succeeded"
      BY <1>2, <3>1, FinishedAt
    <3>3. status'[r] = "succeeded" /\ plan'[r] = CompletedPlan(StartedPlan(r), "report")
      BY <1>3, <3>1 DEF Close, SetPlan, TypeOK
    <3>4. QED
      BY <3>2, <3>3 DEF RowFollows, RunTerminal
  <2>6. ASSUME AdvanceLoadSkill(w, r) \/ AdvanceCached(w, r) PROVE RowFollows(r)'
    <3>1. /\ phase[r] # "verified"
          /\ phase[r] = "patch_created" => Approved(r)
          /\ phase' = [phase EXCEPT ![r] = NextPhase(phase[r])]
          /\ SetPlan(r, CompletedPlan(StartedPlan(r), TaskOf(phase[r])))
          /\ status' = [status EXCEPT ![r] = "queued"]
          /\ UNCHANGED <<inv, approval>>
      BY <2>6, Table DEF AdvanceLoadSkill, AdvanceCached, CallsTool, ToolPhase, MoveTo
    <3>2. /\ AtPhase(CompletedPlan(StartedPlan(r), TaskOf(phase[r])), NextPhase(phase[r]),
                     {"pending"})
          /\ CompletedPlan(StartedPlan(r), TaskOf(phase[r])).approved = plan[r].approved
      BY <1>2, <1>3, <3>1, CompletedAt
    <3>3. /\ status'[r] = "queued" /\ phase'[r] = NextPhase(phase[r])
          /\ plan'[r] = CompletedPlan(StartedPlan(r), TaskOf(phase[r]))
      BY <1>3, <3>1 DEF SetPlan, TypeOK
    <3>4. QED
      BY <1>3, <3>1, <3>2, <3>3 DEF RowFollows, AtPhase, OpenStatus, Approved, RunTerminal
  <2>7. ASSUME AdvanceAskApproval(w, r) PROVE RowFollows(r)'
    <3>1. /\ phase[r] = "patch_created" /\ approval[r] = "none"
          /\ Plan!CanRequestApproval(StartedPlan(r), "approval")
          /\ approval' = [approval EXCEPT ![r] = "pending"]
          /\ inv' = Begun(r) /\ phase' = phase
          /\ plan' = [plan EXCEPT ![r] = Plan!RequestApproval(StartedPlan(r), "approval")]
          /\ status' = [status EXCEPT ![r] = "waiting_approval"]
      BY <2>7 DEF AdvanceAskApproval, SetPlan, MoveTo
    <3>2. inv'[r]["patch_created"] = "pending"
      <4>1. inv[r]["patch_created"] \in {"absent", "pending"}
        BY <1>3, <3>1 DEF Approved
      <4>2. QED
        BY <1>3, <3>1, <4>1 DEF Begun, TypeOK, ToolPhase
    <3> DEFINE q == Plan!RequestApproval(StartedPlan(r), "approval")
    <3>3. /\ q.task["approval"] = "waiting_approval" /\ q.status = "waiting_approval"
          /\ \A t \in TriageTask \ {"approval"} : q.task[t] = StartedPlan(r).task[t]
      BY <1>2 DEF Plan!RequestApproval, Plan!PlanType, TriageTask
    <3> HIDE DEF q
    <3>4. AtPhase(q, "patch_created", {"waiting_approval"})
      <4>1. \A o \in Phase : Rank(o) # Rank("patch_created") =>
              TaskOf(o) \in TriageTask \ {"approval"}
        BY Table, PhaseTypes
      <4>2. TaskOf("patch_created") = "approval"
        BY Table
      <4>3. /\ \A o \in Phase : /\ Rank(o) < Rank("patch_created")
                                     => StartedPlan(r).task[TaskOf(o)] = "succeeded"
                                /\ Rank(o) > Rank("patch_created")
                                     => StartedPlan(r).task[TaskOf(o)] = "pending"
        BY <1>2, <3>1 DEF AtPhase
      <4>4. \A o \in Phase : /\ Rank(o) < Rank("patch_created")
                                  => q.task[TaskOf(o)] = "succeeded"
                             /\ Rank(o) > Rank("patch_created")
                                  => q.task[TaskOf(o)] = "pending"
        BY <3>3, <4>1, <4>3, PhaseFacts, Table
      <4>5. QED
        BY <3>3, <4>2, <4>4 DEF AtPhase, Plan!PlanTerminal
    <3>5. /\ status'[r] = "waiting_approval" /\ plan'[r] = q /\ approval'[r] = "pending"
          /\ phase'[r] = "patch_created"
      BY <1>3, <3>1 DEF TypeOK, q
    <3>6. QED
      BY <3>2, <3>3, <3>4, <3>5 DEF RowFollows, OpenStatus, Approved, RunTerminal
  <2>8. RowFollows(r)'
    BY <1>6, <2>3, <2>4, <2>5, <2>6, <2>7 DEF Advance
  <2>9. QED
    BY <1>3, <1>4, <2>1, <2>2, <2>8, OneRowStep
<1>7. QED
  BY <1>5, <1>6

\* _execute_prepared keeps it, since the row is as the worker left it.
LEMMA RecordFences ==
  ASSUME Unshared, Invariants, NEW w \in Workers, NEW r \in Runs, Record(w, r)
  PROVE  Fenced'
<1>1. /\ TypeOK /\ Fenced /\ PatchAccounted
      /\ Owns(w, r) /\ InTool(w, r)
  BY DEF Invariants, Record, CompletePrepared, OutputOverrun, FailPrepared, InTool, Owns
<1> DEFINE ph == prepared[w]
<1>2. /\ status[r] = "running" /\ plan[r] \in Plan!PlanType /\ ph \in Phase
      /\ phase[r] = ph /\ inv[r][ph] = "running" /\ plan[r].task[TaskOf(ph)] = "running"
      /\ ph \in ToolPhase /\ ph # "verified"
  <2>1. Held(w, r) /\ ph \in ToolPhase
    BY <1>1 DEF Fenced, PatchAccounted, InTool
  <2>2. QED
    BY <1>1, <2>1 DEF Held, Owns, TypeOK, ToolPhase
<1>3. /\ AtPhase(plan[r], ph, {"running"})
      /\ Approved(r) => "approval" \in plan[r].approved
      /\ ~Approved(r) => inv[r]["patch_created"] \in {"absent", "pending"}
  BY <1>1, <1>2 DEF Fenced, RowFollows, OpenStatus, RunTerminal, AtPhase
<1>4. /\ \A x \in Runs \ {r} : SameRow(x)
      /\ \A v \in Workers \ {w} : SameWorker(v)
  BY <1>1, OtherRows
<1>5. \A x \in Runs : ~InTool(w, x)'
  BY <1>1 DEF Record, CompletePrepared, OutputOverrun, FailPrepared, Release, Leave, InTool,
              TypeOK
<1>6. CASE CompletePrepared(w, r)
  <2>1. /\ inv' = [inv EXCEPT ![r][ph] = "succeeded"]
        /\ phase' = [phase EXCEPT ![r] = NextPhase(ph)]
        /\ SetPlan(r, CompletedPlan(plan[r], TaskOf(ph)))
        /\ status' = [status EXCEPT ![r] = "queued"] /\ approval' = approval
    BY <1>6 DEF CompletePrepared, MoveTo
  <2>2. /\ AtPhase(CompletedPlan(plan[r], TaskOf(ph)), NextPhase(ph), {"pending"})
        /\ CompletedPlan(plan[r], TaskOf(ph)).approved = plan[r].approved
    BY <1>2, <1>3, CompletedAt
  <2>3. /\ status'[r] = "queued" /\ phase'[r] = NextPhase(ph)
        /\ plan'[r] = CompletedPlan(plan[r], TaskOf(ph))
    BY <1>1, <2>1 DEF SetPlan, TypeOK
  <2>4. ~Approved(r) => inv'[r]["patch_created"] = inv[r]["patch_created"]
    <3>1. ph = "patch_created" => Approved(r)
      BY <1>1 DEF PatchAccounted, InPatch
    <3>2. QED
      BY <1>1, <1>2, <2>1, <3>1 DEF TypeOK, ToolPhase
  <2>5. RowFollows(r)'
    BY <1>3, <2>1, <2>2, <2>3, <2>4
       DEF RowFollows, AtPhase, OpenStatus, Approved, RunTerminal
  <2>6. QED
    BY <1>1, <1>4, <1>5, <2>3, <2>5, OneRowStep
<1>7. CASE OutputOverrun(w, r)
  <2>1. UNCHANGED store
    BY <1>7 DEF OutputOverrun
  <2>2. SameRow(r) /\ owner'[r] = WorkerId[w]
    BY <1>1, <2>1 DEF SameRow, store, Owns
  <2>3. RowFollows(r)'
    BY <1>1, <2>2, SameRowFollows DEF Fenced
  <2>4. QED
    BY <1>1, <1>4, <1>5, <2>2, <2>3, OneRowStep
<1>8. CASE FailPrepared(w, r)
  <2>1. /\ Plan!CanFail(plan[r], TaskOf(ph))
        /\ ClosedAs(Plan!FailTask(plan[r], TaskOf(ph)), "failed")
    BY <1>2, <1>3, FailedAt
  <2>2. SetPlan(r, Plan!FailTask(plan[r], TaskOf(ph)))
    BY <1>8, <2>1 DEF FailPrepared
  <2>3. PICK why : Close(r, "failed", why)
    BY <1>8 DEF FailPrepared
  <2>4. RowFollows(r)' /\ status'[r] = "failed"
    BY <1>1, <2>1, <2>2, <2>3, ClosedRow DEF Close, TypeOK
  <2>5. QED
    BY <1>1, <1>4, <1>5, <2>4, OneRowStep
<1>9. QED
  BY <1>6, <1>7, <1>8 DEF Record

\* The answers to an approval, cancellation, creation and the clock.
LEMMA RequestFences ==
  ASSUME Invariants, NEW r \in Runs,
         \/ CreateRun(r) \/ LeaseExpires(r) \/ CancelRun(r) \/ Approve(r) \/ Reject(r)
  PROVE  Fenced'
<1>1. TypeOK /\ Fenced /\ RowFollows(r) /\ plan[r] \in Plan!PlanType
  BY DEF Invariants, Fenced, TypeOK
<1>2. /\ UNCHANGED worker
      /\ \A x \in Runs \ {r} : SameRow(x)
  BY <1>1 DEF CreateRun, LeaseExpires, CancelRun, Approve, Reject, SameRow, Close, MoveTo,
              SetPlan, TypeOK
<1>3. CASE CreateRun(r)
  <2>1. /\ status[r] = "absent" /\ status'[r] = "queued"
        /\ UNCHANGED <<phase, plan, inv, approval>>
    BY <1>1, <1>3 DEF CreateRun, MoveTo, TypeOK
  <2>2. RowFollows(r)'
    BY <1>1, <2>1 DEF RowFollows, RunTerminal, OpenStatus, Approved
  <2>3. QED
    BY <1>1, <1>2, <2>1, <2>2, RequestStep
<1>4. CASE LeaseExpires(r)
  <2>1. SameRow(r)
    BY <1>4 DEF LeaseExpires, SameRow
  <2>2. QED
    BY <1>1, <1>2, <2>1, SameRowFollows, RequestStep
<1>5. CASE CancelRun(r) \/ Reject(r)
  <2>1. PICK why : Close(r, "cancelled", why) /\ SetPlan(r, Plan!CancelPlan(plan[r]))
    BY <1>5 DEF CancelRun, Reject
  <2>2. RowFollows(r)' /\ status'[r] = "cancelled"
    BY <1>1, <2>1, StoppedPlans, ClosedRow DEF Close, TypeOK
  <2>3. QED
    BY <1>1, <1>2, <2>2, RequestStep
<1>6. CASE Approve(r)
  <2>1. /\ status[r] = "waiting_approval" /\ phase[r] = "patch_created"
        /\ AtPhase(plan[r], "patch_created", {"waiting_approval"})
    BY <1>1, <1>6 DEF Approve, RowFollows, OpenStatus, RunTerminal
  <2>2. plan[r].task["approval"] = "waiting_approval" /\ "approval" \in TriageTask
    BY <2>1, Table DEF AtPhase, TriageTask
  <2>3. plan' = [plan EXCEPT ![r] = Plan!ApproveTask(plan[r], "approval")]
    BY <1>6, <2>2 DEF Approve, SetPlan, Plan!CanApprove, Plan!CanResume
  <2> DEFINE q == Plan!ApproveTask(plan[r], "approval")
  <2>4. /\ q.task["approval"] = "pending" /\ q.status = "pending"
        /\ "approval" \in q.approved
        /\ \A t \in TriageTask \ {"approval"} : q.task[t] = plan[r].task[t]
    <3> DEFINE m == [plan[r] EXCEPT !.approved = @ \cup {"approval"}]
    <3>1. /\ m.task = plan[r].task /\ "approval" \in m.approved
          /\ m \in [status : Plan!PlanStatus, task : [TriageTask -> Plan!TaskStatus],
                    attempts : [TriageTask -> Nat], approved : SUBSET TriageTask]
      BY <1>1, <2>2 DEF Plan!PlanType
    <3> HIDE DEF m
    <3>2. q = Plan!ResumeTask(m, "approval")
      BY DEF Plan!ApproveTask, m
    <3>3. /\ q.task = [m.task EXCEPT !["approval"] = "pending"]
          /\ q.status = "pending" /\ q.approved = m.approved
      BY <3>1, <3>2 DEF Plan!ResumeTask
    <3>4. QED
      BY <1>1, <2>2, <3>1, <3>3 DEF Plan!PlanType
  <2> HIDE DEF q
  <2>5. AtPhase(q, "patch_created", {"pending", "running"})
    <3>1. \A o \in Phase : Rank(o) # Rank("patch_created") =>
            TaskOf(o) \in TriageTask \ {"approval"}
      BY Table, PhaseTypes
    <3>2. \A o \in Phase : /\ Rank(o) < Rank("patch_created") => q.task[TaskOf(o)] = "succeeded"
                           /\ Rank(o) > Rank("patch_created") => q.task[TaskOf(o)] = "pending"
      BY <2>1, <2>4, <3>1, PhaseFacts, Table DEF AtPhase
    <3>3. QED
      BY <2>4, <3>2, Table DEF AtPhase, Plan!PlanTerminal
  <2>6. status'[r] = "queued" /\ plan'[r] = q /\ approval'[r] = "approved" /\ phase' = phase
    BY <1>1, <1>6, <2>3 DEF Approve, MoveTo, TypeOK, q
  <2>7. RowFollows(r)'
    BY <2>1, <2>4, <2>5, <2>6 DEF RowFollows, OpenStatus, Approved, RunTerminal
  <2>8. QED
    BY <1>1, <1>2, <2>6, <2>7, RequestStep
<1>7. QED
  BY <1>3, <1>4, <1>5, <1>6

\* Every step keeps it.
LEMMA FencedStep ==
  ASSUME Unshared, Invariants, [Next]_vars
  PROVE  Fenced'
<1>1. TypeOK /\ Fenced
  BY DEF Invariants
<1>2. CASE UNCHANGED vars
  BY <1>1, <1>2, NoRowStep DEF vars, store, worker, InTool
<1>3. ASSUME NEW w \in Workers, NEW r \in Runs, ClaimNext(w, r) PROVE Fenced'
  <2>1. /\ \A x \in Runs \ {r} : SameRow(x)
        /\ \A v \in Workers \ {w} : SameWorker(v)
        /\ status'[r] = "running" /\ owner'[r] = WorkerId[w]
        /\ \A x \in Runs : ~InTool(w, x)'
    BY <1>1, <1>3 DEF ClaimNext, SameRow, SameWorker, InTool, TypeOK
  <2>2. status[r] \in {"queued", "running"} /\ UNCHANGED <<phase, plan, inv, approval>>
    BY <1>3 DEF ClaimNext
  <2>3. RowFollows(r)'
    BY <1>1, <2>1, <2>2 DEF Fenced, RowFollows, RunTerminal, OpenStatus, Approved
  <2>4. QED
    BY <1>1, <2>1, <2>3, OneRowStep
<1>4. ASSUME NEW w \in Workers,
             \/ AdvanceRefused(w) \/ RunTool(w) \/ ResultRefused(w) \/ Crash(w) \/ Restart(w)
      PROVE Fenced'
  <2>1. UNCHANGED store
    BY <1>4 DEF AdvanceRefused, RunTool, ResultRefused, Crash, Restart
  <2>2. \A v \in Workers, r \in Runs :
          InTool(v, r)' => InTool(v, r) /\ prepared'[v] = prepared[v]
    BY <1>1, <1>4 DEF AdvanceRefused, RunTool, ResultRefused, Crash, Restart, Release, Leave,
                      InTool, TypeOK
  <2>3. QED
    BY <1>1, <2>1, <2>2, NoRowStep
<1>5. QED
  BY <1>2, <1>3, <1>4, AdvanceFences, RecordFences, RequestFences DEF Next

\* It holds at the start.
LEMMA FencedInit == Init => Fenced
<1> SUFFICES ASSUME Init PROVE Fenced
  OBVIOUS
<1>1. ASSUME NEW r \in Runs PROVE RowFollows(r)
  <2>1. AtPhase(Plan!NewPlan, "created", {"pending", "running"})
    <3>1. \A o \in Phase : TaskOf(o) \in TriageTask /\ ~(Rank(o) < Rank("created"))
      BY PhaseTypes, Table
    <3>2. TaskOf("created") \in TriageTask
      BY Table DEF TriageTask
    <3>3. QED
      BY <3>1, <3>2 DEF AtPhase, Plan!NewPlan, Plan!PlanTerminal
  <2>2. QED
    BY <2>1 DEF Init, RowFollows, RunTerminal, OpenStatus, Approved, ToolPhase
<1>2. \A w \in Workers, r \in Runs : Held(w, r)
  BY DEF Init, Held, InTool
<1>3. QED
  BY <1>1, <1>2 DEF Fenced

\* Types, the account of the patch and the fencing together are inductive.
LEMMA InvariantsHold ==
  ASSUME Unshared
  PROVE  Spec => []Invariants
<1>1. Init => Invariants
  BY TypeInit, PatchInit, FencedInit DEF Invariants
<1>2. Invariants /\ [Next]_vars => Invariants'
  <2>1. ASSUME Invariants, [Next]_vars PROVE Invariants'
    <3>1. TypeOK' /\ PatchAccounted'
      BY <2>1, TypeStep, PatchStep DEF Invariants
    <3>2. Fenced'
      BY <2>1, FencedStep
    <3>3. QED
      BY <3>1, <3>2 DEF Invariants
  <2>2. QED
    BY <2>1
<1>3. QED
  BY <1>1, <1>2, PTL DEF Spec

-----------------------------------------------------------------------------
(* What follows. *)

\* When every process has its own worker_id, a worker that passes the lease check
\* after its tool finds the phase, the invocation and the plan's task as it left
\* them, and nobody else passes the check: _execute_prepared may write what it
\* prepared without reading more of the row.
THEOREM PreparedStaysCurrent ==
  ASSUME Unshared
  PROVE  Spec => []PreparedIsCurrent
<1>1. Invariants => PreparedIsCurrent
  <2> SUFFICES ASSUME Invariants, NEW w \in Workers, NEW r \in Runs,
                      InTool(w, r), Owns(w, r)
               PROVE  /\ phase[r] = prepared[w]
                      /\ inv[r][prepared[w]] = "running"
                      /\ plan[r].task[TaskOf(prepared[w])] = "running"
                      /\ \A v \in Workers \ {w} : ~(pc[v] # "down" /\ Owns(v, r))
    BY DEF PreparedIsCurrent
  <2>1. Held(w, r)
    BY DEF Invariants, Fenced
  <2>2. \A v \in Workers \ {w} : ~Owns(v, r)
    BY DEF Owns, Unshared
  <2>3. QED
    BY <2>1, <2>2 DEF Held
<1>2. QED
  BY <1>1, InvariantsHold, PTL

\* The plan on the row keeps up with the phase through every crash, late answer
\* and cancellation, a waiting run can be answered, and whatever closes a run
\* closes its plan, with no task left open.
THEOREM PlanAlwaysFollowsPhase ==
  ASSUME Unshared
  PROVE  Spec => []PlanFollowsPhase
<1>1. Invariants => PlanFollowsPhase
  <2> SUFFICES ASSUME Invariants, NEW r \in Runs
               PROVE  /\ status[r] \notin RunTerminal =>
                           \A ph \in Phase :
                             /\ Rank(ph) < Rank(phase[r])
                                  => plan[r].task[TaskOf(ph)] = "succeeded"
                             /\ Rank(ph) > Rank(phase[r])
                                  => plan[r].task[TaskOf(ph)] = "pending"
                      /\ status[r] = "waiting_approval" =>
                           /\ approval[r] = "pending"
                           /\ Plan!CanApprove(plan[r], "approval")
                           /\ plan[r].status = "waiting_approval"
                           /\ inv[r]["patch_created"] = "pending"
                      /\ status[r] \in RunTerminal =>
                           /\ plan[r].status = status[r]
                           /\ \A t \in TriageTask : plan[r].task[t] \in Plan!TaskTerminal
                      /\ status[r] = "succeeded" =>
                           \A t \in TriageTask : plan[r].task[t] = "succeeded"
    BY DEF PlanFollowsPhase
  <2>1. RowFollows(r)
    BY DEF Invariants, Fenced
  <2>2. status[r] = "waiting_approval" => Plan!CanApprove(plan[r], "approval")
    BY <2>1, Table DEF RowFollows, OpenStatus, AtPhase, RunTerminal, Plan!CanApprove,
                       Plan!CanResume
  <2>3. QED
    BY <2>1, <2>2 DEF RowFollows, AtPhase, ClosedAs
<1>2. QED
  BY <1>1, InvariantsHold, PTL

\* The action property: an advancing or recording worker takes the phase one step
\* forward or leaves it, and no action writes the row of a finished run.
LEMMA NothingGoesBackStep ==
  ASSUME Invariants, [Next]_vars, NEW r \in Runs
  PROVE  /\ Rank(phase'[r]) \in {Rank(phase[r]), Rank(phase[r]) + 1}
         /\ status[r] \in RunTerminal =>
              UNCHANGED <<status[r], reason[r], owner[r], phase[r], plan[r], inv[r],
                          approval[r], turns[r]>>
<1> DEFINE Goal == /\ Rank(phase'[r]) \in {Rank(phase[r]), Rank(phase[r]) + 1}
                   /\ status[r] \in RunTerminal =>
                        UNCHANGED <<status[r], reason[r], owner[r], phase[r], plan[r], inv[r],
                                    approval[r], turns[r]>>
<1>1. TypeOK /\ Fenced /\ PatchAccounted
  BY DEF Invariants
<1>2. CASE UNCHANGED vars
  BY <1>2 DEF vars, store
<1>3. ASSUME NEW w \in Workers, NEW x \in Runs, ClaimNext(w, x) PROVE Goal
  BY <1>1, <1>3 DEF ClaimNext, RunTerminal, TypeOK
<1>4. ASSUME NEW w \in Workers, NEW x \in Runs, Advance(w, x) \/ Record(w, x) PROVE Goal
  <2>1. status[x] = "running"
    BY <1>4 DEF Advance, AdvanceOverBudget, AdvanceBroken, AdvanceLoadSkill, AdvanceFinish,
       AdvanceAskApproval, AdvanceCached, AdvanceUnknown, AdvancePrepare, Stepping, Record,
       CompletePrepared, OutputOverrun, FailPrepared, Owns
  <2>2. r # x => /\ reason'[r] = reason[r] /\ turns'[r] = turns[r]
                 /\ SameRow(r)
    <3>1. r # x => SameRow(r)
      BY <1>1, <1>4, OtherRows
    <3>2. r # x => reason'[r] = reason[r] /\ turns'[r] = turns[r]
      BY <1>1, <1>4 DEF Advance, AdvanceOverBudget, AdvanceBroken, AdvanceLoadSkill,
         AdvanceFinish, AdvanceAskApproval, AdvanceCached, AdvanceUnknown, AdvancePrepare,
         Record, CompletePrepared, OutputOverrun, FailPrepared, Close, MoveTo, UseTurn, store,
         TypeOK
    <3>3. QED
      BY <3>1, <3>2
  <2>3. \/ phase' = phase
        \/ /\ phase' = [phase EXCEPT ![x] = NextPhase(phase[x])]
           /\ phase[x] # "verified"
    <3>1. CASE Advance(w, x)
      BY <3>1, Table DEF Advance, AdvanceOverBudget, AdvanceBroken, AdvanceLoadSkill,
         AdvanceFinish, AdvanceAskApproval, AdvanceCached, AdvanceUnknown, AdvancePrepare,
         PhaseWritten, CallsTool, ToolPhase
    <3>2. CASE CompletePrepared(w, x)
      <4>1. InTool(w, x) /\ Owns(w, x)
        BY <3>2 DEF CompletePrepared, Owns, InTool
      <4>2. phase[x] = prepared[w] /\ prepared[w] \in ToolPhase
        BY <1>1, <4>1 DEF Fenced, Held, PatchAccounted, InTool
      <4>3. QED
        BY <3>2, <4>2 DEF CompletePrepared, ToolPhase
    <3>3. CASE OutputOverrun(w, x) \/ FailPrepared(w, x)
      BY <3>3 DEF OutputOverrun, FailPrepared, store
    <3>4. QED
      BY <1>4, <3>1, <3>2, <3>3 DEF Record
  <2>4. Rank(phase'[r]) \in {Rank(phase[r]), Rank(phase[r]) + 1}
    BY <1>1, <2>3, PhaseFacts DEF TypeOK
  <2>5. QED
    BY <2>1, <2>2, <2>4 DEF RunTerminal, SameRow
<1>5. ASSUME NEW w \in Workers,
             \/ AdvanceRefused(w) \/ RunTool(w) \/ ResultRefused(w) \/ Crash(w) \/ Restart(w)
      PROVE Goal
  BY <1>5 DEF AdvanceRefused, RunTool, ResultRefused, Crash, Restart, store
<1>6. ASSUME NEW x \in Runs,
             \/ CreateRun(x) \/ LeaseExpires(x) \/ CancelRun(x) \/ Approve(x) \/ Reject(x)
      PROVE Goal
  BY <1>1, <1>6 DEF CreateRun, LeaseExpires, CancelRun, Approve, Reject, Close, MoveTo,
                    SetPlan, RunTerminal, TypeOK
<1>7. QED
  BY <1>2, <1>3, <1>4, <1>5, <1>6 DEF Next

\* Late workers, approvals and cancellations never write a finished run's row and
\* never take a run back to an earlier phase, or past one.
THEOREM NeverGoesBack ==
  ASSUME Unshared
  PROVE  Spec => NothingGoesBack
<1> DEFINE Step == \A r \in Runs :
       /\ Rank(phase'[r]) \in {Rank(phase[r]), Rank(phase[r]) + 1}
       /\ status[r] \in RunTerminal =>
            UNCHANGED <<status[r], reason[r], owner[r], phase[r], plan[r], inv[r],
                        approval[r], turns[r]>>
<1>1. Invariants /\ [Next]_vars => Step
  BY NothingGoesBackStep
<1>2. Invariants /\ [Next]_vars => [Step]_vars
  BY <1>1
<1>3. QED
  BY <1>2, InvariantsHold, PTL DEF Spec, NothingGoesBack

-----------------------------------------------------------------------------
(* Unknown outcomes. *)

\* mark_unknown_outcome leaves the task in that status.
LEMMA MarkedUnknown ==
  ASSUME NEW p \in Plan!PlanType
  PROVE  Plan!MarkUnknown(p, "approval").task["approval"] = "unknown_outcome"
<1> DEFINE st == [p.task EXCEPT !["approval"] = "unknown_outcome"]
           sk == Plan!SkipBlocked(st)
           so == Plan!StopAfterUnknown(sk)
<1>1. "approval" \in TriageTask
  BY DEF TriageTask
<1>2. st["approval"] = "unknown_outcome"
  BY <1>1 DEF Plan!PlanType
<1>3. Plan!MarkUnknown(p, "approval").task = so
  BY DEF Plan!MarkUnknown, Plan!WithTasks, Plan!PlanType
<1> HIDE DEF st
<1>4. sk["approval"] = "unknown_outcome"
  BY <1>1, <1>2 DEF Plan!SkipBlocked
<1> HIDE DEF sk
<1>5. so["approval"] = "unknown_outcome"
  BY <1>1, <1>4 DEF Plan!StopAfterUnknown, Plan!TaskTerminal
<1>6. QED
  BY <1>3, <1>5

\* UnknownIsReported for one row.
Told(r) ==
  /\ inv[r]["patch_created"] = "unknown_outcome" <=> reason[r] = "unknown_external_outcome"
  /\ reason[r] = "unknown_external_outcome"
       => plan[r].task["approval"] = "unknown_outcome" /\ status[r] = "failed"

\* A transaction on a row that is not closed can only begin the story by telling
\* all of it, in AdvanceUnknown.
LEMMA ToldStep ==
  ASSUME Invariants, [Next]_vars, NEW r \in Runs, Told(r)
  PROVE  Told(r)'
<1>1. TypeOK /\ Fenced
  BY DEF Invariants
<1>2. CASE UNCHANGED vars
  BY <1>2 DEF vars, store, Told
<1>3. ASSUME NEW w \in Workers, NEW x \in Runs, ClaimNext(w, x) PROVE Told(r)'
  BY <1>1, <1>3 DEF ClaimNext, Told, TypeOK
<1>4. ASSUME NEW w \in Workers, NEW x \in Runs, Advance(w, x) \/ Record(w, x)
      PROVE  Told(r)'
  <2>1. status[x] = "running" /\ plan[x] \in Plan!PlanType
    BY <1>1, <1>4 DEF Advance, AdvanceOverBudget, AdvanceBroken, AdvanceLoadSkill,
       AdvanceFinish, AdvanceAskApproval, AdvanceCached, AdvanceUnknown, AdvancePrepare,
       Stepping, Record, CompletePrepared, OutputOverrun, FailPrepared, Owns, TypeOK
  <2>2. CASE r # x
    <3>1. SameRow(r)
      BY <1>1, <1>4, <2>2, OtherRows
    <3>2. reason'[r] = reason[r]
      BY <1>1, <1>4, <2>2 DEF Advance, AdvanceOverBudget, AdvanceBroken, AdvanceLoadSkill,
         AdvanceFinish, AdvanceAskApproval, AdvanceCached, AdvanceUnknown, AdvancePrepare,
         Record, CompletePrepared, OutputOverrun, FailPrepared, Close, MoveTo, store, TypeOK
    <3>3. QED
      BY <3>1, <3>2 DEF Told, SameRow
  <2>3. CASE r = x /\ AdvanceUnknown(w, x)
    <3>1. StartedPlan(r) \in Plan!PlanType
      BY <1>1, StartedPlanType
    <3>2. /\ inv'[r]["patch_created"] = "unknown_outcome"
          /\ reason'[r] = "unknown_external_outcome" /\ status'[r] = "failed"
          /\ plan'[r] = Plan!MarkUnknown(StartedPlan(r), "approval")
      BY <1>1, <2>3 DEF AdvanceUnknown, Close, SetPlan, TypeOK, ToolPhase
    <3>3. QED
      BY <3>1, <3>2, MarkedUnknown DEF Told
  <2>4. CASE r = x /\ ~AdvanceUnknown(w, x)
    <3>1. /\ reason[r] # "unknown_external_outcome"
          /\ inv[r]["patch_created"] # "unknown_outcome"
      BY <2>1, <2>4 DEF Told
    <3>2. reason'[r] # "unknown_external_outcome"
      BY <1>1, <1>4, <2>4, <3>1 DEF Advance, AdvanceOverBudget, AdvanceBroken,
         AdvanceLoadSkill, AdvanceFinish, AdvanceAskApproval, AdvanceCached, AdvancePrepare,
         Record, CompletePrepared, OutputOverrun, FailPrepared, Close, MoveTo, store, TypeOK
    <3>3. inv'[r]["patch_created"] # "unknown_outcome"
      <4>1. CASE inv' \in {inv, Begun(r)}
        BY <1>1, <3>1, <4>1, BegunMove DEF PatchInv
      <4>2. CASE \E ph, s : inv' = [inv EXCEPT ![r][ph] = s] /\ s # "unknown_outcome"
        BY <1>1, <3>1, <4>2 DEF TypeOK, ToolPhase
      <4>3. CASE Advance(w, x)
        <5>1. CASE AdvancePrepare(w, x)
          <6>1. inv' = [inv EXCEPT ![r][phase[r]] = "running"]
            BY <2>4, <5>1 DEF AdvancePrepare
          <6>2. QED
            BY <1>1, <3>1, <6>1 DEF TypeOK, ToolPhase
        <5>2. CASE ~AdvancePrepare(w, x)
          <6>1. inv' \in {inv, Begun(r)}
            BY <2>4, <4>3, <5>2 DEF Advance, AdvanceOverBudget, AdvanceBroken,
               AdvanceLoadSkill, AdvanceFinish, AdvanceAskApproval, AdvanceCached
          <6>2. QED
            BY <4>1, <6>1
        <5>3. QED
          BY <5>1, <5>2
      <4>4. CASE Record(w, x)
        BY <2>4, <4>1, <4>2, <4>4 DEF Record, CompletePrepared, OutputOverrun, FailPrepared,
           store
      <4>5. QED
        BY <1>4, <4>3, <4>4
    <3>4. QED
      BY <3>2, <3>3 DEF Told
  <2>5. QED
    BY <2>2, <2>3, <2>4
<1>5. ASSUME NEW w \in Workers,
             \/ AdvanceRefused(w) \/ RunTool(w) \/ ResultRefused(w) \/ Crash(w) \/ Restart(w)
      PROVE Told(r)'
  BY <1>5 DEF AdvanceRefused, RunTool, ResultRefused, Crash, Restart, store, Told
<1>6. ASSUME NEW x \in Runs,
             \/ CreateRun(x) \/ LeaseExpires(x) \/ CancelRun(x) \/ Approve(x) \/ Reject(x)
      PROVE Told(r)'
  BY <1>1, <1>6 DEF CreateRun, LeaseExpires, CancelRun, Approve, Reject, Close, MoveTo,
                    SetPlan, Told, TypeOK
<1>7. QED
  BY <1>2, <1>3, <1>4, <1>5, <1>6 DEF Next

\* A side effect whose outcome nobody knows is reported as such in the journal, in
\* the plan and as the reason the run failed, or in none of them.
THEOREM UnknownAlwaysReported ==
  ASSUME Unshared
  PROVE  Spec => []UnknownIsReported
<1>1. Init => UnknownIsReported
  BY DEF Init, UnknownIsReported, ToolPhase
<1>2. Invariants /\ UnknownIsReported /\ [Next]_vars => UnknownIsReported'
  BY ToldStep DEF UnknownIsReported, Told
<1>3. QED
  BY <1>1, <1>2, InvariantsHold, PTL DEF Spec
=============================================================================
