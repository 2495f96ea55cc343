----------------------------- MODULE RunContract -----------------------------
(***************************************************************************)
(* What EquiSeek promises the client of an API run, with no worker, lease, *)
(* phase, plan or invocation in sight: the public status machine, and how  *)
(* the one high-risk tool (apply_patch) relates to the human decision.     *)
(*                                                                         *)
(*   - the status only moves along ALLOWED_TRANSITIONS; a terminal status  *)
(*     is final;                                                           *)
(*   - the patch is applied at most once, and only after an approval;      *)
(*   - a run is reported succeeded only if its patch was applied;          *)
(*   - a decision is taken only while the run waits for it, and once.      *)
(***************************************************************************)
CONSTANT Runs

VARIABLES
  status,    \* the run's public status, "absent" before POST /api/runs
  decision,  \* "none", "pending", "approved" or "rejected"
  effects    \* how many times the patch was written to the workspace

vars == <<status, decision, effects>>

Init == /\ status = [r \in Runs |-> "absent"]
        /\ decision = [r \in Runs |-> "none"]
        /\ effects = [r \in Runs |-> 0]

Move(r, from, to) == status[r] \in from /\ status' = [status EXCEPT ![r] = to]

Create(r) == Move(r, {"absent"}, "queued") /\ UNCHANGED <<decision, effects>>

\* A worker takes the run, and gives it back after one step.
Take(r) == Move(r, {"queued", "running"}, "running") /\ UNCHANGED <<decision, effects>>

Return(r) == Move(r, {"running"}, "queued") /\ UNCHANGED <<decision, effects>>

Ask(r) == /\ Move(r, {"running"}, "waiting_approval")
          /\ decision[r] = "none"
          /\ decision' = [decision EXCEPT ![r] = "pending"]
          /\ UNCHANGED effects

Approve(r) == /\ Move(r, {"waiting_approval"}, "queued")
              /\ decision[r] = "pending"
              /\ decision' = [decision EXCEPT ![r] = "approved"]
              /\ UNCHANGED effects

Reject(r) == /\ Move(r, {"waiting_approval"}, "cancelled")
             /\ decision[r] = "pending"
             /\ decision' = [decision EXCEPT ![r] = "rejected"]
             /\ UNCHANGED effects

\* The write itself happens outside every transaction: the run may have been
\* cancelled or failed in the meantime, but it was approved.
Apply(r) == /\ decision[r] = "approved"
            /\ effects[r] = 0
            /\ effects' = [effects EXCEPT ![r] = 1]
            /\ UNCHANGED <<status, decision>>

Succeed(r) == /\ Move(r, {"running"}, "succeeded")
              /\ effects[r] = 1
              /\ UNCHANGED <<decision, effects>>

Fail(r) == Move(r, {"running"}, "failed") /\ UNCHANGED <<decision, effects>>

Cancel(r) == /\ Move(r, {"queued", "running", "waiting_approval"}, "cancelled")
             /\ UNCHANGED <<decision, effects>>

Next == \E r \in Runs :
          \/ Create(r) \/ Take(r) \/ Return(r) \/ Ask(r) \/ Approve(r)
          \/ Reject(r) \/ Apply(r) \/ Succeed(r) \/ Fail(r) \/ Cancel(r)

Spec == Init /\ [][Next]_vars
=============================================================================
