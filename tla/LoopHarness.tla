---------------------------- MODULE LoopHarness ----------------------------
(***************************************************************************)
(* The control state around the investment agent's model/tool loop         *)
(* (harness/loop_control.py): the plan it shows, the tools it has promoted *)
(* and the repeated calls it counts, as operators on a harness record      *)
(*   [plan, owner, promoted, told, last, repeats].                         *)
(* A plan is a sequence of [tool, status]; told are the tools the last     *)
(* tools/promoted event had announced.  Titles, details, the catalog hash  *)
(* and the projection of observations to a text budget are left out.       *)
(***************************************************************************)
EXTENDS Integers, SequencesExt

CONSTANTS
    Catalog,     \* names of the tools the policy allows
    Initial,     \* those promoted from the start
    Search,      \* "tools.search"
    Update,      \* "plan.update"
    NoTool,      \* "" as a plan item's tool, or a tool action without a name
    Thresholds   \* repeat_reminder_thresholds

ASSUME HarnessAssumption ==
    /\ Initial \subseteq Catalog /\ {Search, Update} \subseteq Initial
    /\ NoTool \notin Catalog
    /\ Thresholds \subseteq Nat \ {0, 1}

ItemStatus == {"pending", "in_progress", "completed", "blocked", "skipped"}
Item(tool, status) == [tool |-> tool, status |-> status]
Active(plan) == {i \in DOMAIN plan : plan[i].status = "in_progress"}

NoCall == <<>>
NewHarness(evidence) ==
    [plan |-> <<Item(evidence, "in_progress"), Item(NoTool, "pending")>>, owner |-> "runtime",
     promoted |-> Initial, told |-> Initial, last |-> NoCall, repeats |-> 0]

Promote(harness, tools) == [harness EXCEPT !.promoted = @ \cup (tools \cap Catalog)]

\* discover: at most limit of the deferred tools, those that match
Discoveries(harness) == SUBSET (Catalog \ harness.promoted)

\* replace_plan: the model's plan is taken whole or not at all
PlanAccepted(items) ==
    /\ Len(items) \in 1..8
    /\ \A i \in DOMAIN items : items[i].status \in ItemStatus
    /\ Cardinality(Active(items)) <= 1
ReplacePlan(harness, items) == [harness EXCEPT !.plan = items, !.owner = "model"]

\* _start_matching_plan_item: its item takes over from the one in progress
StartMatching(plan, tool) ==
    LET k == SelectInSeq(plan, LAMBDA item: item.tool = tool /\ item.status = "pending")
    IN  IF k = 0 THEN plan
        ELSE [i \in DOMAIN plan |->
                IF i = k THEN [plan[i] EXCEPT !.status = "in_progress"]
                ELSE IF i \in Active(plan) THEN [plan[i] EXCEPT !.status = "pending"]
                ELSE plan[i]]

StartNext(plan) ==
    LET k == SelectInSeq(plan, LAMBDA item: item.status = "pending")
    IN  IF Active(plan) # {} \/ k = 0 THEN plan ELSE [plan EXCEPT ![k].status = "in_progress"]

\* before_tool: what is not in the catalog or not promoted is refused; a call is
\* counted as a repeat when it is the same as the one before
Allows(harness, tool) == tool \in Catalog /\ tool \in harness.promoted

BeforeTool(harness, tool, argument) ==
    LET call == <<tool, argument>>
    IN  [harness EXCEPT
           !.repeats = IF harness.last = call THEN @ + 1 ELSE 1,
           !.last = call,
           !.plan = IF harness.owner = "runtime" THEN StartMatching(@, tool) ELSE @]

Reminds(harness) == harness.repeats \in Thresholds

\* Mutation of Untouched: the plan a model sent is kept by the runtime too.
UntouchedBookkeeping(harness, tool) == tool \in {Search, Update}

\* the tools that look after the plan, and a plan the model owns, are left alone
Untouched(harness, tool) == tool \in {Search, Update} \/ harness.owner = "model"

\* after_tool: the item of the tool, or else a toolless one, is done or blocked;
\* a success starts the next.  A plan the model owns is left alone.
AfterTool(harness, tool, ok) ==
    IF Untouched(harness, tool) THEN harness
    ELSE LET plan == harness.plan
             own  == SelectInSeq(plan, LAMBDA item: item.tool = tool /\ item.status = "in_progress")
             any  == SelectInSeq(plan, LAMBDA item: item.tool = NoTool /\ item.status = "in_progress")
             k    == IF own # 0 THEN own ELSE any
             done == IF k = 0 THEN plan
                     ELSE [plan EXCEPT ![k].status = IF ok THEN "completed" ELSE "blocked"]
         IN  [harness EXCEPT !.plan = IF ok THEN StartNext(done) ELSE done]

=============================================================================
