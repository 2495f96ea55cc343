--------------------------- MODULE InvestmentRun ---------------------------
(***************************************************************************)
(* One run of the investment agent (agents/investment_runtime.py): the     *)
(* bounded loop that asks a model or the deterministic planner for an      *)
(* action, passes it through the loop harness and the tool pipeline, and   *)
(* closes the run's event stream in a finally clause.                      *)
(*                                                                         *)
(* The run is one coroutine; what interleaves with it is its cancellation  *)
(* and the failure of a write, both of which can meet it at every await.   *)
(* log is the store's copy of the stream in memory, which its lifecycle    *)
(* check reads.  The texts (goal, answer, report, trace) are left out.     *)
(***************************************************************************)
EXTENDS SessionLog, LoopHarness, FiniteSets

CONSTANTS
    Write,      \* the tool with an effect ("portfolio.upsert")
    Evidence,   \* tools the bootstrap plan may name for its first item
    Arguments,  \* what a tool is called with
    Plans,      \* plans a model may send
    Wanted,     \* tools the planner may want, in order: one sequence per request
    Foreign,    \* a tool name no registry has
    MaxSteps,   \* max_steps
    MaxFaults   \* bound: failed writes

ASSUME RunAssumption ==
    /\ Write \in Catalog /\ Foreign \notin Catalog \cup {NoTool}
    /\ Evidence \subseteq Catalog \cup {NoTool}
    /\ Wanted \subseteq Seq(Catalog)
    /\ Plans \subseteq Seq([tool : STRING, status : STRING])
    /\ MaxSteps \in Nat \ {0} /\ MaxFaults \in Nat

VARIABLES
    request,    \* intent, whether a model is configured, what the planner wants
    pc, after,  \* the phase, and the one that follows when todo is empty
    todo,       \* events still to append in this phase
    log,        \* the event stream
    harness,    \* the loop harness
    step,       \* step_index
    action,     \* the action of this step, and how its tool ended
    called,     \* tools named by the observations
    ends,       \* what the finally clause was entered with
    saved,      \* "status" of investment-run.json
    out,        \* how run() ended
    writes,     \* ghost: effects of Write
    cancels, faults

vars == <<request, pc, after, todo, log, harness, step, action, called, ends, saved, out,
          writes, cancels, faults>>
still == <<request, writes, cancels, faults>>

---------------------------------------------------------------------------
Turn == <<"turn", 1>>
Step(k) == <<"step", k>>
NoRef == <<"none", 0>>
Note(type) == Event(type, NoRef, NoRef, 0)
Model(type, num) == Event(type, <<"model", step>>, NoRef, num)
Tool(type, tool) == Event(type, <<"call", step>>, <<tool, step>>, 0)
StepEnded == Event("step/ended", Step(step), Turn, 0)

Opening == <<Note("session/header"), Event("turn/started", Turn, NoRef, 0), Note("user/message")>>
Cataloguing == <<Note("plan/created"), Note("tools/cataloged")>>
Closing == <<Note("assistant/message"), Event("turn/ended", Turn, NoRef, 0),
             Event("session/ended", NoRef, NoRef, 0)>>

NoAction == [kind |-> "none", tool |-> NoTool, argument |-> "none", mode |-> "none"]
ToolAction(tool, argument, mode) ==
    [kind |-> "tool", tool |-> tool, argument |-> argument, mode |-> mode]

\* append the events in this phase, then go on with the next one
Emit(phase, events, next) == pc' = phase /\ todo' = events /\ after' = next

\* the finally clause, entered with the result ("none"), an error or a cancellation
Close(kind) ==
    /\ Emit("closing", Closing, "leaving")
    /\ ends' = kind
    /\ saved' = IF kind = "error" THEN "failed" ELSE saved

Leave(how) == out' = how /\ Emit("gone", <<>>, "gone")

\* the end of a step that called a tool: what the harness learned, then the events
Observed(ok) ==
    LET noted == AfterTool(harness, action.tool, ok)
        notes == (IF Reminds(noted) THEN <<Note("loop/reminder")>> ELSE <<>>)
                 \o (IF noted.promoted # noted.told THEN <<Note("tools/promoted")>> ELSE <<>>)
                 \o <<Note("plan/revised"), StepEnded>>
    IN  /\ harness' = [noted EXCEPT !.told = noted.promoted]
        /\ called' = called \cup {action.tool}
        /\ Emit("noting", notes, "looping")

\* Mutation of ToolFailed: a tool that raised leaves no observation.
ToolFailedUnseen ==
    /\ harness' = AfterTool(harness, action.tool, FALSE)
    /\ Emit("noting", <<Note("plan/revised"), StepEnded>>, "looping")
    /\ UNCHANGED called

ToolFailed == Observed(FALSE)

\* An exception, by the phase it is raised in: before the try it leaves run;
\* while a model is asked the step is ended first; inside the pipeline it is the
\* tool's failure; anywhere else in the loop the run fails.
Raise ==
    CASE pc \in {"opening", "closing"} -> Leave("raised") /\ UNCHANGED <<harness, called, ends, saved>>
      [] pc = "asking"  -> /\ Emit("failing", <<StepEnded>>, "failed")
                           /\ UNCHANGED <<harness, called, ends, saved, out>>
      [] pc = "calling" -> ToolFailed /\ UNCHANGED <<ends, saved, out>>
      [] OTHER          -> Close("error") /\ UNCHANGED <<harness, called, out>>

---------------------------------------------------------------------------
(* Appending.                                                               *)

AppendEvent ==
    /\ todo # <<>> /\ Accepts(log, Head(todo))
    /\ log' = Append(log, Head(todo)) /\ todo' = Tail(todo)
    /\ pc' = IF Tail(todo) = <<>> THEN after ELSE pc
    /\ UNCHANGED <<after, harness, step, action, called, ends, saved, out, still>>

\* the lifecycle check refuses the event
AppendRefused ==
    /\ todo # <<>> /\ ~Accepts(log, Head(todo))
    /\ Raise
    /\ UNCHANGED <<log, step, action, still>>

AppendFails ==
    /\ todo # <<>> /\ Accepts(log, Head(todo))
    /\ faults < MaxFaults /\ faults' = faults + 1
    /\ Raise
    /\ UNCHANGED <<log, step, action, request, writes, cancels>>

\* the run's task is cancelled, once, at an await: in an append, at the model
\* or in a tool.  A tool's end is still recorded; the rest goes to the finally.
Cancel ==
    /\ cancels = 0 /\ cancels' = 1
    /\ \/ /\ (todo # <<>> /\ pc \in {"opening", "closing"}) \/ pc = "preparing"
          /\ Leave("cancelled") /\ UNCHANGED <<ends, saved>>
       \/ /\ (todo # <<>> /\ pc \notin {"opening", "closing"}) \/ pc = "waiting"
          /\ Close("cancel") /\ UNCHANGED out
       \/ /\ pc = "invoking"
          /\ Emit("calling", <<Tool("tool/result", action.tool)>>, "interrupted")
          /\ UNCHANGED <<ends, saved, out>>
    /\ UNCHANGED <<log, harness, step, action, called, request, writes, faults>>

Interrupted ==
    /\ pc = "interrupted" /\ Close("cancel")
    /\ UNCHANGED <<log, harness, step, action, called, out, still>>

---------------------------------------------------------------------------
(* Before the loop.                                                         *)

\* the working directory is resolved, the tools and the harness are built
Prepare ==
    /\ pc = "preparing"
    /\ \E evidence \in Evidence : harness' = NewHarness(evidence)
    /\ Emit("opening", Cataloguing, "looping")
    /\ UNCHANGED <<log, step, action, called, ends, saved, out, still>>

\* it is no directory any more
PrepareFails ==
    /\ pc = "preparing" /\ Leave("raised")
    /\ UNCHANGED <<log, harness, step, action, called, ends, saved, still>>

---------------------------------------------------------------------------
(* One step of the loop.                                                    *)

StartStep ==
    /\ pc = "looping" /\ step < MaxSteps
    /\ step' = step + 1 /\ action' = NoAction
    /\ Emit("stepping", <<Event("step/started", Step(step'), Turn, 0)>>, "choosing")
    /\ UNCHANGED <<log, harness, called, ends, saved, out, still>>

Choose(chosen) == action' = chosen /\ Emit("acting", <<>>, "acting")

\* _deterministic_action: the first tool it wants and has not seen, or the answer.
\* A portfolio change that lacks its fields is asked back.
PlannedAction ==
    LET next == SelectInSeq(request.wanted, LAMBDA tool: tool \notin called)
    IN  IF request.intent = "portfolio" /\ ~request.complete
        THEN [NoAction EXCEPT !.kind = "clarify", !.mode = "local"]
        ELSE IF next = 0 THEN [NoAction EXCEPT !.kind = "final", !.mode = "local"]
        ELSE ToolAction(request.wanted[next], "planned", "local")

\* portfolio changes never go to the model; nor does anything without one, or a
\* model that was out of service
ChooseLocally ==
    /\ \/ pc = "choosing" /\ (~request.model \/ request.intent = "portfolio")
       \/ pc = "fallback"
    /\ Choose(PlannedAction)
    /\ UNCHANGED <<log, harness, step, called, ends, saved, out, still>>

AskModel ==
    /\ pc = "choosing" /\ request.model /\ request.intent # "portfolio"
    /\ Emit("asking", <<Model("request/header", 0), Model("model/request", Len(log) + 1)>>, "waiting")
    /\ UNCHANGED <<log, harness, step, action, called, ends, saved, out, still>>

\* what a model may answer: any tool with any arguments, known or not
ModelActions ==
    {[NoAction EXCEPT !.kind = kind, !.mode = "model"] : kind \in {"final", "clarify"}}
    \cup {ToolAction(tool, argument, "model") :
            tool \in Catalog \cup {Foreign, NoTool}, argument \in Arguments}

ModelAnswers ==
    /\ pc = "waiting"
    /\ \E answer \in ModelActions : action' = answer
    /\ Emit("asking", <<Model("model/response", 0)>>, "acting")
    /\ UNCHANGED <<log, harness, step, called, ends, saved, out, still>>

\* ModelServiceError falls back to the planner, any other error ends the run
ModelFails ==
    /\ pc = "waiting"
    /\ \E next \in {"fallback", "unanswered"} : Emit("asking", <<Model("model/failure", 0)>>, next)
    /\ UNCHANGED <<log, harness, step, action, called, ends, saved, out, still>>

Unanswered ==
    /\ pc = "unanswered" /\ Emit("failing", <<StepEnded>>, "failed")
    /\ UNCHANGED <<log, harness, step, action, called, ends, saved, out, still>>

\* the except clause of run
Failed ==
    /\ pc = "failed" /\ Close("error")
    /\ UNCHANGED <<log, harness, step, action, called, out, still>>

Conclude ==
    /\ pc = "acting" /\ action.kind \in {"final", "clarify"}
    /\ Emit("noting", <<StepEnded>>, "finishing")
    /\ UNCHANGED <<log, harness, step, action, called, ends, saved, out, still>>

\* Mutation of NameNoTool: the error is raised with the step left open.
NameNoToolOpen ==
    /\ pc = "acting" /\ action.kind = "tool" /\ action.tool = NoTool
    /\ Emit("failed", <<>>, "failed")
    /\ UNCHANGED <<log, harness, step, action, called, ends, saved, out, still>>

NameNoTool ==
    /\ pc = "acting" /\ action.kind = "tool" /\ action.tool = NoTool
    /\ Emit("failing", <<StepEnded>>, "failed")
    /\ UNCHANGED <<log, harness, step, action, called, ends, saved, out, still>>

\* a local action is promoted first, and so never refused
Promoted == IF action.mode = "local" THEN Promote(harness, {action.tool}) ELSE harness

Guarded ==
    /\ pc = "acting" /\ action.kind = "tool" /\ action.tool # NoTool
    /\ ~Allows(Promoted, action.tool)
    /\ called' = called \cup {action.tool}
    /\ Emit("noting", <<Note("loop/guarded"), Note("plan/revised"), StepEnded>>, "looping")
    /\ UNCHANGED <<log, harness, step, action, ends, saved, out, still>>

\* the policy allows it: decision and call are on record before the tool runs
CallTool ==
    /\ pc = "acting" /\ action.kind = "tool" /\ Allows(Promoted, action.tool)
    /\ harness' = BeforeTool(Promoted, action.tool, action.argument)
    /\ Emit("calling", <<Note("policy/decision"), Tool("tool/call", action.tool)>>, "invoking")
    /\ UNCHANGED <<log, step, action, called, ends, saved, out, still>>

\* the arguments do not match the schema: no event at all
CallInvalid ==
    /\ pc = "acting" /\ action.kind = "tool" /\ Allows(Promoted, action.tool)
    /\ harness' = BeforeTool(Promoted, action.tool, action.argument)
    /\ Emit("refused", <<>>, "refused")
    /\ UNCHANGED <<log, step, action, called, ends, saved, out, still>>

Refused ==
    /\ pc = "refused" /\ ToolFailed
    /\ UNCHANGED <<log, step, action, ends, saved, out, still>>

\* the tool does what it does, then returns
ToolReturns ==
    /\ pc = "invoking"
    /\ writes' = IF action.tool = Write THEN writes + 1 ELSE writes
    /\ IF action.tool = Search
       THEN \E found \in Discoveries(harness) : harness' = Promote(harness, found)
       ELSE IF action.tool = Update
       THEN \E items \in Plans : PlanAccepted(items) /\ harness' = ReplacePlan(harness, items)
       ELSE UNCHANGED harness
    /\ Emit("calling", <<Tool("tool/result", action.tool)>>, "observing")
    /\ UNCHANGED <<log, step, action, called, ends, saved, out, request, cancels, faults>>

\* it raises or runs into its timeout, before or after its effect; a plan that
\* replace_plan refuses is such an error
ToolRaises ==
    /\ pc = "invoking"
    /\ \E effect \in (IF action.tool = Write THEN {0, 1} ELSE {0}) : writes' = writes + effect
    /\ Emit("calling", <<Tool("tool/result", action.tool)>>, "refused")
    /\ UNCHANGED <<log, harness, step, action, called, ends, saved, out, request, cancels, faults>>

Observe ==
    /\ pc = "observing" /\ Observed(TRUE)
    /\ UNCHANGED <<log, step, action, ends, saved, out, still>>

---------------------------------------------------------------------------
(* After the loop.                                                          *)

\* Mutation of Finish: nothing answers when the steps are used up.
FinishAnswered ==
    /\ pc = "finishing"
    /\ \/ /\ Emit("closing", Closing, "leaving") /\ ends' = "none"
          /\ saved' = IF action.kind = "clarify" THEN "needs_input" ELSE "succeeded"
       \/ Close("error")
    /\ UNCHANGED <<log, harness, step, action, called, out, still>>

\* the answer is there or is put together from the observations, and the
\* artifacts are written; that may fail
Finish ==
    /\ pc = "finishing" \/ (pc = "looping" /\ step = MaxSteps)
    /\ \/ /\ Emit("closing", Closing, "leaving") /\ ends' = "none"
          /\ saved' = IF action.kind = "clarify" THEN "needs_input" ELSE "succeeded"
       \/ Close("error")
    /\ UNCHANGED <<log, harness, step, action, called, out, still>>

Return ==
    /\ pc = "leaving"
    /\ Leave(IF ends = "cancel" THEN "cancelled" ELSE "returned")
    /\ UNCHANGED <<log, harness, step, action, called, ends, saved, still>>

---------------------------------------------------------------------------
Requests ==
    [intent : {"portfolio"}, model : BOOLEAN, wanted : {<<Write>>}, complete : BOOLEAN]
    \cup [intent : {"research"}, model : BOOLEAN, wanted : Wanted, complete : {TRUE}]

Init ==
    /\ request \in Requests
    /\ pc = "opening" /\ after = "preparing" /\ todo = Opening
    /\ log = <<>> /\ harness = NewHarness(NoTool)
    /\ step = 0 /\ action = NoAction /\ called = {}
    /\ ends = "none" /\ saved = "running" /\ out = "running"
    /\ writes = 0 /\ cancels = 0 /\ faults = 0

Loop ==
    \/ StartStep \/ ChooseLocally \/ AskModel \/ ModelAnswers \/ ModelFails \/ Unanswered \/ Failed
    \/ Conclude \/ NameNoTool \/ Guarded \/ CallTool \/ CallInvalid \/ Refused
    \/ ToolReturns \/ ToolRaises \/ Observe

Next ==
    \/ AppendEvent \/ AppendRefused \/ AppendFails \/ Cancel \/ Interrupted
    \/ Prepare \/ PrepareFails \/ Loop \/ Finish \/ Return

\* the run's coroutine goes on: a model call and a tool end, at the latest by
\* their timeouts
Fairness ==
    WF_vars(AppendEvent \/ AppendRefused \/ Interrupted \/ Prepare \/ Loop \/ Finish \/ Return)

Spec == Init /\ [][Next]_vars /\ Fairness

---------------------------------------------------------------------------
\* Whatever a model answers and however its tools and requests end, an
\* undisturbed run returns: the lifecycle check refuses none of its events, and
\* the stream it leaves is closed.  Only a lost write, a cancellation or a
\* missing working directory makes run raise.
UndisturbedRunReturns ==
    /\ out = "raised" /\ faults + cancels = 0 => ~Has(log, "plan/created", NoRef)
    /\ out = "returned" =>
         /\ Last(log).type = "session/ended"
         /\ saved = IF ends = "error" THEN "failed"
                    ELSE IF action.kind = "clarify" THEN "needs_input" ELSE "succeeded"

\* A portfolio instruction is carried out at most once, although the planner
\* decides anew at every step and a write that was made may be reported as an
\* error (a result that could not be recorded, a tool that raised late).
WriteOnce == request.intent = "portfolio" => writes <= 1

\* The plan shown has one item in progress at most, and once the model has sent a
\* plan of its own only another plan.update changes it.
PlanIsOrderly ==
    [][/\ Cardinality(Active(harness'.plan)) <= 1
       /\ harness.owner = "model" /\ pc # "preparing" =>
            harness'.plan = harness.plan \/ action.tool = Update]_vars

\* Every run comes to its end: steps are bounded, and each one ends.
RunEnds == <>(out # "running")

=============================================================================
