-------------------------- MODULE ResearchPipeline --------------------------
(***************************************************************************)
(* The two fixed research plans: one security (research/pipeline.py) and   *)
(* the macro economy (macro/pipeline.py).  Agents run the tasks of a plan  *)
(* and share one state object whose fields start as None; a task checks    *)
(* that the fields it reads are there, fills its own, writes an event and  *)
(* is done.  The runtime starts the tasks that are ready together and      *)
(* waits for all of them (orchestration/executor.py, modelled in detail by *)
(* SubtaskExecutor); every task has one attempt and a time limit.          *)
(*                                                                         *)
(* A field is either there or not; of the three texts the model also       *)
(* remembers whether the output guard would refuse them.                   *)
(***************************************************************************)
EXTENDS Naturals, FiniteSets

VARIABLES
    request,    \* what the caller asked for
    status,     \* the plan: each task's status
    pc,         \* where each started task's coroutine is
    held,       \* the fields of the shared state that are not None
    unsafe,     \* the texts among them that the guard refuses
    checked,    \* the texts the guard let pass
    failure,    \* state.failure
    outcome,    \* what the caller got
    disturbed   \* history: the world failed a task (vendor, event log, time)

pipelineVars == <<request, status, pc, held, unsafe, checked, failure, outcome, disturbed>>

Stock == [kind : {"stock"}, model : BOOLEAN, position : BOOLEAN, macro : BOOLEAN]
Macro == [kind : {"macro"}, model : {FALSE}, position : {FALSE}, macro : {FALSE}]

NoFailure == "none"

---------------------------------------------------------------------------
(* The plans *)

Tasks(req) ==
    IF req.kind = "macro"
    THEN {"macro_data", "freshness_gate", "capital_flow", "cost_transfer", "macro_synthesis", "guardrail"}
    ELSE {"market_data", "indicators", "benchmark_market", "timing", "advice", "facts", "guardrail"}
         \cup (IF req.macro THEN {"macro_linkage"} ELSE {})
         \cup (IF req.position THEN {"portfolio"} ELSE {})
         \cup (IF req.model THEN {"model"} ELSE {})

\* Mutation of GuardWaitsFor: the guard does not wait for the model.
GuardWaitsForFacts(req) == IF req.kind = "macro" THEN {"macro_synthesis"} ELSE {"facts"}

GuardWaitsFor(req) ==
    CASE req.kind = "macro" -> {"macro_synthesis"}
      [] req.model          -> {"model"}
      [] OTHER              -> {"facts"}

\* Mutation of FactsWaitFor: the facts do not wait for the advice.
FactsWaitForTiming(req) == {"timing"}

FactsWaitFor(req) == IF req.position THEN {"portfolio"} ELSE {"advice"}

DependsOn(req, t) ==
    CASE t \in {"market_data", "macro_data"} -> {}
      [] t \in {"indicators", "benchmark_market"} -> {"market_data"}
      [] t = "timing" -> {"indicators", "benchmark_market"}
      [] t = "macro_linkage" -> {"timing"}
      [] t = "advice" -> IF req.macro THEN {"macro_linkage"} ELSE {"timing"}
      [] t = "portfolio" -> {"advice"}
      [] t = "facts" -> FactsWaitFor(req)
      [] t = "model" -> {"facts"}
      [] t \in {"freshness_gate", "capital_flow", "cost_transfer"} -> {"macro_data"}
      [] t = "macro_synthesis" -> {"freshness_gate", "capital_flow", "cost_transfer"}
      [] t = "guardrail" -> GuardWaitsFor(req)

MaxConcurrency == IF request.kind = "macro" THEN 2 ELSE 3

\* the fields a task refuses to run without
Needs(t) ==
    CASE t \in {"market_data", "benchmark_market", "macro_linkage", "macro_data"} -> {}
      [] t = "indicators" -> {"data"}
      [] t = "timing" -> {"data", "indicators", "benchmark"}
      [] t = "advice" -> {"data", "indicators", "strategy", "market_context"}
      [] t = "portfolio" -> {"data", "strategy", "investment_advice"}
      [] t = "facts" -> {"data", "indicators", "strategy", "investment_advice"}
      [] t \in {"model", "freshness_gate", "capital_flow", "cost_transfer"} -> {"snapshot"}
      [] t = "macro_synthesis" -> {"snapshot", "validity", "capital_flow", "cost_transfer"}
      [] t = "guardrail" -> IF request.kind = "macro" THEN {"report"} ELSE {"deterministic"}

\* the fields it fills
Gives(t) ==
    CASE t = "market_data" -> {"data"}
      [] t = "indicators" -> {"indicators"}
      [] t = "benchmark_market" -> {"benchmark"}
      [] t = "timing" -> {"strategy", "market_context"}
      [] t = "advice" -> {"investment_advice"}
      [] t = "portfolio" -> {"holding_assessment"}
      [] t = "facts" -> {"snapshot", "deterministic"}
      [] t = "macro_data" -> {"snapshot"}
      [] t = "freshness_gate" -> {"validity"}
      [] t = "capital_flow" -> {"capital_flow"}
      [] t = "cost_transfer" -> {"cost_transfer"}
      [] t = "macro_synthesis" -> {"analysis", "report"}
      [] OTHER -> {}

Texts == {"deterministic", "model_summary", "report"}

\* the tasks that await something before they fill their fields
Awaiting == {"market_data", "benchmark_market", "advice", "model", "macro_data", "freshness_gate"}

\* the handlers that put an exception into state.failure before they raise it
Recording == {"market_data", "indicators", "timing", "advice", "portfolio", "facts", "model",
              "macro_data", "freshness_gate", "capital_flow", "cost_transfer", "macro_synthesis",
              "guardrail"}

---------------------------------------------------------------------------
(* The runtime *)

Task == DOMAIN status
With(s) == {t \in Task : status[t] = s}
Active == {t \in Task : pc[t] # "none"}

Ready == {t \in With("pending") : DependsOn(request, t) \subseteq With("succeeded")}

\* the ready tasks are started together once the ones before them are done
Wave ==
    /\ outcome = "none" /\ Active = {} /\ Ready # {}
    /\ pc' = [t \in Task |-> IF t \in Ready THEN "queued" ELSE pc[t]]
    /\ UNCHANGED <<request, status, held, unsafe, checked, failure, outcome, disturbed>>

Succeed(t) == status' = [status EXCEPT ![t] = "succeeded"] /\ pc' = [pc EXCEPT ![t] = "none"]

\* what can no longer run is skipped
Blocked(t) ==
    LET down[d \in Task] == d = t \/ \E e \in DependsOn(request, d) : down[e]
    IN  {d \in With("pending") : down[d]}

Fail(t) ==
    /\ status' = [d \in Task |-> CASE d = t -> "failed"
                                   [] d # t /\ d \in Blocked(t) -> "skipped"
                                   [] OTHER -> status[d]]
    /\ pc' = [pc EXCEPT ![t] = "none"]

Raise(t) ==
    /\ Fail(t)
    /\ failure' = IF t \in Recording THEN t ELSE failure

---------------------------------------------------------------------------
(* The handlers *)

\* the texts among the fields may turn out unsafe
Fill(fields) ==
    /\ held' = held \cup fields
    /\ \E u \in SUBSET (fields \cap Texts) : unsafe' = unsafe \cup u

\* the limiter lets it in
Admitted(t) ==
    pc[t] = "queued" /\ Cardinality({d \in Active : pc[d] # "queued"}) < MaxConcurrency

\* a handler that finds an input None raises (RuntimeError)
Begin(t) ==
    /\ Admitted(t) /\ t # "guardrail"
    /\ CASE ~(Needs(t) \subseteq held) -> Raise(t) /\ UNCHANGED <<held, unsafe>>
         [] Needs(t) \subseteq held /\ t \in Awaiting ->
              pc' = [pc EXCEPT ![t] = "working"] /\ UNCHANGED <<status, held, unsafe, failure>>
         [] OTHER ->
              /\ pc' = [pc EXCEPT ![t] = "reporting"] /\ Fill(Gives(t))
              /\ UNCHANGED <<status, failure>>
    /\ UNCHANGED <<request, checked, outcome, disturbed>>

Passes(texts) == Needs("guardrail") \subseteq held /\ texts \cap unsafe = {}

Guard ==
    LET texts == held \cap Texts
    IN  /\ "guardrail" \in Task /\ Admitted("guardrail")
        /\ IF Passes(texts)
           THEN /\ checked' = texts /\ pc' = [pc EXCEPT !["guardrail"] = "reporting"]
                /\ UNCHANGED <<status, failure>>
           ELSE Raise("guardrail") /\ UNCHANGED checked
        /\ UNCHANGED <<request, held, unsafe, outcome, disturbed>>

\* a benchmark that cannot be loaded is an unavailable benchmark
Worked(t) ==
    /\ pc[t] = "working" /\ t # "model"
    /\ Fill(Gives(t))
    /\ pc' = [pc EXCEPT ![t] = "reporting"]
    /\ UNCHANGED <<request, status, checked, failure, outcome, disturbed>>

\* the model answers, or its service fails and the run goes on without it
ModelAnswers ==
    /\ "model" \in Task /\ pc["model"] = "working"
    /\ \E given \in {"model_summary", "model_warning"} : Fill({given})
    /\ pc' = [pc EXCEPT !["model"] = "reporting"]
    /\ UNCHANGED <<request, status, checked, failure, outcome, disturbed>>

Reported(t) ==
    /\ pc[t] = "reporting"
    /\ Succeed(t)
    /\ UNCHANGED <<request, held, unsafe, checked, failure, outcome, disturbed>>

\* the vendor or the event log fails
WorldFails(t) ==
    /\ pc[t] \in {"working", "reporting"} /\ ~(t = "benchmark_market" /\ pc[t] = "working")
    /\ Raise(t) /\ disturbed' = TRUE
    /\ UNCHANGED <<request, held, unsafe, checked, outcome>>

\* wait_for cancels the handler, which records nothing
TimesOut(t) ==
    /\ pc[t] \in {"working", "reporting"}
    /\ Fail(t) /\ disturbed' = TRUE
    /\ UNCHANGED <<request, held, unsafe, checked, failure, outcome>>

---------------------------------------------------------------------------
Complete ==
    IF request.kind = "macro" THEN {"analysis", "validity", "report"}
    ELSE {"data", "indicators", "market_context", "strategy", "investment_advice", "snapshot",
          "deterministic"}

\* the plan is over: the result, the recorded exception, or one that tells nothing
End ==
    /\ outcome = "none" /\ Active = {} /\ Ready = {}
    /\ outcome' = CASE With("succeeded") = Task /\ Complete \subseteq held -> "returned"
                    [] With("succeeded") # Task /\ failure # NoFailure -> "raised"
                    [] OTHER -> "incomplete"
    /\ UNCHANGED <<request, status, pc, held, unsafe, checked, failure, disturbed>>

InitPipeline ==
    /\ request \in Stock \cup Macro
    /\ status = [t \in Tasks(request) |-> "pending"] /\ pc = [t \in Tasks(request) |-> "none"]
    /\ held = {} /\ unsafe = {} /\ checked = {} /\ failure = NoFailure
    /\ outcome = "none" /\ disturbed = FALSE

NextPipeline ==
    \/ Wave \/ Guard \/ ModelAnswers \/ End
    \/ \E t \in Task : \/ Begin(t) \/ Worked(t) \/ Reported(t)
                       \/ WorldFails(t) \/ TimesOut(t)

SpecPipeline == InitPipeline /\ [][NextPipeline]_pipelineVars

---------------------------------------------------------------------------
(* Safety *)

\* Nothing is returned whose text the output guard has not let pass: not the
\* summary the model wrote, whichever task finished last (guardrail).
ReturnedIsChecked == outcome = "returned" => held \cap Texts \subseteq checked

\* A run no vendor, event log or clock disturbed returns, in whatever order the
\* parallel tasks went, unless the guard refused a text: no task finds a field
\* it reads still None.  The holding is judged exactly when there is a
\* position, and with a model there is its summary or the warning.
UndisturbedResearchReturns ==
    outcome # "none" /\ ~disturbed =>
        \/ /\ outcome = "returned"
           /\ request.position <=> "holding_assessment" \in held
           /\ request.model <=> {"model_summary", "model_warning"} \cap held # {}
        \/ outcome = "raised" /\ failure = "guardrail" /\ unsafe # {}
=============================================================================
