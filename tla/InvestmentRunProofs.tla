------------------------ MODULE InvestmentRunProofs ------------------------
(***************************************************************************)
(* Proofs about InvestmentRun, for any catalog, any tools a model or the   *)
(* planner may name, any plans a model may send, any number of steps and   *)
(* any number of lost writes.                                              *)
(***************************************************************************)
EXTENDS InvestmentRun, SequenceTheorems, FiniteSetTheorems, WellFoundedInduction, TLAPS

---------------------------------------------------------------------------
(* Types. *)

Tools == Catalog \cup {Foreign, NoTool}
Words == Arguments \cup {"none", "planned"}
ActionType == [kind : {"none", "tool", "final", "clarify"}, tool : Tools, argument : Words,
               mode : {"none", "local", "model"}]
ItemType == [tool : STRING \cup Tools, status : ItemStatus]

\* every event the runtime appends
EventNames ==
    {"session/header", "turn/started", "user/message", "plan/created", "tools/cataloged",
     "step/started", "request/header", "model/request", "model/response", "model/failure",
     "policy/decision", "tool/call", "tool/result", "loop/reminder", "tools/promoted",
     "loop/guarded", "plan/revised", "step/ended", "assistant/message", "turn/ended",
     "session/ended"}
IdNames == {"turn", "step", "model", "call", "none"}
EventType ==
    [type : EventNames, id : IdNames \X Nat, ref : (IdNames \cup Tools) \X Nat, num : Nat]

HarnessType ==
    [plan : Seq(ItemType), owner : {"runtime", "model"}, promoted : SUBSET Catalog,
     told : SUBSET Catalog, last : {NoCall} \cup (Catalog \X Words), repeats : Nat]

RunTypes ==
    /\ request \in Requests /\ action \in ActionType /\ harness \in HarnessType
    /\ log \in Seq(EventType) /\ todo \in Seq(EventType)
    /\ step \in Nat /\ writes \in Nat /\ cancels \in Nat /\ faults \in Nat

\* a phase that appends goes on with one of these; the others append nothing
Follows ==
    [opening  |-> {"preparing", "looping"},
     stepping |-> {"choosing"},
     asking   |-> {"waiting", "acting", "fallback", "unanswered"},
     failing  |-> {"failed"},
     noting   |-> {"looping", "finishing"},
     calling  |-> {"invoking", "observing", "refused", "interrupted"},
     closing  |-> {"leaving"}]
Emitting == {"opening", "stepping", "asking", "failing", "noting", "calling", "closing"}
Quiet == {"preparing", "looping", "choosing", "waiting", "fallback", "unanswered", "acting",
          "failed", "refused", "invoking", "observing", "finishing", "interrupted", "leaving",
          "gone"}

Phases ==
    \/ pc \in Quiet /\ todo = <<>>
    \/ pc \in Emitting /\ todo # <<>> /\ after \in Follows[pc]

---------------------------------------------------------------------------
(* The portfolio write. *)

\* the tool has not run in this step yet
Before == pc = "invoking" \/ (pc = "calling" /\ after = "invoking")

\* it may have: what it did is in no observation so far
Underway == (pc = "calling" /\ after # "invoking") \/ pc \in {"observing", "refused", "interrupted"}

WriteInv ==
    request.intent = "portfolio" =>
      /\ pc \notin {"asking", "waiting", "fallback", "unanswered"}
      /\ pc = "acting" /\ action.kind = "tool" => action.tool = Write /\ Write \notin called
      /\ pc \in {"calling", "invoking", "observing", "refused"} => action.tool = Write
      /\ Before => Write \notin called
      /\ writes <= 1
      /\ writes = 0 \/ Write \in called \/ Underway \/ pc \in {"closing", "leaving", "gone"}

---------------------------------------------------------------------------
(* The plan. *)

OneActive(plan) == \A i, j \in Active(plan) : i = j

---------------------------------------------------------------------------
(* The event stream. *)

\* what has begun and not ended, but for the ids in but, is not there
Ended(l, begin, enders, but) ==
    \A i \in DOMAIN l : l[i].type = begin /\ l[i].id \notin but => \E e \in enders : Has(l, e, l[i].id)

\* how step, request or call id stands in the stream l
Stands(l, begin, enders, id, how) ==
    /\ how # "closed" => \A e \in enders : ~Has(l, e, id)
    /\ how = "open" <=> Has(l, begin, id) /\ how # "closed"
    /\ how = "closed" => \E e \in enders : Has(l, e, id)

\* events of these types are of steps up to n
UpTo(l, types, name, n) ==
    \A i \in DOMAIN l : l[i].type \in types => \E k \in 0..n : l[i].id = <<name, k>>

\* steps, model requests or tool calls in step n: the earlier ones are over, later
\* ones have not begun, and that of step n stands as how says
Stage(l, n, begin, enders, name, how) ==
    /\ UpTo(l, {begin} \cup enders, name, n)
    /\ Ended(l, begin, enders, {<<name, n>>})
    /\ Stands(l, begin, enders, <<name, n>>, how)

StepEnds == {"step/ended"}
Replies == {"model/response", "model/failure"}
Results == {"tool/result"}

\* the only turn of the run, which every step belongs to, is open
TurnSound(l) ==
    /\ Has(l, "turn/started", Turn) /\ ~Has(l, "turn/ended", Turn)
    /\ \A i \in DOMAIN l : l[i].type = "turn/started" => l[i].id = Turn
    /\ \A i \in DOMAIN l : l[i].type = "step/started" => l[i].ref = Turn

StepSound(l, n, s) == Stage(l, n, "step/started", StepEnds, "step", s)
\* the header of a request comes before it
ModelSound(l, n, m) ==
    /\ Stage(l, n, "model/request", Replies, "model", m)
    /\ UpTo(l, {"request/header"}, "model", n)
    /\ m = "fresh" => ~Has(l, "request/header", <<"model", n>>)
CallSound(l, n, c) == Stage(l, n, "tool/call", Results, "call", c)

\* l holds the turn in its step n, and step n, its request and its call stand as
\* s, m and c say
Sound(l, n, s, m, c) ==
    TurnSound(l) /\ StepSound(l, n, s) /\ ModelSound(l, n, m) /\ CallSound(l, n, c)

Over == {"fresh", "closed"}

\* nothing of step n is open
Between(l, n) == \E s, m, c \in Over : Sound(l, n, s, m, c)
\* step n is, its request and call are not
InStep(l, n) == \E m, c \in Over : Sound(l, n, "open", m, c)

Blank(l) == \A i \in DOMAIN l : l[i].type = "session/header"
Finished(l) ==
    /\ Ended(l, "turn/started", {"turn/ended"}, {})
    /\ Ended(l, "step/started", StepEnds, {})
    /\ Ended(l, "model/request", Replies, {})
    /\ Ended(l, "tool/call", Results, {})

Silent == {"loop/reminder", "tools/promoted", "plan/revised", "loop/guarded"}
Unchecked ==
    {"session/header", "user/message", "plan/created", "tools/cataloged", "policy/decision",
     "assistant/message"} \cup Silent
Header == Model("request/header", 0)

\* events the check has nothing to say of, then the end of the step
Noting(q) ==
    /\ q \in Seq({Note(t) : t \in Silent} \cup {StepEnded}) /\ q # <<>>
    /\ q[Len(q)] = StepEnded
    /\ \A i \in 1..(Len(q) - 1) : q[i] # StepEnded

Opened ==
    pc = "opening" /\ after = "preparing" =>
      \/ todo \in {Opening, Tail(Opening)} /\ Blank(log)
      \/ todo = Tail(Tail(Opening)) /\ Sound(log, step, "fresh", "fresh", "fresh")

Prepared ==
    /\ pc = "preparing" => Sound(log, step, "fresh", "fresh", "fresh")
    /\ pc = "opening" /\ after = "looping" =>
         todo \in {Cataloguing, Tail(Cataloguing)} /\ Sound(log, step, "fresh", "fresh", "fresh")

Stepping ==
    /\ pc \in {"looping", "finishing", "failed"} => Between(log, step)
    /\ pc = "stepping" =>
         todo = <<Event("step/started", Step(step), Turn, 0)>>
         /\ Sound(log, step, "fresh", "fresh", "fresh")
    /\ pc = "choosing" => Sound(log, step, "open", "fresh", "fresh")
    /\ pc = "failing" => todo = <<StepEnded>> /\ InStep(log, step)
    /\ pc = "noting" => Noting(todo) /\ InStep(log, step)

Asking ==
    /\ pc = "asking" /\ after = "waiting" =>
         \/ todo = <<Header, Model("model/request", Len(log) + 1)>>
            /\ Sound(log, step, "open", "fresh", "fresh")
         \/ todo = <<Model("model/request", Len(log))>> /\ log # <<>> /\ log[Len(log)] = Header
            /\ Sound(log, step, "open", "headed", "fresh")
    /\ pc = "waiting" => Sound(log, step, "open", "open", "fresh")
    /\ pc = "asking" /\ after # "waiting" =>
         todo \in {<<Model(t, 0)>> : t \in Replies} /\ Sound(log, step, "open", "open", "fresh")
    /\ pc \in {"acting", "fallback", "unanswered"} =>
         \E m \in Over : Sound(log, step, "open", m, "fresh")

Calling ==
    /\ pc = "calling" /\ after = "invoking" =>
         todo \in {<<Note("policy/decision"), Tool("tool/call", action.tool)>>,
                   <<Tool("tool/call", action.tool)>>}
         /\ \E m \in Over : Sound(log, step, "open", m, "fresh")
    /\ pc = "invoking" => \E m \in Over : Sound(log, step, "open", m, "open")
    /\ pc = "calling" /\ after # "invoking" =>
         todo = <<Tool("tool/result", action.tool)>>
         /\ \E m \in Over : Sound(log, step, "open", m, "open")
    /\ pc \in {"observing", "refused"} => InStep(log, step)
    /\ pc # "interrupted" /\ ~(pc = "calling" /\ after = "interrupted")

Ending ==
    pc = "closing" =>
      \/ todo \in {Closing, Tail(Closing)} /\ Between(log, step)
      \/ todo = Tail(Tail(Closing)) /\ Finished(log)

\* where the stream stands in every phase
Table == Opened /\ Prepared /\ Stepping /\ Asking /\ Calling /\ Ending

\* as long as no write was lost and nothing was cancelled
Calm == faults + cancels = 0 => Table

\* a run that raised had not got through the opening
Unplanned == ~Has(log, "plan/created", NoRef)
Raised ==
    faults + cancels = 0 =>
      /\ (pc = "opening" /\ after = "preparing") \/ pc = "preparing" => Unplanned
      /\ out = "raised" => Unplanned
      /\ out # "running" => pc = "gone"

\* what the finally clause was entered with, and the last event it appends
Closed == Last(log).type = "session/ended"
Reported ==
    saved = IF ends = "error" THEN "failed"
            ELSE IF action.kind = "clarify" THEN "needs_input" ELSE "succeeded"
Closes ==
    /\ pc = "closing" => todo \in {Closing, Tail(Closing), Tail(Tail(Closing))}
    /\ pc = "leaving" => Closed
    /\ pc \in {"closing", "leaving"} => ends = "cancel" \/ Reported
    /\ out = "returned" => pc = "gone" /\ Closed /\ Reported


---------------------------------------------------------------------------
(* The smallest element, and the first element that passes a test.          *)

\* Min of a set of naturals is one of them.
LEMMA MinOf ==
  ASSUME NEW S \in SUBSET Nat, S # {}
  PROVE  Min(S) \in S
<1>1. PICK k \in S : \A y \in S : ~(<<y, k>> \in OpToRel(<, Nat))
  BY NatLessThanWellFounded, WFMin
<1>2. \A y \in S : ~(y < k)
  BY <1>1 DEF OpToRel
<1>3. k \in Nat /\ \A y \in S : y \in Nat
  OBVIOUS
<1>4. \A y \in S : k <= y
  BY <1>2, <1>3
<1>5. QED
  BY <1>4 DEF Min

---------------------------------------------------------------------------
(* The plan and the harness.                                                *)

\* One item in progress is what the cardinality of the active items says.
LEMMA ActiveCount ==
  ASSUME NEW plan \in Seq(ItemType)
  PROVE  Cardinality(Active(plan)) <= 1 <=> OneActive(plan)
<1>1. Active(plan) \in SUBSET (1..Len(plan)) /\ Len(plan) \in Nat
  BY LenProperties DEF Active
<1>2. IsFiniteSet(Active(plan))
  <2>1. IsFiniteSet(1..Len(plan))
    BY <1>1, FS_Interval
  <2>2. QED
    BY <1>1, <2>1, FS_Subset
<1>3. Cardinality(Active(plan)) \in Nat
  BY <1>2, FS_CardinalityType
<1>4. ASSUME Cardinality(Active(plan)) <= 1 PROVE OneActive(plan)
  <2>1. Cardinality(Active(plan)) = 0 \/ Cardinality(Active(plan)) = 1
    BY <1>3, <1>4
  <2>2. Active(plan) = {} \/ \E x : Active(plan) = {x}
    BY <1>2, <2>1, FS_EmptySet, FS_Singleton
  <2>3. QED
    BY <2>2 DEF OneActive
<1>5. ASSUME OneActive(plan) PROVE Cardinality(Active(plan)) <= 1
  <2>1. Active(plan) = {} \/ \E x : Active(plan) = {x}
    BY <1>5 DEF OneActive
  <2>2. QED
    BY <1>2, <2>1, FS_EmptySet, FS_Singleton
<1>6. QED
  BY <1>4, <1>5

\* _start_matching_plan_item: its item takes over from the one in progress.
LEMMA StartMatchingKeeps ==
  ASSUME NEW plan \in Seq(ItemType), NEW tool
  PROVE  /\ StartMatching(plan, tool) \in Seq(ItemType)
         /\ OneActive(plan) => OneActive(StartMatching(plan, tool))
<1> DEFINE k == SelectInSeq(plan, LAMBDA item: item.tool = tool /\ item.status = "pending")
           new == [i \in DOMAIN plan |->
                     IF i = k THEN [plan[i] EXCEPT !.status = "in_progress"]
                     ELSE IF i \in Active(plan) THEN [plan[i] EXCEPT !.status = "pending"]
                     ELSE plan[i]]
<1>1. StartMatching(plan, tool) = IF k = 0 THEN plan ELSE new
  BY DEF StartMatching
<1> HIDE DEF k
<1>2. DOMAIN plan = 1..Len(plan) /\ Len(plan) \in Nat /\ \A i \in DOMAIN plan : plan[i] \in ItemType
  BY LenProperties, ElementOfSeq
<1>3. \A i \in DOMAIN plan :
        /\ [plan[i] EXCEPT !.status = "in_progress"] \in ItemType
        /\ [plan[i] EXCEPT !.status = "pending"] \in ItemType
        /\ [plan[i] EXCEPT !.status = "pending"].status = "pending"
  BY <1>2 DEF ItemType, ItemStatus
<1>4. \A i \in DOMAIN plan : new[i] \in ItemType
  BY <1>2, <1>3
<1>5. new \in Seq(ItemType)
  BY <1>2, <1>4, SeqDef
<1>6. \A i \in DOMAIN plan : new[i].status = "in_progress" => i = k
  BY <1>3 DEF Active
<1>7. DOMAIN new = DOMAIN plan
  OBVIOUS
<1> HIDE DEF new
<1>8. OneActive(new)
  BY <1>6, <1>7 DEF OneActive, Active
<1>9. QED
  BY <1>1, <1>5, <1>8

\* A new status for one item; nothing else becomes active.
LEMMA SetStatus ==
  ASSUME NEW plan \in Seq(ItemType), NEW k, NEW status \in ItemStatus
  PROVE  /\ [plan EXCEPT ![k].status = status] \in Seq(ItemType)
         /\ Active([plan EXCEPT ![k].status = status]) \subseteq Active(plan) \cup {k}
         /\ status # "in_progress" =>
              Active([plan EXCEPT ![k].status = status]) \subseteq Active(plan)
<1> DEFINE new == [plan EXCEPT ![k].status = status]
<1>1. DOMAIN plan = 1..Len(plan) /\ Len(plan) \in Nat /\ \A i \in DOMAIN plan : plan[i] \in ItemType
  BY LenProperties, ElementOfSeq
<1>2. DOMAIN new = DOMAIN plan
      /\ \A i \in DOMAIN plan : new[i] = IF i = k THEN [plan[i] EXCEPT !.status = status] ELSE plan[i]
  BY <1>1
<1> HIDE DEF new
<1>3. \A i \in DOMAIN plan : new[i] \in ItemType
  BY <1>1, <1>2 DEF ItemType
<1>4. new = [i \in DOMAIN plan |-> new[i]]
  BY <1>2 DEF new
<1>5. new \in Seq(ItemType)
  BY <1>1, <1>3, <1>4, SeqDef
<1>6. \A i \in DOMAIN plan : new[i].status = IF i = k THEN status ELSE plan[i].status
  BY <1>1, <1>2 DEF ItemType
<1>7. QED
  BY <1>2, <1>5, <1>6 DEF Active, new

\* The next pending item starts when nothing is in progress.
LEMMA StartNextKeeps ==
  ASSUME NEW plan \in Seq(ItemType)
  PROVE  /\ StartNext(plan) \in Seq(ItemType)
         /\ OneActive(plan) => OneActive(StartNext(plan))
<1> DEFINE k == SelectInSeq(plan, LAMBDA item: item.status = "pending")
<1>1. StartNext(plan) = IF Active(plan) # {} \/ k = 0 THEN plan
                        ELSE [plan EXCEPT ![k].status = "in_progress"]
  BY DEF StartNext
<1> HIDE DEF k
<1> DEFINE new == [plan EXCEPT ![k].status = "in_progress"]
<1>2. new \in Seq(ItemType) /\ Active(new) \subseteq Active(plan) \cup {k}
  BY SetStatus DEF ItemStatus
<1> HIDE DEF new
<1>3. Active(plan) = {} => OneActive(new)
  BY <1>2 DEF OneActive
<1>4. QED
  BY <1>1, <1>2, <1>3 DEF new

\* A new harness has its one item in progress.
LEMMA NewHarnessSound ==
  ASSUME NEW evidence \in Catalog \cup {NoTool}
  PROVE  NewHarness(evidence) \in HarnessType /\ OneActive(NewHarness(evidence).plan)
<1> DEFINE plan == <<Item(evidence, "in_progress"), Item(NoTool, "pending")>>
<1>1. plan \in Seq(ItemType)
  <2>1. Item(evidence, "in_progress") \in ItemType /\ Item(NoTool, "pending") \in ItemType
    BY DEF Item, ItemType, ItemStatus, Tools
  <2>2. QED
    BY <2>1
<1>2. OneActive(plan)
  BY DEF OneActive, Active, Item
<1>3. QED
  BY <1>1, <1>2, HarnessAssumption DEF NewHarness, HarnessType, NoCall

\* Tools are promoted from the catalog, and the plan is left alone.
LEMMA PromoteKeeps ==
  ASSUME NEW h \in HarnessType, NEW found
  PROVE  /\ Promote(h, found) \in HarnessType /\ Promote(h, found).plan = h.plan
         /\ Promote(h, found).owner = h.owner
BY DEF Promote, HarnessType

\* A call is counted, and the plan of the runtime follows it.
LEMMA BeforeToolKeeps ==
  ASSUME NEW h \in HarnessType, NEW tool \in Catalog, NEW argument \in Words
  PROVE  LET new == BeforeTool(h, tool, argument)
         IN  /\ new \in HarnessType /\ new.owner = h.owner
             /\ OneActive(h.plan) => OneActive(new.plan)
             /\ h.owner = "model" => new.plan = h.plan
<1> DEFINE plan == IF h.owner = "runtime" THEN StartMatching(h.plan, tool) ELSE h.plan
           repeats == IF h.last = <<tool, argument>> THEN h.repeats + 1 ELSE 1
<1>1. BeforeTool(h, tool, argument) =
        [h EXCEPT !.repeats = repeats, !.last = <<tool, argument>>, !.plan = plan]
  BY DEF BeforeTool, HarnessType
<1>2. h.plan \in Seq(ItemType) /\ h.repeats \in Nat
  BY DEF HarnessType
<1>3. plan \in Seq(ItemType) /\ (OneActive(h.plan) => OneActive(plan))
  BY <1>2, StartMatchingKeeps
<1>4. repeats \in Nat
  BY <1>2
<1>5. h.owner = "model" => plan = h.plan
  OBVIOUS
<1> HIDE DEF plan, repeats
<1>6. QED
  <2> DEFINE x == [h EXCEPT !.repeats = repeats]
             y == [x EXCEPT !.last = <<tool, argument>>]
  <2>1. BeforeTool(h, tool, argument) = [y EXCEPT !.plan = plan]
    BY <1>1
  <2>2. x \in HarnessType /\ x.owner = h.owner
    BY <1>4 DEF HarnessType
  <2> HIDE DEF x
  <2>3. y \in HarnessType /\ y.owner = x.owner
    BY <2>2 DEF HarnessType
  <2> HIDE DEF y
  <2>4. [y EXCEPT !.plan = plan] \in HarnessType /\ [y EXCEPT !.plan = plan].owner = y.owner
        /\ [y EXCEPT !.plan = plan].plan = plan
    BY <1>3, <2>3 DEF HarnessType
  <2>5. QED
    BY <1>3, <1>5, <2>1, <2>2, <2>3, <2>4

\* The item of the tool ends, and the next one starts; a plan the model sent is
\* left alone.
LEMMA AfterToolKeeps ==
  ASSUME NEW h \in HarnessType, NEW tool, NEW ok \in BOOLEAN
  PROVE  LET new == AfterTool(h, tool, ok)
         IN  /\ new \in HarnessType /\ new.owner = h.owner
             /\ OneActive(h.plan) => OneActive(new.plan)
             /\ h.owner = "model" => new.plan = h.plan
<1> DEFINE own  == SelectInSeq(h.plan, LAMBDA item: item.tool = tool /\ item.status = "in_progress")
           any  == SelectInSeq(h.plan, LAMBDA item: item.tool = NoTool /\ item.status = "in_progress")
           k    == IF own # 0 THEN own ELSE any
           done == IF k = 0 THEN h.plan
                   ELSE [h.plan EXCEPT ![k].status = IF ok THEN "completed" ELSE "blocked"]
           plan == IF ok THEN StartNext(done) ELSE done
<1>1. AfterTool(h, tool, ok) = IF Untouched(h, tool) THEN h ELSE [h EXCEPT !.plan = plan]
  BY DEF AfterTool
<1> HIDE DEF k
<1>2. h.plan \in Seq(ItemType)
  BY DEF HarnessType
<1>3. done \in Seq(ItemType) /\ (OneActive(h.plan) => OneActive(done))
  <2> DEFINE status == IF ok THEN "completed" ELSE "blocked"
             new == [h.plan EXCEPT ![k].status = status]
  <2>1. status \in ItemStatus /\ status # "in_progress"
    BY DEF ItemStatus
  <2> HIDE DEF status
  <2>2. new \in Seq(ItemType) /\ Active(new) \subseteq Active(h.plan)
    BY <1>2, <2>1, SetStatus
  <2>3. done = IF k = 0 THEN h.plan ELSE new
    BY DEF status
  <2> HIDE DEF done, new
  <2>4. QED
    BY <1>2, <2>2, <2>3 DEF OneActive
<1> HIDE DEF done
<1>4. plan \in Seq(ItemType) /\ (OneActive(h.plan) => OneActive(plan))
  BY <1>3, StartNextKeeps
<1> HIDE DEF plan
<1>5. h.owner = "model" => Untouched(h, tool)
  BY DEF Untouched
<1>6. QED
  BY <1>1, <1>4, <1>5 DEF HarnessType

\* A plan the model sends is taken whole, with one item in progress at most.
LEMMA ReplacePlanKeeps ==
  ASSUME NEW h \in HarnessType, NEW items \in Plans, PlanAccepted(items)
  PROVE  ReplacePlan(h, items) \in HarnessType /\ OneActive(ReplacePlan(h, items).plan)
<1>1. items \in Seq([tool : STRING, status : STRING])
  BY RunAssumption
<1>2. DOMAIN items = 1..Len(items) /\ Len(items) \in Nat
      /\ \A i \in DOMAIN items : items[i] \in [tool : STRING, status : STRING]
  BY <1>1, LenProperties, ElementOfSeq
<1>3. \A i \in DOMAIN items : items[i] \in ItemType
  BY <1>2 DEF PlanAccepted, ItemType
<1>4. items = [i \in 1..Len(items) |-> items[i]]
  BY <1>1, LenProperties
<1>5. items \in Seq(ItemType)
  BY <1>2, <1>3, <1>4, SeqDef
<1>6. OneActive(items)
  BY <1>5, ActiveCount DEF PlanAccepted
<1>7. QED
  BY <1>5, <1>6 DEF ReplacePlan, HarnessType

---------------------------------------------------------------------------
(* What one more event does to a stream.                                    *)

\* The stream grows by one event at its end.
LEMMA Appended ==
  ASSUME NEW l \in Seq(EventType), NEW e \in EventType
  PROVE  /\ Append(l, e) \in Seq(EventType)
         /\ Len(Append(l, e)) = Len(l) + 1 /\ Len(l) \in Nat
         /\ DOMAIN l = 1..Len(l) /\ DOMAIN Append(l, e) = 1..(Len(l) + 1)
         /\ \A i \in DOMAIN l : i \in DOMAIN Append(l, e) /\ Append(l, e)[i] = l[i]
         /\ Append(l, e)[Len(l) + 1] = e
         /\ \A i \in DOMAIN Append(l, e) : i \in DOMAIN l \/ i = Len(l) + 1
BY AppendProperties, LenProperties

\* It has one more event.
LEMMA HasAppend ==
  ASSUME NEW l \in Seq(EventType), NEW e \in EventType, NEW type, NEW id
  PROVE  Has(Append(l, e), type, id) <=> Has(l, type, id) \/ (e.type = type /\ e.id = id)
<1> DEFINE a == Append(l, e)
<1>1. /\ \A i \in DOMAIN l : i \in DOMAIN a /\ a[i] = l[i]
      /\ Len(l) + 1 \in DOMAIN a /\ a[Len(l) + 1] = e
      /\ \A i \in DOMAIN a : i \in DOMAIN l \/ i = Len(l) + 1
  BY Appended
<1> HIDE DEF a
<1>2. QED
  BY <1>1 DEF Has, a

\* What holds of every event holds of every event still, if it holds of the new one.
LEMMA UpToAppend ==
  ASSUME NEW l \in Seq(EventType), NEW e \in EventType, NEW types, NEW name, NEW n,
         UpTo(l, types, name, n),
         e.type \in types => \E k \in 0..n : e.id = <<name, k>>
  PROVE  UpTo(Append(l, e), types, name, n)
<1> DEFINE a == Append(l, e)
<1>1. \A i \in DOMAIN a : (i \in DOMAIN l /\ a[i] = l[i]) \/ a[i] = e
  BY Appended
<1> HIDE DEF a
<1>2. QED
  BY <1>1 DEF UpTo, a

\* What was ended stays ended; a new beginning is one of the exceptions.
LEMMA EndedAppend ==
  ASSUME NEW l \in Seq(EventType), NEW e \in EventType, NEW begin, NEW enders, NEW but,
         Ended(l, begin, enders, but),
         e.type = begin => e.id \in but
  PROVE  Ended(Append(l, e), begin, enders, but)
<1> DEFINE a == Append(l, e)
<1>1. \A i \in DOMAIN a : (i \in DOMAIN l /\ a[i] = l[i]) \/ a[i] = e
  BY Appended
<1>2. \A type, id : Has(l, type, id) => Has(a, type, id)
  BY HasAppend
<1> HIDE DEF a
<1>3. QED
  BY <1>1, <1>2 DEF Ended, a

\* An event of another kind changes nothing.
LEMMA StageKept ==
  ASSUME NEW l \in Seq(EventType), NEW e \in EventType, NEW n, NEW begin, NEW enders, NEW name,
         NEW how, Stage(l, n, begin, enders, name, how),
         e.type \notin {begin} \cup enders
  PROVE  Stage(Append(l, e), n, begin, enders, name, how)
<1>1. UpTo(Append(l, e), {begin} \cup enders, name, n)
  BY UpToAppend DEF Stage
<1>2. Ended(Append(l, e), begin, enders, {<<name, n>>})
  BY EndedAppend DEF Stage
<1>3. \A type \in {begin} \cup enders : \A id : Has(Append(l, e), type, id) <=> Has(l, type, id)
  BY HasAppend
<1>4. Stands(Append(l, e), begin, enders, <<name, n>>, how)
  BY <1>3 DEF Stage, Stands
<1>5. QED
  BY <1>1, <1>2, <1>4 DEF Stage

\* Step n, its request or its call begins.
LEMMA StageBegins ==
  ASSUME NEW l \in Seq(EventType), NEW e \in EventType, NEW n \in Nat, NEW begin, NEW enders,
         NEW name, NEW how \in {"fresh", "headed"}, Stage(l, n, begin, enders, name, how),
         begin \notin enders, e.type = begin, e.id = <<name, n>>
  PROVE  Stage(Append(l, e), n, begin, enders, name, "open")
<1>1. UpTo(Append(l, e), {begin} \cup enders, name, n)
  BY UpToAppend DEF Stage
<1>2. Ended(Append(l, e), begin, enders, {<<name, n>>})
  BY EndedAppend DEF Stage
<1>3. \A type \in enders : \A id : Has(Append(l, e), type, id) <=> Has(l, type, id)
  BY HasAppend
<1>4. Has(Append(l, e), begin, <<name, n>>)
  BY HasAppend
<1>5. Stands(Append(l, e), begin, enders, <<name, n>>, "open")
  BY <1>3, <1>4 DEF Stage, Stands
<1>6. QED
  BY <1>1, <1>2, <1>5 DEF Stage

\* It ends.
LEMMA StageEnds ==
  ASSUME NEW l \in Seq(EventType), NEW e \in EventType, NEW n \in Nat, NEW begin, NEW enders,
         NEW name, Stage(l, n, begin, enders, name, "open"),
         begin \notin enders, e.type \in enders, e.id = <<name, n>>
  PROVE  Stage(Append(l, e), n, begin, enders, name, "closed")
<1>1. UpTo(Append(l, e), {begin} \cup enders, name, n)
  BY UpToAppend DEF Stage
<1>2. Ended(Append(l, e), begin, enders, {<<name, n>>})
  BY EndedAppend DEF Stage
<1>3. Has(Append(l, e), e.type, <<name, n>>)
  BY HasAppend
<1>4. Stands(Append(l, e), begin, enders, <<name, n>>, "closed")
  BY <1>3 DEF Stands
<1>5. QED
  BY <1>1, <1>2, <1>4 DEF Stage

\* Nothing of step n is open.
LEMMA StageOver ==
  ASSUME NEW l, NEW n, NEW begin, NEW enders, NEW name, NEW how \in Over,
         Stage(l, n, begin, enders, name, how)
  PROVE  Ended(l, begin, enders, {})
<1>1. SUFFICES ASSUME NEW i \in DOMAIN l, l[i].type = begin
               PROVE  \E e \in enders : Has(l, e, l[i].id)
  BY DEF Ended
<1>2. CASE l[i].id # <<name, n>>
  BY <1>1, <1>2 DEF Stage, Ended
<1>3. CASE l[i].id = <<name, n>>
  <2>1. Has(l, begin, <<name, n>>)
    BY <1>1, <1>3 DEF Has
  <2>2. how = "closed"
    BY <2>1 DEF Stage, Stands, Over
  <2>3. QED
    BY <1>3, <2>2 DEF Stage, Stands
<1>4. QED
  BY <1>2, <1>3

\* The next step has not begun.
LEMMA StageNext ==
  ASSUME NEW l, NEW n \in Nat, NEW begin, NEW enders, NEW name, NEW how \in Over,
         Stage(l, n, begin, enders, name, how)
  PROVE  Stage(l, n + 1, begin, enders, name, "fresh")
<1>1. Ended(l, begin, enders, {<<name, n + 1>>})
  BY StageOver DEF Ended
<1>2. UpTo(l, {begin} \cup enders, name, n + 1)
  <2>1. \A k \in 0..n : k \in 0..(n + 1)
    OBVIOUS
  <2>2. QED
    BY <2>1 DEF Stage, UpTo
<1>3. \A k \in 0..n : <<name, k>> # <<name, n + 1>>
  OBVIOUS
<1>4. \A type \in {begin} \cup enders : ~Has(l, type, <<name, n + 1>>)
  BY <1>3 DEF Stage, UpTo, Has
<1>5. Stands(l, begin, enders, <<name, n + 1>>, "fresh")
  BY <1>4 DEF Stands
<1>6. QED
  BY <1>1, <1>2, <1>5 DEF Stage

---------------------------------------------------------------------------
(* What the lifecycle check accepts, and how the stream stands after it.    *)

LEMMA Kinds ==
  /\ "step/started" \notin StepEnds /\ "model/request" \notin Replies
  /\ "tool/call" \notin Results
  /\ \A t \in Unchecked : /\ t \notin {"step/started"} \cup StepEnds
                          /\ t \notin {"model/request"} \cup Replies
                          /\ t \notin {"tool/call"} \cup Results
                          /\ t \notin {"turn/started", "turn/ended", "request/header"}
BY DEF StepEnds, Replies, Results, Unchecked, Silent

\* Events of the turn's own lifecycle are the only ones that disturb it.
LEMMA TurnKept ==
  ASSUME NEW l \in Seq(EventType), NEW e \in EventType, TurnSound(l),
         e.type \notin {"turn/started", "turn/ended"},
         e.type = "step/started" => e.ref = Turn
  PROVE  TurnSound(Append(l, e))
<1> DEFINE a == Append(l, e)
<1>1. \A i \in DOMAIN a : (i \in DOMAIN l /\ a[i] = l[i]) \/ a[i] = e
  BY Appended
<1>2. \A type \in {"turn/started", "turn/ended"} : \A id : Has(a, type, id) <=> Has(l, type, id)
  BY HasAppend
<1> HIDE DEF a
<1>3. QED
  BY <1>1, <1>2 DEF TurnSound, a

\* An event no stage of the step is about leaves the request as it stands.
LEMMA ModelKept ==
  ASSUME NEW l \in Seq(EventType), NEW e \in EventType, NEW n, NEW m, ModelSound(l, n, m),
         e.type \notin {"request/header", "model/request"} \cup Replies
  PROVE  ModelSound(Append(l, e), n, m)
<1>1. Stage(Append(l, e), n, "model/request", Replies, "model", m)
  BY StageKept DEF ModelSound
<1>2. UpTo(Append(l, e), {"request/header"}, "model", n)
  BY UpToAppend DEF ModelSound
<1>3. Has(Append(l, e), "request/header", <<"model", n>>) => Has(l, "request/header", <<"model", n>>)
  BY HasAppend
<1>4. QED
  BY <1>1, <1>2, <1>3 DEF ModelSound

\* An event the check has nothing to say of.
LEMMA UncheckedAppended ==
  ASSUME NEW l \in Seq(EventType), NEW e \in EventType, e.type \in Unchecked
  PROVE  /\ Accepts(l, e)
         /\ \A n, s, m, c : Sound(l, n, s, m, c) => Sound(Append(l, e), n, s, m, c)
<1>1. Accepts(l, e)
  BY DEF Unchecked, Silent, Accepts, AcceptsAgent, AcceptsCall, AcceptsChild
<1>2. ASSUME NEW n, NEW s, NEW m, NEW c, Sound(l, n, s, m, c)
      PROVE  Sound(Append(l, e), n, s, m, c)
  <2>1. TurnSound(Append(l, e))
    BY <1>2, TurnKept, Kinds DEF Sound
  <2>2. StepSound(Append(l, e), n, s)
    BY <1>2, StageKept, Kinds DEF Sound, StepSound
  <2>3. ModelSound(Append(l, e), n, m)
    BY <1>2, ModelKept, Kinds DEF Sound
  <2>4. CallSound(Append(l, e), n, c)
    BY <1>2, StageKept, Kinds DEF Sound, CallSound
  <2>5. QED
    BY <2>1, <2>2, <2>3, <2>4 DEF Sound
<1>3. QED
  BY <1>1, <1>2

\* The turn starts, and no step has begun.
LEMMA TurnStarts ==
  ASSUME NEW l \in Seq(EventType), NEW e \in EventType, NEW n \in Nat, Blank(l),
         e.type = "turn/started", e.id = Turn
  PROVE  Accepts(l, e) /\ Sound(Append(l, e), n, "fresh", "fresh", "fresh")
<1> DEFINE a == Append(l, e)
<1>1. Accepts(l, e)
  BY DEF Blank, Has, Accepts, AcceptsAgent, AcceptsCall, AcceptsChild
<1>2. \A i \in DOMAIN a : a[i].type = "session/header" \/ a[i] = e
  BY Appended DEF Blank
<1>3. Has(a, "turn/started", Turn)
  BY HasAppend
<1> HIDE DEF a
<1>4. \A i \in DOMAIN a : a[i].type \in {"session/header", "turn/started"}
  BY <1>2
<1>5. TurnSound(a)
  BY <1>2, <1>3, <1>4 DEF TurnSound, Has
<1>6. ASSUME NEW begin, NEW enders, NEW name,
             begin \notin {"session/header", "turn/started"},
             enders \cap {"session/header", "turn/started"} = {}
      PROVE  Stage(a, n, begin, enders, name, "fresh")
  BY <1>4, <1>6 DEF Stage, UpTo, Ended, Stands, Has
<1>7. StepSound(a, n, "fresh") /\ CallSound(a, n, "fresh")
  BY <1>6 DEF StepSound, CallSound, StepEnds, Results
<1>8. ModelSound(a, n, "fresh")
  <2>1. Stage(a, n, "model/request", Replies, "model", "fresh")
    BY <1>6 DEF Replies
  <2>2. QED
    BY <1>4, <2>1 DEF ModelSound, UpTo, Has
<1>9. QED
  BY <1>1, <1>5, <1>7, <1>8 DEF Sound, a

\* A step starts in the open turn.
LEMMA StepStarts ==
  ASSUME NEW l \in Seq(EventType), NEW e \in EventType, NEW n \in Nat, NEW m, NEW c,
         Sound(l, n, "fresh", m, c),
         e.type = "step/started", e.id = Step(n), e.ref = Turn
  PROVE  Accepts(l, e) /\ Sound(Append(l, e), n, "open", m, c)
<1>1. ~Has(l, "step/started", Step(n))
  BY DEF Sound, StepSound, Stage, Stands, Step
<1>2. Accepts(l, e)
  BY <1>1 DEF Sound, TurnSound, OpenTurn, Open, Accepts, AcceptsAgent, AcceptsCall, AcceptsChild
<1>3. TurnSound(Append(l, e))
  BY TurnKept DEF Sound
<1>4. StepSound(Append(l, e), n, "open")
  BY StageBegins, Kinds DEF Sound, StepSound, Step
<1>5. ModelSound(Append(l, e), n, m)
  BY ModelKept DEF Sound, Replies
<1>6. CallSound(Append(l, e), n, c)
  BY StageKept DEF Sound, CallSound, Results
<1>7. QED
  BY <1>2, <1>3, <1>4, <1>5, <1>6 DEF Sound

\* The open step ends.
LEMMA StepStops ==
  ASSUME NEW l \in Seq(EventType), NEW e \in EventType, NEW n \in Nat, NEW m, NEW c,
         Sound(l, n, "open", m, c),
         e.type = "step/ended", e.id = Step(n), e.ref = Turn
  PROVE  Accepts(l, e) /\ Sound(Append(l, e), n, "closed", m, c)
<1>1. Has(l, "step/started", Step(n)) /\ ~Has(l, "step/ended", Step(n))
  BY DEF Sound, StepSound, Stage, Stands, Step, StepEnds
<1>2. Accepts(l, e)
  BY <1>1 DEF Sound, TurnSound, Has, OpenStep, Open, Accepts, AcceptsAgent, AcceptsCall,
              AcceptsChild
<1>3. TurnSound(Append(l, e))
  BY TurnKept DEF Sound
<1>4. StepSound(Append(l, e), n, "closed")
  BY StageEnds, Kinds DEF Sound, StepSound, Step, StepEnds
<1>5. ModelSound(Append(l, e), n, m)
  BY ModelKept DEF Sound, Replies
<1>6. CallSound(Append(l, e), n, c)
  BY StageKept DEF Sound, CallSound, Results
<1>7. QED
  BY <1>2, <1>3, <1>4, <1>5, <1>6 DEF Sound

\* An event of the model's request leaves the turn, the step and the call alone.
LEMMA ModelOnly ==
  ASSUME NEW l \in Seq(EventType), NEW e \in EventType, NEW n, NEW s, NEW m, NEW c, NEW how,
         Sound(l, n, s, m, c), e.type \in {"request/header", "model/request"} \cup Replies,
         ModelSound(Append(l, e), n, how)
  PROVE  Sound(Append(l, e), n, s, how, c)
<1>1. TurnSound(Append(l, e))
  BY TurnKept DEF Sound, Replies
<1>2. StepSound(Append(l, e), n, s)
  BY StageKept DEF Sound, StepSound, Replies, StepEnds
<1>3. CallSound(Append(l, e), n, c)
  BY StageKept DEF Sound, CallSound, Replies, Results
<1>4. QED
  BY <1>1, <1>2, <1>3 DEF Sound

\* The header of a request comes first.
LEMMA HeaderAppended ==
  ASSUME NEW l \in Seq(EventType), NEW e \in EventType, NEW n \in Nat, NEW s, NEW c,
         Sound(l, n, s, "fresh", c),
         e.type = "request/header", e.id = <<"model", n>>
  PROVE  Accepts(l, e) /\ Sound(Append(l, e), n, s, "headed", c)
<1>1. Accepts(l, e)
  BY DEF Sound, ModelSound, Accepts, AcceptsAgent, AcceptsCall, AcceptsChild
<1>2. Stage(Append(l, e), n, "model/request", Replies, "model", "headed")
  <2>1. Stage(Append(l, e), n, "model/request", Replies, "model", "fresh")
    BY StageKept DEF Sound, ModelSound, Replies
  <2>2. QED
    BY <2>1 DEF Stage, Stands
<1>3. UpTo(Append(l, e), {"request/header"}, "model", n)
  BY UpToAppend DEF Sound, ModelSound
<1>4. ModelSound(Append(l, e), n, "headed")
  BY <1>2, <1>3 DEF ModelSound
<1>5. QED
  BY <1>1, <1>4, ModelOnly

\* The request names its header, which is the last event.
LEMMA RequestAppended ==
  ASSUME NEW l \in Seq(EventType), NEW e \in EventType, NEW n \in Nat, NEW s, NEW c,
         Sound(l, n, s, "headed", c),
         l # <<>>, l[Len(l)].type = "request/header", l[Len(l)].id = <<"model", n>>,
         e.type = "model/request", e.id = <<"model", n>>, e.num = Len(l)
  PROVE  Accepts(l, e) /\ Sound(Append(l, e), n, s, "open", c)
<1>1. ~Has(l, "model/request", <<"model", n>>)
  BY DEF Sound, ModelSound, Stage, Stands
<1>2. Len(l) \in DOMAIN l
  BY EmptySeq, LenProperties
<1>3. Accepts(l, e)
  BY <1>1, <1>2 DEF Accepts, AcceptsAgent, AcceptsCall, AcceptsChild
<1>4. Stage(Append(l, e), n, "model/request", Replies, "model", "open")
  BY StageBegins, Kinds DEF Sound, ModelSound
<1>5. UpTo(Append(l, e), {"request/header"}, "model", n)
  BY UpToAppend DEF Sound, ModelSound
<1>6. ModelSound(Append(l, e), n, "open")
  BY <1>4, <1>5 DEF ModelSound
<1>7. QED
  BY <1>3, <1>6, ModelOnly

\* The model answers, or fails to.
LEMMA ReplyAppended ==
  ASSUME NEW l \in Seq(EventType), NEW e \in EventType, NEW n \in Nat, NEW s, NEW c,
         Sound(l, n, s, "open", c),
         e.type \in Replies, e.id = <<"model", n>>
  PROVE  Accepts(l, e) /\ Sound(Append(l, e), n, s, "closed", c)
<1>1. OpenModel(l, <<"model", n>>)
  BY DEF Sound, ModelSound, Stage, Stands, OpenModel, Replies
<1>2. Accepts(l, e)
  BY <1>1 DEF Replies, Accepts, AcceptsAgent, AcceptsCall, AcceptsChild
<1>3. Stage(Append(l, e), n, "model/request", Replies, "model", "closed")
  BY StageEnds, Kinds DEF Sound, ModelSound
<1>4. UpTo(Append(l, e), {"request/header"}, "model", n)
  BY UpToAppend DEF Sound, ModelSound, Replies
<1>5. ModelSound(Append(l, e), n, "closed")
  BY <1>3, <1>4 DEF ModelSound
<1>6. QED
  BY <1>2, <1>5, ModelOnly

\* An event of the call leaves the turn, the step and the request alone.
LEMMA CallOnly ==
  ASSUME NEW l \in Seq(EventType), NEW e \in EventType, NEW n, NEW s, NEW m, NEW c, NEW how,
         Sound(l, n, s, m, c), e.type \in {"tool/call", "tool/result"},
         CallSound(Append(l, e), n, how)
  PROVE  Sound(Append(l, e), n, s, m, how)
<1>1. TurnSound(Append(l, e))
  BY TurnKept DEF Sound
<1>2. StepSound(Append(l, e), n, s)
  BY StageKept DEF Sound, StepSound, StepEnds
<1>3. ModelSound(Append(l, e), n, m)
  BY ModelKept DEF Sound, Replies
<1>4. QED
  BY <1>1, <1>2, <1>3 DEF Sound

\* The tool is called.
LEMMA CallAppended ==
  ASSUME NEW l \in Seq(EventType), NEW e \in EventType, NEW n \in Nat, NEW s, NEW m,
         Sound(l, n, s, m, "fresh"),
         e.type = "tool/call", e.id = <<"call", n>>
  PROVE  Accepts(l, e) /\ Sound(Append(l, e), n, s, m, "open")
<1>1. ~Has(l, "tool/call", <<"call", n>>)
  BY DEF Sound, CallSound, Stage, Stands
<1>2. Accepts(l, e)
  BY <1>1 DEF Accepts, AcceptsAgent, AcceptsCall, AcceptsChild
<1>3. CallSound(Append(l, e), n, "open")
  BY StageBegins, Kinds DEF Sound, CallSound
<1>4. QED
  BY <1>2, <1>3, CallOnly

\* It returns, or what it ended with is put on record.
LEMMA ResultAppended ==
  ASSUME NEW l \in Seq(EventType), NEW e \in EventType, NEW n \in Nat, NEW s, NEW m,
         Sound(l, n, s, m, "open"),
         e.type = "tool/result", e.id = <<"call", n>>
  PROVE  Accepts(l, e) /\ Sound(Append(l, e), n, s, m, "closed")
<1>1. OpenTool(l, <<"call", n>>)
  BY DEF Sound, CallSound, Stage, Stands, OpenTool, Open, Results
<1>2. Accepts(l, e)
  BY <1>1 DEF Accepts, AcceptsAgent, AcceptsCall, AcceptsChild
<1>3. CallSound(Append(l, e), n, "closed")
  BY StageEnds, Kinds DEF Sound, CallSound, Results
<1>4. QED
  BY <1>2, <1>3, CallOnly

\* After a step the next one can begin.
LEMMA NextStep ==
  ASSUME NEW l, NEW n \in Nat, Between(l, n)
  PROVE  Sound(l, n + 1, "fresh", "fresh", "fresh")
<1>1. PICK s \in Over, m \in Over, c \in Over : Sound(l, n, s, m, c)
  BY DEF Between
<1>2. StepSound(l, n + 1, "fresh") /\ CallSound(l, n + 1, "fresh")
  BY <1>1, StageNext DEF Sound, StepSound, CallSound
<1>3. Stage(l, n + 1, "model/request", Replies, "model", "fresh")
  BY <1>1, StageNext DEF Sound, ModelSound
<1>4. UpTo(l, {"request/header"}, "model", n + 1)
  <2>1. \A k \in 0..n : k \in 0..(n + 1)
    OBVIOUS
  <2>2. QED
    BY <1>1, <2>1 DEF Sound, ModelSound, UpTo
<1>5. ~Has(l, "request/header", <<"model", n + 1>>)
  <2>1. \A k \in 0..n : <<"model", k>> # <<"model", n + 1>>
    OBVIOUS
  <2>2. QED
    BY <1>1, <2>1 DEF Sound, ModelSound, UpTo, Has
<1>6. QED
  BY <1>1, <1>2, <1>3, <1>4, <1>5 DEF Sound, ModelSound

\* The turn ends when no step is open, and everything in it has ended.
LEMMA TurnStops ==
  ASSUME NEW l \in Seq(EventType), NEW e \in EventType, NEW n, Between(l, n),
         e.type = "turn/ended", e.id = Turn
  PROVE  Accepts(l, e) /\ Finished(Append(l, e))
<1>1. PICK s \in Over, m \in Over, c \in Over : Sound(l, n, s, m, c)
  BY DEF Between
<1>2. /\ Ended(l, "step/started", StepEnds, {})
      /\ Ended(l, "model/request", Replies, {})
      /\ Ended(l, "tool/call", Results, {})
  BY <1>1, StageOver DEF Sound, StepSound, ModelSound, CallSound
<1>3. Accepts(l, e)
  BY <1>1, <1>2 DEF Sound, TurnSound, OpenTurn, OpenStep, Open, Ended, StepEnds, Accepts,
                    AcceptsAgent, AcceptsCall, AcceptsChild
<1>4. /\ Ended(Append(l, e), "step/started", StepEnds, {})
      /\ Ended(Append(l, e), "model/request", Replies, {})
      /\ Ended(Append(l, e), "tool/call", Results, {})
  BY <1>2, EndedAppend
<1>5. Ended(Append(l, e), "turn/started", {"turn/ended"}, {})
  <2>1. Ended(l, "turn/started", {"turn/ended"}, {Turn})
    BY <1>1 DEF Sound, TurnSound, Ended
  <2>2. Ended(Append(l, e), "turn/started", {"turn/ended"}, {Turn})
    BY <2>1, EndedAppend
  <2>3. Has(Append(l, e), "turn/ended", Turn)
    BY HasAppend
  <2>4. QED
    BY <2>2, <2>3 DEF Ended
<1>6. QED
  BY <1>3, <1>4, <1>5 DEF Finished

\* A stream in which everything has ended can be closed.
LEMMA SessionStops ==
  ASSUME NEW l, NEW e, Finished(l), e.type = "session/ended"
  PROVE  Accepts(l, e)
<1>1. /\ ~AnyOpen(l, "turn/started", "turn/ended")
      /\ ~AnyOpen(l, "step/started", "step/ended")
      /\ ~AnyOpen(l, "tool/call", "tool/result")
  BY DEF Finished, Ended, AnyOpen, StepEnds, Results
<1>2. ASSUME NEW i \in DOMAIN l PROVE ~OpenModel(l, l[i].id)
  <2>1. ASSUME Has(l, "model/request", l[i].id)
        PROVE  Has(l, "model/response", l[i].id) \/ Has(l, "model/failure", l[i].id)
    BY <2>1 DEF Finished, Ended, Replies, Has
  <2>2. QED
    BY <2>1 DEF OpenModel
<1>3. QED
  BY <1>1, <1>2 DEF Accepts, AcceptsAgent, AcceptsCall, AcceptsChild

---------------------------------------------------------------------------
(* What an action emits.                                                    *)

\* The events of the runtime are events.
LEMMA EventsTyped ==
  ASSUME step \in Nat
  PROVE  /\ \A t \in EventNames : Note(t) \in EventType
         /\ \A t \in EventNames : \A num \in Nat : Model(t, num) \in EventType
         /\ \A t \in EventNames : \A tool \in Tools : Tool(t, tool) \in EventType
         /\ StepEnded \in EventType
         /\ \A k \in Nat : Event("step/started", Step(k), Turn, 0) \in EventType
         /\ Event("turn/started", Turn, NoRef, 0) \in EventType
         /\ Event("turn/ended", Turn, NoRef, 0) \in EventType
         /\ Event("session/ended", NoRef, NoRef, 0) \in EventType
<1>1. /\ Turn \in IdNames \X Nat /\ NoRef \in IdNames \X Nat
      /\ \A k \in Nat : Step(k) \in IdNames \X Nat
      /\ <<"model", step>> \in IdNames \X Nat /\ <<"call", step>> \in IdNames \X Nat
  BY DEF Turn, NoRef, Step, IdNames
<1>2. /\ \A x \in IdNames \X Nat : x \in (IdNames \cup Tools) \X Nat
      /\ \A tool \in Tools : <<tool, step>> \in (IdNames \cup Tools) \X Nat
  OBVIOUS
<1>3. \A t \in EventNames : \A x \in IdNames \X Nat : \A y \in (IdNames \cup Tools) \X Nat :
        \A num \in Nat : Event(t, x, y, num) \in EventType
  BY DEF Event, EventType
<1>4. {"step/ended", "step/started", "turn/started", "turn/ended", "session/ended"} \subseteq EventNames
  BY DEF EventNames
<1>5. QED
  BY <1>1, <1>2, <1>3, <1>4 DEF Note, Model, Tool, StepEnded

\* The fixed sequences.
LEMMA PhasesTyped ==
  ASSUME step \in Nat
  PROVE  /\ Opening \in Seq(EventType) /\ Opening # <<>>
         /\ Cataloguing \in Seq(EventType) /\ Cataloguing # <<>>
         /\ Closing \in Seq(EventType) /\ Closing # <<>>
         /\ \A x \in EventType : <<x>> \in Seq(EventType) /\ <<x>> # <<>>
         /\ \A x, y \in EventType : <<x, y>> \in Seq(EventType) /\ <<x, y>> # <<>>
         /\ \A x, y, z \in EventType : <<x, y, z>> \in Seq(EventType) /\ <<x, y, z>> # <<>>
<1>1. /\ \A x \in EventType : <<x>> \in Seq(EventType) /\ <<x>> # <<>>
      /\ \A x, y \in EventType : <<x, y>> \in Seq(EventType) /\ <<x, y>> # <<>>
      /\ \A x, y, z \in EventType : <<x, y, z>> \in Seq(EventType) /\ <<x, y, z>> # <<>>
  OBVIOUS
<1>2. {"session/header", "user/message", "plan/created", "tools/cataloged", "assistant/message"}
        \subseteq EventNames
  BY DEF EventNames
<1>3. QED
  BY <1>1, <1>2, EventsTyped DEF Opening, Cataloguing, Closing

\* The head and tail of the short sequences a phase appends.
LEMMA Shorter ==
  /\ \A x : Head(<<x>>) = x /\ Tail(<<x>>) = <<>>
  /\ \A x, y : Head(<<x, y>>) = x /\ Tail(<<x, y>>) = <<y>> /\ <<y>> # <<>>
  /\ \A x, y, z : Head(<<x, y, z>>) = x /\ Tail(<<x, y, z>>) = <<y, z>> /\ <<y, z>> # <<>>
OBVIOUS

Notes == {Note(t) : t \in Silent}

\* Notes, and then the end of the step.
LEMMA NotingJoined ==
  ASSUME NEW p \in Seq(Notes)
  PROVE  Noting(p \o <<Note("plan/revised"), StepEnded>>)
<1> DEFINE S == Notes \cup {StepEnded}
           q == p \o <<Note("plan/revised"), StepEnded>>
<1>1. Note("plan/revised") \in Notes
  BY DEF Notes, Silent
<1>2. \A x \in Notes : x # StepEnded
  BY DEF Notes, Silent, Note, StepEnded, Event
<1>3. p \in Seq(S) /\ \A i \in 1..Len(p) : p[i] \in Notes
  <2>1. p \in Seq(S)
    BY SeqMonotonic
  <2>2. QED
    BY <2>1, ElementOfSeq
<1>4. <<Note("plan/revised"), StepEnded>> \in Seq(S)
  BY <1>1
<1>5. /\ q \in Seq(S) /\ Len(q) = Len(p) + 2 /\ Len(p) \in Nat
      /\ \A i \in 1..Len(p) + 2 : q[i] = IF i <= Len(p) THEN p[i]
                                          ELSE <<Note("plan/revised"), StepEnded>>[i - Len(p)]
  BY <1>3, <1>4, ConcatProperties, LenProperties
<1> HIDE DEF q
<1>6. q[Len(q)] = StepEnded /\ q[Len(q) - 1] = Note("plan/revised")
  <2>1. Len(p) + 2 \in 1..Len(p) + 2 /\ Len(p) + 1 \in 1..Len(p) + 2
        /\ (Len(p) + 2) - Len(p) = 2 /\ (Len(p) + 1) - Len(p) = 1
        /\ ~(Len(p) + 2 <= Len(p)) /\ ~(Len(p) + 1 <= Len(p)) /\ Len(q) - 1 = Len(p) + 1
    BY <1>5
  <2>2. q[Len(p) + 2] = <<Note("plan/revised"), StepEnded>>[2]
        /\ q[Len(p) + 1] = <<Note("plan/revised"), StepEnded>>[1]
    BY <1>5, <2>1
  <2>3. QED
    BY <1>5, <2>1, <2>2
<1>7. \A i \in 1..(Len(q) - 1) : q[i] # StepEnded
  <2> TAKE i \in 1..(Len(q) - 1)
  <2>1. i \in 1..Len(p) \/ i = Len(q) - 1
    BY <1>5
  <2>2. CASE i \in 1..Len(p)
    BY <1>2, <1>3, <1>5, <2>2
  <2>3. CASE i = Len(q) - 1
    BY <1>1, <1>2, <1>6, <2>3
  <2>4. QED
    BY <2>1, <2>2, <2>3
<1>8. q # <<>>
  BY <1>5, EmptySeq
<1>9. QED
  BY <1>5, <1>6, <1>7, <1>8 DEF Noting, Notes, q

\* What is left of them.
LEMMA NotingTail ==
  ASSUME NEW q, Noting(q)
  PROVE  /\ Tail(q) = <<>> => Head(q) = StepEnded
         /\ Tail(q) # <<>> => Noting(Tail(q)) /\ Head(q) \in Notes
<1> DEFINE S == Notes \cup {StepEnded}
<1>1. q \in Seq(S) /\ q # <<>> /\ q[Len(q)] = StepEnded
      /\ \A i \in 1..(Len(q) - 1) : q[i] # StepEnded
  BY DEF Noting, Notes
<1>2. Head(q) = q[1] /\ Head(q) \in S /\ Tail(q) \in Seq(S) /\ Len(Tail(q)) = Len(q) - 1
      /\ \A i \in 1..Len(Tail(q)) : Tail(q)[i] = q[i + 1]
  BY <1>1, HeadTailProperties
<1>3. Len(q) \in Nat \ {0}
  BY <1>1, EmptySeq
<1>4. ASSUME Tail(q) = <<>> PROVE Head(q) = StepEnded
  <2> DEFINE rest == Tail(q)
  <2>1. Len(rest) = 0
    <3>1. rest = <<>> /\ rest \in Seq(S)
      BY <1>2, <1>4
    <3> HIDE DEF rest
    <3>2. QED
      BY <3>1, EmptySeq
  <2>2. Len(rest) = Len(q) - 1
    BY <1>2
  <2> HIDE DEF rest
  <2>3. Len(q) = 1
    BY <1>3, <2>1, <2>2
  <2>4. QED
    BY <1>1, <1>2, <2>3
<1>5. ASSUME Tail(q) # <<>> PROVE Noting(Tail(q)) /\ Head(q) \in Notes
  <2>1. Len(Tail(q)) \in Nat \ {0}
    BY <1>2, <1>5, EmptySeq
  <2>2. Tail(q)[Len(Tail(q))] = StepEnded
    BY <1>1, <1>2, <1>3, <2>1
  <2>3. \A i \in 1..(Len(Tail(q)) - 1) : Tail(q)[i] # StepEnded
    <3> TAKE i \in 1..(Len(Tail(q)) - 1)
    <3>1. i \in 1..Len(Tail(q)) /\ i + 1 \in 1..(Len(q) - 1)
      BY <1>2, <1>3, <2>1
    <3>2. QED
      BY <1>1, <1>2, <3>1
  <2>4. 1 \in 1..(Len(q) - 1)
    BY <1>2, <1>3, <2>1
  <2>5. QED
    BY <1>1, <1>2, <1>5, <2>2, <2>3, <2>4 DEF Noting, Notes
<1>6. QED
  BY <1>4, <1>5

\* What the planner decides: a tool it has not seen yet, for a portfolio
\* instruction the write itself.
LEMMA Planned ==
  ASSUME request \in Requests
  PROVE  /\ PlannedAction \in ActionType /\ PlannedAction.kind \in {"tool", "final", "clarify"}
         /\ PlannedAction.kind = "tool" =>
              /\ PlannedAction.tool \notin called
              /\ request.intent = "portfolio" => PlannedAction.tool = Write
<1> DEFINE w == request.wanted
           I == {i \in 1..Len(w) : w[i] \notin called}
           next == SelectInSeq(w, LAMBDA tool: tool \notin called)
<1>1. next = IF I # {} THEN Min(I) ELSE 0
  BY DEF SelectInSeq
<1>2. w \in Seq(Catalog) /\ (request.intent = "portfolio" => w = <<Write>>)
  <2>1. <<Write>> \in Seq(Catalog)
    BY RunAssumption
  <2>2. w = <<Write>> \/ (w \in Wanted /\ request.intent = "research")
    BY DEF Requests
  <2>3. QED
    BY <2>1, <2>2, RunAssumption
<1>3. next # 0 => w[next] \in Catalog /\ w[next] \notin called
  <2>1. I \subseteq Nat
    BY <1>2, LenProperties
  <2>2. next # 0 => next \in I
    BY <1>1, <2>1, MinOf
  <2>3. QED
    BY <1>2, <2>2, ElementOfSeq
<1>4. next # 0 /\ request.intent = "portfolio" => w[next] = Write
  <2>1. I \subseteq Nat
    BY <1>2, LenProperties
  <2>2. next # 0 => next \in I
    BY <1>1, <2>1, MinOf
  <2>3. QED
    BY <1>2, <2>2
<1>5. PlannedAction =
        IF request.intent = "portfolio" /\ ~request.complete
        THEN [NoAction EXCEPT !.kind = "clarify", !.mode = "local"]
        ELSE IF next = 0 THEN [NoAction EXCEPT !.kind = "final", !.mode = "local"]
        ELSE ToolAction(w[next], "planned", "local")
  BY DEF PlannedAction
<1> HIDE DEF next, w
<1>6. /\ [NoAction EXCEPT !.kind = "clarify", !.mode = "local"] \in ActionType
      /\ [NoAction EXCEPT !.kind = "final", !.mode = "local"] \in ActionType
      /\ [NoAction EXCEPT !.kind = "clarify", !.mode = "local"].kind = "clarify"
      /\ [NoAction EXCEPT !.kind = "final", !.mode = "local"].kind = "final"
  BY DEF NoAction, ActionType, Tools, Words
<1>7. \A tool \in Catalog : /\ ToolAction(tool, "planned", "local") \in ActionType
                            /\ ToolAction(tool, "planned", "local").kind = "tool"
                            /\ ToolAction(tool, "planned", "local").tool = tool
  BY DEF ToolAction, ActionType, Tools, Words
<1>8. QED
  BY <1>3, <1>4, <1>5, <1>6, <1>7

\* Whatever a model answers is an action.
LEMMA Answered ==
  ASSUME NEW answer \in ModelActions
  PROVE  answer \in ActionType
<1>1. \A kind \in {"final", "clarify"} :
        [NoAction EXCEPT !.kind = kind, !.mode = "model"] \in ActionType
  BY DEF NoAction, ActionType, Tools, Words
<1>2. \A tool \in Tools : \A argument \in Arguments :
        ToolAction(tool, argument, "model") \in ActionType
  BY DEF ToolAction, ActionType, Words
<1>3. QED
  BY <1>1, <1>2 DEF ModelActions, Tools

---------------------------------------------------------------------------
(* Types, phases and the plan, step by step.                                *)

\* The phases that append, and what they go on with.
LEMMA Continues ==
  /\ Emitting = DOMAIN Follows
  /\ Emitting = {"opening", "stepping", "asking", "failing", "noting", "calling", "closing"}
  /\ Follows["opening"] = {"preparing", "looping"} /\ Follows["stepping"] = {"choosing"}
  /\ Follows["asking"] = {"waiting", "acting", "fallback", "unanswered"}
  /\ Follows["failing"] = {"failed"} /\ Follows["noting"] = {"looping", "finishing"}
  /\ Follows["calling"] = {"invoking", "observing", "refused", "interrupted"}
  /\ Follows["closing"] = {"leaving"}
BY DEF Emitting, Follows

\* A phase that appends.
LEMMA Emits ==
  ASSUME NEW phase \in Emitting, NEW events \in Seq(EventType), events # <<>>,
         NEW next \in Follows[phase], Emit(phase, events, next)
  PROVE  Phases' /\ todo' \in Seq(EventType)
BY DEF Emit, Phases

\* A phase that appends nothing.
LEMMA Goes ==
  ASSUME NEW phase \in Quiet, NEW next, Emit(phase, <<>>, next)
  PROVE  Phases' /\ todo' \in Seq(EventType)
BY EmptySeq DEF Emit, Phases

\* Which phase an exception leads to.
LEMMA Raises ==
  ASSUME Raise
  PROVE  \/ /\ pc \in {"opening", "closing"} /\ Leave("raised")
            /\ UNCHANGED <<harness, called, ends, saved>>
         \/ /\ pc = "asking" /\ Emit("failing", <<StepEnded>>, "failed")
            /\ UNCHANGED <<harness, called, ends, saved, out>>
         \/ /\ pc = "calling" /\ Observed(FALSE) /\ UNCHANGED <<ends, saved, out>>
         \/ /\ pc \notin {"opening", "closing", "asking", "calling"}
            /\ Close("error") /\ UNCHANGED <<harness, called, out>>
BY DEF Raise, ToolFailed

\* Notes and the end of a step are events.
LEMMA NotingTyped ==
  ASSUME step \in Nat, NEW q, Noting(q)
  PROVE  q \in Seq(EventType) /\ q # <<>>
<1>1. Notes \cup {StepEnded} \subseteq EventType
  BY EventsTyped DEF Notes, Silent, EventNames
<1>2. QED
  BY <1>1, SeqMonotonic DEF Noting, Notes

\* What a call leaves: a harness that has learned, an observation, notes to append.
LEMMA ObservedLeaves ==
  ASSUME NEW ok \in BOOLEAN, Observed(ok), step \in Nat, harness \in HarnessType, step' = step
  PROVE  /\ harness' \in HarnessType
         /\ OneActive(harness.plan) => OneActive(harness'.plan)
         /\ harness.owner = "model" => harness'.plan = harness.plan
         /\ Noting(todo)' /\ todo' \in Seq(EventType) /\ Phases'
         /\ pc' = "noting" /\ after' = "looping" /\ called' = called \cup {action.tool}
<1> DEFINE noted == AfterTool(harness, action.tool, ok)
           first == IF Reminds(noted) THEN <<Note("loop/reminder")>> ELSE <<>>
           second == IF noted.promoted # noted.told THEN <<Note("tools/promoted")>> ELSE <<>>
           notes == first \o second \o <<Note("plan/revised"), StepEnded>>
<1>1. /\ noted \in HarnessType
      /\ OneActive(harness.plan) => OneActive(noted.plan)
      /\ harness.owner = "model" => noted.plan = harness.plan
  BY AfterToolKeeps
<1>2. /\ harness' = [noted EXCEPT !.told = noted.promoted]
      /\ called' = called \cup {action.tool}
      /\ pc' = "noting" /\ todo' = notes /\ after' = "looping"
  BY DEF Observed, Emit
<1>3. first \in Seq(Notes) /\ second \in Seq(Notes)
  <2>1. Note("loop/reminder") \in Notes /\ Note("tools/promoted") \in Notes
    BY DEF Notes, Silent
  <2>2. \A x \in Notes : <<x>> \in Seq(Notes)
    OBVIOUS
  <2>3. <<>> \in Seq(Notes)
    BY EmptySeq
  <2> HIDE DEF noted
  <2>4. QED
    BY <2>1, <2>2, <2>3
<1> HIDE DEF first, second, noted
<1>4. first \o second \in Seq(Notes)
  BY <1>3, ConcatProperties
<1>5. Noting(notes)
  BY <1>4, NotingJoined
<1>6. notes \in Seq(EventType) /\ notes # <<>>
  BY <1>5, NotingTyped
<1> HIDE DEF notes
<1>7. Noting(todo)'
  BY <1>2, <1>5 DEF Noting, StepEnded
<1>8. Phases'
  BY <1>2, <1>6 DEF Phases, Emitting, Follows
<1>9. harness' \in HarnessType /\ harness'.plan = noted.plan
  BY <1>1, <1>2 DEF HarnessType
<1>10. QED
  BY <1>1, <1>2, <1>6, <1>7, <1>8, <1>9

\* The harness of every step is one, with one item in progress at most; a plan
\* the model sent stays but for plan.update.
LEMMA HarnessStep ==
  ASSUME RunTypes, OneActive(harness.plan), [Next]_vars
  PROVE  /\ harness' \in HarnessType /\ OneActive(harness'.plan)
         /\ harness.owner = "model" /\ pc # "preparing" =>
              harness'.plan = harness.plan \/ action.tool = Update
<1> DEFINE Goal == /\ harness' \in HarnessType /\ OneActive(harness'.plan)
                   /\ harness.owner = "model" /\ pc # "preparing" =>
                        harness'.plan = harness.plan \/ action.tool = Update
<1>1. harness \in HarnessType /\ step \in Nat /\ action \in ActionType
  BY DEF RunTypes
<1>2. CASE UNCHANGED harness
  BY <1>1, <1>2
<1>3. ASSUME NEW ok \in BOOLEAN, Observed(ok), step' = step PROVE Goal
  BY <1>1, <1>3, ObservedLeaves
<1>4. CASE AppendRefused \/ AppendFails
  <2>1. Raise /\ step' = step
    BY <1>4 DEF AppendRefused, AppendFails
  <2>2. UNCHANGED harness \/ Observed(FALSE)
    BY <2>1, Raises
  <2>3. QED
    BY <1>2, <1>3, <2>1, <2>2
<1>5. CASE Prepare
  <2>1. PICK evidence \in Evidence : harness' = NewHarness(evidence)
    BY <1>5 DEF Prepare
  <2>2. evidence \in Catalog \cup {NoTool}
    BY RunAssumption
  <2>3. QED
    BY <1>5, <2>1, <2>2, NewHarnessSound DEF Prepare
<1>6. CASE CallTool \/ CallInvalid
  <2>1. Promoted \in HarnessType /\ Promoted.plan = harness.plan /\ Promoted.owner = harness.owner
    BY <1>1, PromoteKeeps DEF Promoted
  <2>2. action.tool \in Catalog /\ action.argument \in Words
        /\ harness' = BeforeTool(Promoted, action.tool, action.argument)
    BY <1>1, <1>6 DEF CallTool, CallInvalid, Allows, ActionType
  <2>3. QED
    BY <2>1, <2>2, BeforeToolKeeps
<1>7. CASE Refused \/ Observe
  <2>1. step' = step /\ \E ok \in BOOLEAN : Observed(ok)
    BY <1>7 DEF Refused, Observe, ToolFailed
  <2>2. QED
    BY <1>3, <2>1
<1>8. CASE ToolReturns
  <2>1. \/ UNCHANGED harness
        \/ \E found \in Discoveries(harness) : harness' = Promote(harness, found)
        \/ /\ action.tool = Update
           /\ \E items \in Plans : PlanAccepted(items) /\ harness' = ReplacePlan(harness, items)
    BY <1>8 DEF ToolReturns
  <2>2. CASE \E found \in Discoveries(harness) : harness' = Promote(harness, found)
    BY <1>1, <2>2, PromoteKeeps
  <2>3. CASE /\ action.tool = Update
             /\ \E items \in Plans : PlanAccepted(items) /\ harness' = ReplacePlan(harness, items)
    BY <1>1, <2>3, ReplacePlanKeeps
  <2>4. QED
    BY <1>2, <2>1, <2>2, <2>3
<1>9. \/ UNCHANGED harness \/ AppendRefused \/ AppendFails \/ Prepare \/ CallTool \/ CallInvalid
      \/ Refused \/ Observe \/ ToolReturns
  BY DEF vars, Next, Loop, AppendEvent, Cancel, Close, Leave, Interrupted, PrepareFails, StartStep,
         ChooseLocally, AskModel, ModelAnswers, ModelFails, Unanswered, Failed, Conclude, NameNoTool,
         Guarded, ToolRaises, Finish, Return
<1>10. QED
  BY <1>2, <1>4, <1>5, <1>6, <1>7, <1>8, <1>9

\* What no event is about stays what it was, and an action is one of those a
\* model or the planner can choose.
LEMMA PlainTypes ==
  ASSUME RunTypes, [Next]_vars
  PROVE  /\ request' = request /\ action' \in ActionType
         /\ step' \in Nat /\ writes' \in Nat /\ cancels' \in Nat /\ faults' \in Nat
<1>1. /\ request \in Requests /\ action \in ActionType /\ step \in Nat
      /\ writes \in Nat /\ cancels \in Nat /\ faults \in Nat
  BY DEF RunTypes
<1>2. request' = request
  BY DEF vars, still, Next, Loop, AppendEvent, AppendRefused, AppendFails, Cancel, Interrupted, Prepare,
         PrepareFails, StartStep, ChooseLocally, AskModel, ModelAnswers, ModelFails, Unanswered,
         Failed, Conclude, NameNoTool, Guarded, CallTool, CallInvalid, Refused, ToolReturns,
         ToolRaises, Observe, Finish, Return
<1>3. action' \in ActionType
  <2>1. CASE StartStep
    BY <2>1 DEF StartStep, NoAction, ActionType, Tools, Words
  <2>2. CASE ChooseLocally
    BY <1>1, <2>2, Planned DEF ChooseLocally, Choose
  <2>3. CASE ModelAnswers
    BY <2>3, Answered DEF ModelAnswers
  <2>4. \/ StartStep \/ ChooseLocally \/ ModelAnswers \/ UNCHANGED action
    BY DEF vars, Next, Loop, AppendEvent, AppendRefused, AppendFails, Cancel, Interrupted, Prepare,
           PrepareFails, AskModel, ModelFails, Unanswered, Failed, Conclude, NameNoTool, Guarded,
           CallTool, CallInvalid, Refused, ToolReturns, ToolRaises, Observe, Finish, Return
  <2>5. QED
    BY <1>1, <2>1, <2>2, <2>3, <2>4
<1>4. step' = step \/ step' = step + 1
  BY DEF vars, Next, Loop, AppendEvent, AppendRefused, AppendFails, Cancel, Interrupted, Prepare,
         PrepareFails, StartStep, ChooseLocally, AskModel, ModelAnswers, ModelFails, Unanswered,
         Failed, Conclude, NameNoTool, Guarded, CallTool, CallInvalid, Refused, ToolReturns,
         ToolRaises, Observe, Finish, Return
<1>5. /\ writes' = writes \/ \E effect \in {0, 1} : writes' = writes + effect
      /\ cancels' = cancels \/ cancels' = 1
      /\ faults' = faults \/ faults' = faults + 1
  BY DEF vars, still, Next, Loop, AppendEvent, AppendRefused, AppendFails, Cancel, Interrupted, Prepare,
         PrepareFails, StartStep, ChooseLocally, AskModel, ModelAnswers, ModelFails, Unanswered,
         Failed, Conclude, NameNoTool, Guarded, CallTool, CallInvalid, Refused, ToolReturns,
         ToolRaises, Observe, Finish, Return
<1>6. QED
  BY <1>1, <1>2, <1>3, <1>4, <1>5

\* The stream grows by events, and what is left to append belongs to the phase.
LEMMA StreamTypes ==
  ASSUME RunTypes, Phases, [Next]_vars
  PROVE  log' \in Seq(EventType) /\ todo' \in Seq(EventType) /\ Phases'
<1>1. /\ log \in Seq(EventType) /\ todo \in Seq(EventType) /\ step \in Nat
      /\ action \in ActionType /\ harness \in HarnessType
  BY DEF RunTypes
<1>2. /\ \A x \in EventType : <<x>> \in Seq(EventType) /\ <<x>> # <<>>
      /\ \A x, y \in EventType : <<x, y>> \in Seq(EventType) /\ <<x, y>> # <<>>
      /\ \A x, y, z \in EventType : <<x, y, z>> \in Seq(EventType) /\ <<x, y, z>> # <<>>
  BY <1>1, PhasesTyped
<1>3. StepEnded \in EventType
  BY <1>1, EventsTyped
<1> DEFINE Goal == log' \in Seq(EventType) /\ todo' \in Seq(EventType) /\ Phases'
<1>4. CASE AppendEvent
  <2>1. Head(todo) \in EventType /\ Tail(todo) \in Seq(EventType)
    BY <1>1, <1>4, HeadTailProperties DEF AppendEvent
  <2>2. log' \in Seq(EventType) /\ todo' \in Seq(EventType)
    BY <1>1, <1>4, <2>1, AppendProperties DEF AppendEvent
  <2>3. pc \in Emitting /\ after \in Follows[pc] /\ after \in Quiet
    BY <1>4 DEF AppendEvent, Phases, Emitting, Follows, Quiet
  <2>4. Phases'
    BY <1>4, <2>3 DEF AppendEvent, Phases
  <2>5. QED
    BY <2>2, <2>4
<1>5. ASSUME NEW kind, Close(kind) PROVE todo' \in Seq(EventType) /\ Phases'
  <2>1. Closing \in Seq(EventType) /\ Closing # <<>>
    BY <1>1, PhasesTyped
  <2>2. QED
    BY <1>5, <2>1, Emits, Continues DEF Close
<1>6. ASSUME NEW how, Leave(how) PROVE todo' \in Seq(EventType) /\ Phases'
  BY <1>6, Goes DEF Leave, Quiet
<1>7. ASSUME NEW ok \in BOOLEAN, Observed(ok), step' = step
      PROVE  todo' \in Seq(EventType) /\ Phases'
  BY <1>1, <1>7, ObservedLeaves
<1>8. CASE AppendRefused \/ AppendFails
  <2>1. Raise /\ step' = step /\ log' = log
    BY <1>8 DEF AppendRefused, AppendFails
  <2>2. ASSUME Emit("failing", <<StepEnded>>, "failed")
        PROVE  todo' \in Seq(EventType) /\ Phases'
    BY <1>2, <1>3, <2>2, Emits, Continues
  <2>3. \/ Leave("raised") \/ Close("error") \/ Observed(FALSE)
        \/ Emit("failing", <<StepEnded>>, "failed")
    BY <2>1, Raises
  <2>4. todo' \in Seq(EventType) /\ Phases'
    BY <1>5, <1>6, <1>7, <2>1, <2>2, <2>3
  <2>5. QED
    BY <1>1, <2>1, <2>4
<1>9. CASE Cancel
  <2>1. ASSUME Emit("calling", <<Tool("tool/result", action.tool)>>, "interrupted")
        PROVE  todo' \in Seq(EventType) /\ Phases'
    <3>1. Tool("tool/result", action.tool) \in EventType
      BY <1>1, EventsTyped DEF EventNames, ActionType
    <3>2. QED
      BY <1>2, <2>1, <3>1, Emits, Continues
  <2>2. /\ log' = log
        /\ \/ Leave("cancelled") \/ Close("cancel")
           \/ Emit("calling", <<Tool("tool/result", action.tool)>>, "interrupted")
    BY <1>9 DEF Cancel
  <2>3. QED
    BY <1>1, <1>5, <1>6, <2>1, <2>2
<1>10. CASE Interrupted \/ Failed
  <2>1. log' = log /\ \E kind : Close(kind)
    BY <1>10 DEF Interrupted, Failed
  <2>2. QED
    BY <1>1, <1>5, <2>1
<1>11. CASE PrepareFails \/ Return
  <2>1. log' = log /\ \E how : Leave(how)
    BY <1>11 DEF PrepareFails, Return
  <2>2. QED
    BY <1>1, <1>6, <2>1
<1>12. CASE Prepare
  <2>1. log' = log /\ Emit("opening", Cataloguing, "looping")
    BY <1>12 DEF Prepare
  <2>2. QED
    BY <1>1, <2>1, Emits, Continues, PhasesTyped
<1>13. CASE StartStep
  <2>1. log' = log /\ step' = step + 1
        /\ Emit("stepping", <<Event("step/started", Step(step'), Turn, 0)>>, "choosing")
    BY <1>13 DEF StartStep
  <2>2. Event("step/started", Step(step'), Turn, 0) \in EventType
    BY <1>1, <2>1, EventsTyped
  <2>3. QED
    BY <1>1, <1>2, <2>1, <2>2, Emits, Continues
<1>14. CASE ChooseLocally
  BY <1>1, <1>14, Goes DEF ChooseLocally, Choose, Quiet
<1>15. CASE AskModel
  <2>1. Model("request/header", 0) \in EventType /\ Model("model/request", Len(log) + 1) \in EventType
    BY <1>1, EventsTyped, LenProperties DEF EventNames
  <2>2. log' = log
        /\ Emit("asking", <<Model("request/header", 0), Model("model/request", Len(log) + 1)>>, "waiting")
    BY <1>15 DEF AskModel
  <2>3. QED
    BY <1>1, <1>2, <2>1, <2>2, Emits, Continues
<1>16. CASE ModelAnswers \/ ModelFails
  <2>1. Model("model/response", 0) \in EventType /\ Model("model/failure", 0) \in EventType
    BY <1>1, EventsTyped DEF EventNames
  <2>2. log' = log /\ \E x \in EventType : \E next \in {"acting", "fallback", "unanswered"} :
                        Emit("asking", <<x>>, next)
    BY <1>16, <2>1 DEF ModelAnswers, ModelFails
  <2>3. QED
    BY <1>1, <1>2, <2>2, Emits, Continues
<1>17. CASE Unanswered \/ NameNoTool
  <2>1. log' = log /\ Emit("failing", <<StepEnded>>, "failed")
    BY <1>17 DEF Unanswered, NameNoTool
  <2>2. QED
    BY <1>1, <1>2, <1>3, <2>1, Emits, Continues
<1>18. CASE Conclude
  <2>1. log' = log /\ Emit("noting", <<StepEnded>>, "finishing")
    BY <1>18 DEF Conclude
  <2>2. QED
    BY <1>1, <1>2, <1>3, <2>1, Emits, Continues
<1>19. CASE Guarded
  <2>1. log' = log
        /\ Emit("noting", <<Note("loop/guarded"), Note("plan/revised"), StepEnded>>, "looping")
    BY <1>19 DEF Guarded
  <2>2. Note("loop/guarded") \in EventType /\ Note("plan/revised") \in EventType
    BY <1>1, EventsTyped DEF EventNames
  <2>3. QED
    BY <1>1, <1>2, <1>3, <2>1, <2>2, Emits, Continues
<1>20. CASE CallTool
  <2>1. log' = log
        /\ Emit("calling", <<Note("policy/decision"), Tool("tool/call", action.tool)>>, "invoking")
    BY <1>20 DEF CallTool
  <2>2. Note("policy/decision") \in EventType /\ Tool("tool/call", action.tool) \in EventType
    BY <1>1, EventsTyped DEF EventNames, ActionType
  <2>3. QED
    BY <1>1, <1>2, <2>1, <2>2, Emits, Continues
<1>21. CASE CallInvalid
  BY <1>1, <1>21, Goes DEF CallInvalid, Quiet
<1>22. CASE Refused \/ Observe
  <2>1. log' = log /\ step' = step /\ \E ok \in BOOLEAN : Observed(ok)
    BY <1>22 DEF Refused, Observe, ToolFailed
  <2>2. QED
    BY <1>1, <1>7, <2>1
<1>23. CASE ToolReturns \/ ToolRaises
  <2>1. Tool("tool/result", action.tool) \in EventType
    BY <1>1, EventsTyped DEF EventNames, ActionType
  <2>2. log' = log /\ \E next \in {"observing", "refused"} :
                        Emit("calling", <<Tool("tool/result", action.tool)>>, next)
    BY <1>23 DEF ToolReturns, ToolRaises
  <2>3. QED
    BY <1>1, <1>2, <2>1, <2>2, Emits, Continues
<1>24. CASE Finish
  <2>1. Closing \in Seq(EventType) /\ Closing # <<>>
    BY <1>1, PhasesTyped
  <2>2. log' = log /\ (Emit("closing", Closing, "leaving") \/ Close("error"))
    BY <1>24 DEF Finish
  <2>3. QED
    BY <1>1, <1>5, <2>1, <2>2, Emits, Continues
<1>25. CASE UNCHANGED vars
  BY <1>1, <1>25 DEF vars, Phases
<1>26. QED
  BY <1>4, <1>8, <1>9, <1>10, <1>11, <1>12, <1>13, <1>14, <1>15, <1>16, <1>17, <1>18, <1>19,
     <1>20, <1>21, <1>22, <1>23, <1>24, <1>25 DEF Next, Loop

\* The types and the phases are kept by every step.
LEMMA TypesStep ==
  ASSUME RunTypes, Phases, OneActive(harness.plan), [Next]_vars
  PROVE  RunTypes' /\ Phases' /\ OneActive(harness'.plan)
BY PlainTypes, HarnessStep, StreamTypes DEF RunTypes

\* They hold at the start.
LEMMA TypesInit ==
  ASSUME Init
  PROVE  RunTypes /\ Phases /\ OneActive(harness.plan)
<1>1. step \in Nat /\ writes \in Nat /\ cancels \in Nat /\ faults \in Nat
  BY DEF Init
<1>2. Opening \in Seq(EventType) /\ Opening # <<>> /\ <<>> \in Seq(EventType)
  BY <1>1, PhasesTyped, EmptySeq
<1>3. NoAction \in ActionType
  BY DEF NoAction, ActionType, Tools, Words
<1>4. NewHarness(NoTool) \in HarnessType /\ OneActive(NewHarness(NoTool).plan)
  BY NewHarnessSound
<1>5. QED
  BY <1>1, <1>2, <1>3, <1>4 DEF Init, RunTypes, Phases, Emitting, Follows

---------------------------------------------------------------------------
(* The portfolio write.                                                     *)

\* Every step keeps count of the write: it is made in the call of a step that had
\* not seen it, and what was made is observed or the run is over.
LEMMA WriteStep ==
  ASSUME RunTypes, Phases, WriteInv, [Next]_vars
  PROVE  WriteInv'
<1>1. SUFFICES ASSUME request.intent = "portfolio"
               PROVE  WriteInv'
  BY PlainTypes DEF WriteInv
<1>2. /\ pc \notin {"asking", "waiting", "fallback", "unanswered"}
      /\ pc = "acting" /\ action.kind = "tool" => action.tool = Write /\ Write \notin called
      /\ pc \in {"calling", "invoking", "observing", "refused"} => action.tool = Write
      /\ Before => Write \notin called
      /\ writes <= 1
      /\ writes = 0 \/ Write \in called \/ Underway \/ pc \in {"closing", "leaving", "gone"}
  BY <1>1 DEF WriteInv
<1>3. /\ request \in Requests /\ writes \in Nat /\ step \in Nat /\ harness \in HarnessType
      /\ action \in ActionType
  BY DEF RunTypes
<1>4. ASSUME UNCHANGED <<action, called, writes>>, pc' \in {"closing", "leaving", "gone"}
      PROVE  WriteInv'
  BY <1>2, <1>4 DEF WriteInv, Before, Underway
<1>5. ASSUME UNCHANGED <<action, writes>>, pc = "calling" \/ pc = "refused" \/ pc = "observing",
             called' = called \cup {action.tool}, pc' = "noting"
      PROVE  WriteInv'
  BY <1>2, <1>5 DEF WriteInv, Before, Underway
<1>6. CASE AppendEvent
  <2>1. /\ UNCHANGED <<action, called, writes, after>> /\ pc \in Emitting /\ after \in Follows[pc]
        /\ pc' = pc \/ pc' = after
    BY <1>6 DEF AppendEvent, Phases, still
  <2>2. CASE pc' = pc
    BY <1>2, <2>1, <2>2 DEF WriteInv, Before, Underway
  <2>3. CASE pc' = after /\ pc = "calling"
    BY <1>2, <2>1, <2>3, Continues DEF WriteInv, Before, Underway
  <2>4. CASE pc' = after /\ pc # "calling"
    <3>1. pc' \in {"preparing", "looping", "choosing", "failed", "finishing", "leaving"}
      BY <1>2, <2>1, <2>4, Continues
    <3>2. ~Underway /\ (pc = "closing" => pc' = "leaving")
      BY <2>1, <2>4, Continues DEF Underway
    <3>3. QED
      BY <1>2, <2>1, <3>1, <3>2, Continues DEF WriteInv, Before, Underway
  <2>5. QED
    BY <2>1, <2>2, <2>3, <2>4
<1>7. CASE AppendRefused \/ AppendFails
  <2>1. Raise /\ UNCHANGED <<action, writes, step>>
    BY <1>7 DEF AppendRefused, AppendFails, still
  <2>2. CASE Leave("raised") /\ UNCHANGED called
    BY <1>4, <2>1, <2>2 DEF Leave, Emit
  <2>3. CASE Close("error") /\ UNCHANGED called
    BY <1>4, <2>1, <2>3 DEF Close, Emit
  <2>4. CASE pc = "calling" /\ Observed(FALSE)
    BY <1>3, <1>5, <2>1, <2>4, ObservedLeaves
  <2>5. QED
    BY <1>2, <2>1, <2>2, <2>3, <2>4, Raises
<1>8. CASE Cancel
  <2>1. UNCHANGED <<action, called, writes>>
    BY <1>8 DEF Cancel
  <2>2. CASE pc = "invoking" /\ pc' = "calling" /\ after' = "interrupted"
    BY <1>2, <2>1, <2>2 DEF WriteInv, Before, Underway
  <2>3. pc' \in {"gone", "closing"} \/ (pc = "invoking" /\ pc' = "calling" /\ after' = "interrupted")
    BY <1>8 DEF Cancel, Leave, Close, Emit
  <2>4. QED
    BY <1>4, <2>1, <2>2, <2>3
<1>9. CASE Interrupted \/ Failed \/ PrepareFails \/ Return \/ Finish
  <2>1. UNCHANGED <<action, called, writes>> /\ pc' \in {"closing", "gone"}
    BY <1>9 DEF Interrupted, Failed, PrepareFails, Return, Finish, Close, Leave, Emit, still
  <2>2. QED
    BY <1>4, <2>1
<1>10. ASSUME UNCHANGED <<called, writes>>, ~Underway, pc \notin {"closing", "leaving", "gone"},
              pc' \notin {"asking", "waiting", "fallback", "unanswered", "acting", "calling",
                          "invoking", "observing", "refused"}
       PROVE  WriteInv'
  BY <1>2, <1>10 DEF WriteInv, Before, Underway
<1>11. CASE Prepare \/ StartStep
  <2>1. UNCHANGED <<called, writes>> /\ pc \in {"preparing", "looping"} /\ pc' \in {"opening", "stepping"}
    BY <1>11 DEF Prepare, StartStep, Emit, still
  <2>2. QED
    BY <1>10, <2>1 DEF Underway
<1>12. CASE ChooseLocally
  <2>1. /\ UNCHANGED <<called, writes>> /\ action' = PlannedAction /\ pc' = "acting"
        /\ pc \in {"choosing", "fallback"}
    BY <1>12 DEF ChooseLocally, Choose, Emit, still
  <2>2. PlannedAction.kind = "tool" => PlannedAction.tool = Write /\ Write \notin called
    BY <1>1, <1>3, Planned
  <2>3. QED
    BY <1>2, <2>1, <2>2 DEF WriteInv, Before, Underway
<1>13. CASE AskModel \/ ModelAnswers \/ ModelFails \/ Unanswered
  BY <1>1, <1>2, <1>13 DEF AskModel, ModelAnswers, ModelFails, Unanswered
<1>14. CASE Conclude \/ NameNoTool
  <2>1. UNCHANGED <<called, writes>> /\ pc = "acting" /\ pc' \in {"noting", "failing"}
    BY <1>14 DEF Conclude, NameNoTool, Emit, still
  <2>2. QED
    BY <1>10, <2>1 DEF Underway
<1>15. CASE Guarded
  <2>1. /\ UNCHANGED <<action, writes>> /\ pc = "acting" /\ action.kind = "tool" /\ pc' = "noting"
        /\ called' = called \cup {action.tool}
    BY <1>15 DEF Guarded, Emit, still
  <2>2. QED
    BY <1>2, <2>1 DEF WriteInv, Before, Underway
<1>16. CASE CallTool
  <2>1. /\ UNCHANGED <<action, called, writes>> /\ pc = "acting" /\ action.kind = "tool"
        /\ pc' = "calling" /\ after' = "invoking"
    BY <1>16 DEF CallTool, Emit, still
  <2>2. QED
    BY <1>2, <2>1 DEF WriteInv, Before, Underway
<1>17. CASE CallInvalid
  <2>1. /\ UNCHANGED <<action, called, writes>> /\ pc = "acting" /\ action.kind = "tool"
        /\ pc' = "refused"
    BY <1>17 DEF CallInvalid, Emit, still
  <2>2. QED
    BY <1>2, <2>1 DEF WriteInv, Before, Underway
<1>18. CASE Refused \/ Observe
  <2>1. /\ UNCHANGED <<action, writes, step>> /\ pc \in {"refused", "observing"}
        /\ \E ok \in BOOLEAN : Observed(ok)
    BY <1>18 DEF Refused, Observe, ToolFailed, still
  <2>2. QED
    BY <1>3, <1>5, <2>1, ObservedLeaves
<1>19. CASE ToolReturns \/ ToolRaises
  <2>1. /\ UNCHANGED <<action, called>> /\ pc = "invoking" /\ pc' = "calling"
        /\ after' \in {"observing", "refused"}
        /\ \E effect \in {0, 1} : writes' = writes + effect
    BY <1>3, <1>19 DEF ToolReturns, ToolRaises, Emit
  <2>2. writes = 0
    BY <1>2, <2>1 DEF Before, Underway
  <2>3. writes' <= 1
    BY <2>1, <2>2
  <2>4. QED
    BY <1>2, <2>1, <2>3 DEF WriteInv, Before, Underway
<1>20. CASE UNCHANGED vars
  BY <1>2, <1>20 DEF vars, WriteInv, Before, Underway
<1>21. QED
  BY <1>6, <1>7, <1>8, <1>9, <1>11, <1>12, <1>13, <1>14, <1>15, <1>16, <1>17, <1>18, <1>19, <1>20
     DEF Next, Loop

\* What the proofs of the write and of the plan keep.
StepInv == RunTypes /\ Phases /\ OneActive(harness.plan) /\ WriteInv

LEMMA StepsKept == Spec => []StepInv
<1>1. Init => StepInv
  BY TypesInit DEF Init, StepInv, WriteInv, Before
<1>2. StepInv /\ [Next]_vars => StepInv'
  BY TypesStep, WriteStep DEF StepInv
<1>3. QED
  BY <1>1, <1>2, PTL DEF Spec

\* A portfolio instruction is carried out at most once, although the planner
\* decides anew at every step and a write that was made may be reported as an error
\* (_deterministic_action, _execute_tool, _observe).
THEOREM WrittenOnce == Spec => []WriteOnce
<1>1. StepInv => WriteOnce
  BY DEF StepInv, WriteInv, WriteOnce
<1>2. QED
  BY <1>1, StepsKept, PTL

\* The plan shown has one item in progress at most, and the one a model has sent
\* changes by plan.update alone (replace_plan, before_tool, after_tool).
THEOREM PlanStaysOrderly == Spec => PlanIsOrderly
<1>1. StepInv /\ [Next]_vars
      => [/\ Cardinality(Active(harness'.plan)) <= 1
          /\ harness.owner = "model" /\ pc # "preparing" =>
               harness'.plan = harness.plan \/ action.tool = Update]_vars
  <2> SUFFICES ASSUME StepInv, Next
               PROVE  /\ Cardinality(Active(harness'.plan)) <= 1
                      /\ harness.owner = "model" /\ pc # "preparing" =>
                           harness'.plan = harness.plan \/ action.tool = Update
    OBVIOUS
  <2>1. /\ harness' \in HarnessType /\ OneActive(harness'.plan)
        /\ harness.owner = "model" /\ pc # "preparing" =>
             harness'.plan = harness.plan \/ action.tool = Update
    BY HarnessStep DEF StepInv
  <2>2. harness'.plan \in Seq(ItemType)
    BY <2>1 DEF HarnessType
  <2>3. Cardinality(Active(harness'.plan)) <= 1
    BY <2>1, <2>2, ActiveCount
  <2>4. QED
    BY <2>1, <2>3
<1>2. QED
  BY <1>1, StepsKept, PTL DEF Spec, PlanIsOrderly

---------------------------------------------------------------------------
(* The end of a run.                                                        *)

\* The sequences of the opening and the closing, event by event.
LEMMA ClosingIs ==
  LET ended == Event("turn/ended", Turn, NoRef, 0)
      last  == Event("session/ended", NoRef, NoRef, 0)
  IN  /\ Closing = <<Note("assistant/message"), ended, last>>
      /\ Tail(Closing) = <<ended, last>> /\ Tail(Tail(Closing)) = <<last>>
      /\ Tail(Tail(Tail(Closing))) = <<>>
      /\ Head(Closing) = Note("assistant/message") /\ Head(Tail(Closing)) = ended
      /\ Head(Tail(Tail(Closing))) = last
      /\ Tail(Closing) # <<>> /\ Tail(Tail(Closing)) # <<>>
BY Shorter DEF Closing

\* A run that is still going has not returned.
LEMMA GoesOn ==
  ASSUME Phases, Next
  PROVE  pc # "gone"
BY DEF Phases, Emitting, Next, Loop, AppendEvent, AppendRefused, AppendFails, Cancel, Interrupted,
       Prepare, PrepareFails, StartStep, ChooseLocally, AskModel, ModelAnswers, ModelFails,
       Unanswered, Failed, Conclude, NameNoTool, Guarded, CallTool, CallInvalid, Refused,
       ToolReturns, ToolRaises, Observe, Finish, Return

\* The finally clause appends the rest of the closing, whose last event the stream
\* ends with, and investment-run.json says how the run ended.
LEMMA ClosesStep ==
  ASSUME RunTypes, Phases, Closes, [Next]_vars
  PROVE  Closes'
<1>1. CASE UNCHANGED vars
  BY <1>1 DEF vars, Closes, Closed, Reported
<1>2. SUFFICES ASSUME Next PROVE Closes'
  BY <1>1
<1>3. pc # "gone" /\ out # "returned"
  BY <1>2, GoesOn DEF Closes
<1>4. log \in Seq(EventType) /\ todo \in Seq(EventType) /\ step \in Nat /\ harness \in HarnessType
  BY DEF RunTypes
<1>5. ASSUME pc' \notin {"closing", "leaving"}, out' # "returned"
      PROVE  Closes'
  BY <1>5 DEF Closes
<1>6. ASSUME NEW kind \in {"error", "cancel"}, Close(kind), out' = out
      PROVE  Closes'
  BY <1>3, <1>6 DEF Closes, Reported, Close, Emit
<1>7. ASSUME NEW how \in {"raised", "cancelled"}, Leave(how)
      PROVE  Closes'
  BY <1>7 DEF Closes, Leave, Emit
<1>8. CASE AppendEvent
  <2>1. /\ UNCHANGED <<after, action, ends, saved, out>> /\ todo # <<>>
        /\ log' = Append(log, Head(todo)) /\ todo' = Tail(todo)
        /\ pc' = IF Tail(todo) = <<>> THEN after ELSE pc
    BY <1>8 DEF AppendEvent
  <2>2. pc \in Emitting /\ after \in Follows[pc]
    BY <2>1 DEF Phases
  <2>3. CASE pc # "closing"
    <3>1. pc' \notin {"closing", "leaving"}
      BY <2>1, <2>2, <2>3, Continues
    <3>2. QED
      BY <1>3, <1>5, <2>1, <3>1
  <2>4. CASE pc = "closing"
    <3>1. after = "leaving" /\ todo \in {Closing, Tail(Closing), Tail(Tail(Closing))}
          /\ (ends = "cancel" \/ Reported)
      BY <2>2, <2>4, Continues DEF Closes
    <3>2. ends' = "cancel" \/ Reported'
      BY <2>1, <3>1 DEF Reported
    <3>3. CASE todo # Tail(Tail(Closing))
      <4>1. Tail(todo) \in {Tail(Closing), Tail(Tail(Closing))} /\ Tail(todo) # <<>>
        BY <3>1, <3>3, ClosingIs
      <4>2. pc' = "closing" /\ todo' \in {Closing, Tail(Closing), Tail(Tail(Closing))}
        BY <2>1, <2>4, <4>1
      <4>3. QED
        BY <1>3, <2>1, <3>2, <4>2 DEF Closes, Closing, Note, Event, Turn, NoRef
    <3>4. CASE todo = Tail(Tail(Closing))
      <4>1. Head(todo) = Event("session/ended", NoRef, NoRef, 0) /\ Tail(todo) = <<>>
        BY <3>4, ClosingIs
      <4>2. Head(todo) \in EventType
        BY <1>4, <2>1, HeadTailProperties
      <4>3. log'[Len(log')] = Head(todo)
        BY <1>4, <2>1, <4>2, Appended
      <4>4. Closed'
        BY <4>1, <4>3 DEF Closed, Last, Event
      <4>5. pc' = "leaving"
        BY <2>1, <3>1, <4>1
      <4>6. QED
        BY <1>3, <2>1, <3>2, <4>4, <4>5 DEF Closes
    <3>5. QED
      BY <3>3, <3>4
  <2>5. QED
    BY <2>3, <2>4
<1>9. CASE AppendRefused \/ AppendFails
  <2>1. Raise /\ step' = step
    BY <1>9 DEF AppendRefused, AppendFails
  <2>2. CASE pc = "asking" /\ Emit("failing", <<StepEnded>>, "failed") /\ out' = out
    BY <1>3, <1>5, <2>2 DEF Emit
  <2>3. CASE Observed(FALSE) /\ out' = out
    BY <1>3, <1>4, <1>5, <2>1, <2>3, ObservedLeaves
  <2>4. QED
    BY <1>6, <1>7, <2>1, <2>2, <2>3, Raises
<1>10. CASE Cancel
  <2>1. CASE pc' = "calling" /\ out' = out
    BY <1>3, <1>5, <2>1
  <2>2. Leave("cancelled") \/ (Close("cancel") /\ out' = out) \/ (pc' = "calling" /\ out' = out)
    BY <1>10 DEF Cancel, Emit
  <2>3. QED
    BY <1>6, <1>7, <2>1, <2>2
<1>11. CASE Interrupted \/ Failed
  BY <1>6, <1>11 DEF Interrupted, Failed
<1>12. CASE PrepareFails
  BY <1>7, <1>12 DEF PrepareFails
<1>13. CASE Refused \/ Observe
  <2>1. out' = out /\ step' = step /\ \E ok \in BOOLEAN : Observed(ok)
    BY <1>13 DEF Refused, Observe, ToolFailed
  <2>2. QED
    BY <1>3, <1>4, <1>5, <2>1, ObservedLeaves
<1>14. CASE Finish
  <2>1. CASE Close("error") /\ out' = out
    BY <1>6, <2>1
  <2>2. CASE /\ Emit("closing", Closing, "leaving") /\ ends' = "none" /\ action' = action /\ out' = out
             /\ saved' = IF action.kind = "clarify" THEN "needs_input" ELSE "succeeded"
    BY <1>3, <2>2 DEF Closes, Reported, Emit
  <2>3. QED
    BY <1>14, <2>1, <2>2 DEF Finish
<1>15. CASE Return
  BY <1>15 DEF Return, Leave, Emit, Closes, Closed, Reported
<1>16. CASE \/ Prepare \/ StartStep \/ ChooseLocally \/ AskModel \/ ModelAnswers \/ ModelFails
            \/ Unanswered \/ Conclude \/ NameNoTool \/ Guarded \/ CallTool \/ CallInvalid
            \/ ToolReturns \/ ToolRaises
  <2>1. out' = out /\ pc' \notin {"closing", "leaving"}
    BY <1>16 DEF Prepare, StartStep, ChooseLocally, Choose, AskModel, ModelAnswers, ModelFails,
                 Unanswered, Conclude, NameNoTool, Guarded, CallTool, CallInvalid, ToolReturns,
                 ToolRaises, Emit
  <2>2. QED
    BY <1>3, <1>5, <2>1
<1>17. QED
  BY <1>2, <1>8, <1>9, <1>10, <1>11, <1>12, <1>13, <1>14, <1>15, <1>16 DEF Next, Loop

---------------------------------------------------------------------------
(* The stream of an undisturbed run, one appended event at a time.          *)

\* The opening and the cataloguing, event by event.
LEMMA OpeningIs ==
  LET started == Event("turn/started", Turn, NoRef, 0)
      asked   == Note("user/message")
      told    == Note("tools/cataloged")
  IN  /\ Head(Opening) = Note("session/header") /\ Tail(Opening) # <<>>
      /\ Head(Tail(Opening)) = started /\ Tail(Tail(Opening)) # <<>>
      /\ Head(Tail(Tail(Opening))) = asked /\ Tail(Tail(Tail(Opening))) = <<>>
      /\ Head(Cataloguing) = Note("plan/created") /\ Tail(Cataloguing) # <<>>
      /\ Head(Tail(Cataloguing)) = told /\ Tail(Tail(Cataloguing)) = <<>>
BY Shorter DEF Opening, Cataloguing

LEMMA Appending ==
  ASSUME RunTypes, Phases, todo # <<>>
  PROVE  /\ Head(todo) \in EventType /\ log \in Seq(EventType)
         /\ pc \in Emitting /\ after \in Follows[pc]
         /\ step \in Nat
<1>1. Head(todo) \in EventType
  BY HeadTailProperties DEF RunTypes
<1>2. QED
  BY <1>1 DEF RunTypes, Phases

\* The header, the turn's start and the user's message.
LEMMA OpeningAppend ==
  ASSUME RunTypes, Phases, Table, todo # <<>>, pc = "opening", after = "preparing"
  PROVE  /\ Accepts(log, Head(todo)) /\ Head(todo).type # "plan/created"
         /\ AppendEvent => Table'
<1> DEFINE e == Head(todo)
           l == Append(log, e)
<1>1. e \in EventType /\ log \in Seq(EventType) /\ step \in Nat
  BY Appending
<1>2. \/ todo \in {Opening, Tail(Opening)} /\ Blank(log)
      \/ todo = Tail(Tail(Opening)) /\ Sound(log, step, "fresh", "fresh", "fresh")
  BY DEF Table, Opened
<1>3. AppendEvent => /\ log' = l /\ todo' = Tail(todo) /\ step' = step /\ after' = after
                     /\ pc' = IF Tail(todo) = <<>> THEN after ELSE pc
  BY DEF AppendEvent
<1>4. CASE todo = Opening /\ Blank(log)
  <2>1. e = Note("session/header") /\ Tail(todo) # <<>>
    BY <1>4, OpeningIs
  <2>2. e.type = "session/header"
    BY <2>1 DEF Note, Event
  <2>3. Accepts(log, e)
    BY <1>1, <2>2, UncheckedAppended DEF Unchecked
  <2>4. Blank(l)
    BY <1>1, <1>4, <2>2, Appended DEF Blank
  <2>5. AppendEvent => todo' = Tail(Opening) /\ Blank(log') /\ pc' = "opening" /\ after' = "preparing"
    BY <1>3, <1>4, <2>1, <2>4
  <2>6. AppendEvent => Table'
    BY <2>5 DEF Table, Opened, Prepared, Stepping, Asking, Calling, Ending
  <2>7. QED
    BY <2>2, <2>3, <2>6
<1>5. CASE todo = Tail(Opening) /\ Blank(log)
  <2>1. e = Event("turn/started", Turn, NoRef, 0) /\ Tail(todo) # <<>>
    BY <1>5, OpeningIs
  <2>2. e.type = "turn/started" /\ e.id = Turn
    BY <2>1 DEF Event
  <2>3. Accepts(log, e) /\ Sound(l, step, "fresh", "fresh", "fresh")
    BY <1>1, <1>5, <2>2, TurnStarts
  <2>4. AppendEvent => /\ todo' = Tail(Tail(Opening)) /\ pc' = "opening" /\ after' = "preparing"
                       /\ Sound(log', step', "fresh", "fresh", "fresh")
    BY <1>3, <1>5, <2>1, <2>3
  <2>5. AppendEvent => Table'
    BY <2>4 DEF Table, Opened, Prepared, Stepping, Asking, Calling, Ending
  <2>6. QED
    BY <2>2, <2>3, <2>5
<1>6. CASE todo = Tail(Tail(Opening)) /\ Sound(log, step, "fresh", "fresh", "fresh")
  <2>1. e = Note("user/message") /\ Tail(todo) = <<>>
    BY <1>6, OpeningIs
  <2>2. e.type = "user/message"
    BY <2>1 DEF Note, Event
  <2>3. Accepts(log, e) /\ Sound(l, step, "fresh", "fresh", "fresh")
    BY <1>1, <1>6, <2>2, UncheckedAppended DEF Unchecked
  <2>4. AppendEvent => pc' = "preparing" /\ Sound(log', step', "fresh", "fresh", "fresh")
    BY <1>3, <2>1, <2>3
  <2>5. AppendEvent => Table'
    BY <2>4 DEF Table, Opened, Prepared, Stepping, Asking, Calling, Ending
  <2>6. QED
    BY <2>2, <2>3, <2>5
<1>7. QED
  BY <1>2, <1>4, <1>5, <1>6

\* The plan and the catalog.
LEMMA CataloguingAppend ==
  ASSUME RunTypes, Phases, Table, todo # <<>>, pc = "opening", after = "looping"
  PROVE  Accepts(log, Head(todo)) /\ (AppendEvent => Table')
<1> DEFINE e == Head(todo)
           l == Append(log, e)
<1>1. e \in EventType /\ log \in Seq(EventType) /\ step \in Nat
  BY Appending
<1>2. todo \in {Cataloguing, Tail(Cataloguing)} /\ Sound(log, step, "fresh", "fresh", "fresh")
  BY DEF Table, Prepared
<1>3. AppendEvent => /\ log' = l /\ todo' = Tail(todo) /\ step' = step /\ after' = after
                     /\ pc' = IF Tail(todo) = <<>> THEN after ELSE pc
  BY DEF AppendEvent
<1>4. e.type \in {"plan/created", "tools/cataloged"}
  <2>1. e = Note("plan/created") \/ e = Note("tools/cataloged")
    BY <1>2, OpeningIs
  <2>2. QED
    BY <2>1 DEF Note, Event
<1>5. Accepts(log, e) /\ Sound(l, step, "fresh", "fresh", "fresh")
  BY <1>1, <1>2, <1>4, UncheckedAppended DEF Unchecked
<1>6. AppendEvent => \/ /\ pc' = "opening" /\ after' = "looping" /\ todo' = Tail(Cataloguing)
                        /\ Sound(log', step', "fresh", "fresh", "fresh")
                     \/ pc' = "looping" /\ Between(log', step')
  BY <1>2, <1>3, <1>5, OpeningIs DEF Between, Over
<1>7. AppendEvent => Table'
  BY <1>6 DEF Table, Opened, Prepared, Stepping, Asking, Calling, Ending
<1>8. QED
  BY <1>5, <1>7

\* The start of a step.
LEMMA SteppingAppend ==
  ASSUME RunTypes, Phases, Table, todo # <<>>, pc = "stepping"
  PROVE  Accepts(log, Head(todo)) /\ (AppendEvent => Table')
<1> DEFINE e == Head(todo)
           l == Append(log, e)
<1>1. e \in EventType /\ log \in Seq(EventType) /\ step \in Nat /\ after = "choosing"
  BY Appending, Continues
<1>2. todo = <<Event("step/started", Step(step), Turn, 0)>>
      /\ Sound(log, step, "fresh", "fresh", "fresh")
  BY DEF Table, Stepping
<1>3. AppendEvent => /\ log' = l /\ step' = step
                     /\ pc' = IF Tail(todo) = <<>> THEN after ELSE pc
  BY DEF AppendEvent
<1>4. e.type = "step/started" /\ e.id = Step(step) /\ e.ref = Turn /\ Tail(todo) = <<>>
  BY <1>2, Shorter DEF Event
<1>5. Accepts(log, e) /\ Sound(l, step, "open", "fresh", "fresh")
  BY <1>1, <1>2, <1>4, StepStarts
<1>6. AppendEvent => pc' = "choosing" /\ Sound(log', step', "open", "fresh", "fresh")
  BY <1>1, <1>3, <1>4, <1>5
<1>7. AppendEvent => Table'
  BY <1>6 DEF Table, Opened, Prepared, Stepping, Asking, Calling, Ending
<1>8. QED
  BY <1>5, <1>7

\* The end of a step that failed, or the notes and the end of one that did not.
LEMMA NotingAppend ==
  ASSUME RunTypes, Phases, Table, todo # <<>>, pc \in {"failing", "noting"}
  PROVE  Accepts(log, Head(todo)) /\ (AppendEvent => Table')
<1> DEFINE e == Head(todo)
           l == Append(log, e)
<1>1. /\ e \in EventType /\ log \in Seq(EventType) /\ step \in Nat
      /\ after \in {"failed", "looping", "finishing"}
  BY Appending, Continues
<1>2. (pc = "failing" => todo = <<StepEnded>>) /\ (pc = "noting" => Noting(todo)) /\ InStep(log, step)
  BY DEF Table, Stepping
<1>3. AppendEvent => /\ log' = l /\ todo' = Tail(todo) /\ step' = step /\ after' = after
                     /\ pc' = IF Tail(todo) = <<>> THEN after ELSE pc
  BY DEF AppendEvent
<1>4. PICK m \in Over, c \in Over : Sound(log, step, "open", m, c)
  BY <1>2 DEF InStep
<1>5. CASE Tail(todo) = <<>>
  <2>1. e = StepEnded
    BY <1>2, <1>5, NotingTail, Shorter
  <2>2. e.type = "step/ended" /\ e.id = Step(step) /\ e.ref = Turn
    BY <2>1 DEF StepEnded, Event
  <2>3. Accepts(log, e) /\ Sound(l, step, "closed", m, c)
    BY <1>1, <1>4, <2>2, StepStops
  <2>4. AppendEvent => pc' \in {"failed", "looping", "finishing"} /\ Between(log', step')
    BY <1>1, <1>3, <1>5, <2>3 DEF Between, Over
  <2>5. AppendEvent => Table'
    BY <2>4 DEF Table, Opened, Prepared, Stepping, Asking, Calling, Ending
  <2>6. QED
    BY <2>3, <2>5
<1>6. CASE Tail(todo) # <<>>
  <2>1. pc = "noting" /\ Noting(Tail(todo)) /\ e \in Notes
    BY <1>2, <1>6, NotingTail, Shorter
  <2>2. e.type \in Unchecked
    <3>1. PICK t \in Silent : e = Note(t)
      BY <2>1 DEF Notes
    <3>2. e.type = t
      BY <3>1 DEF Note, Event
    <3>3. QED
      BY <3>2 DEF Unchecked
  <2>3. Accepts(log, e) /\ Sound(l, step, "open", m, c)
    BY <1>1, <1>4, <2>2, UncheckedAppended
  <2>4. AppendEvent => pc' = "noting" /\ InStep(log', step')
    BY <1>3, <1>6, <2>1, <2>3 DEF InStep
  <2>5. AppendEvent => Noting(todo)'
    BY <1>3, <2>1 DEF Noting, StepEnded
  <2>6. AppendEvent => Table'
    BY <2>4, <2>5 DEF Table, Opened, Prepared, Stepping, Asking, Calling, Ending
  <2>7. QED
    BY <2>3, <2>6
<1>7. QED
  BY <1>5, <1>6

\* The header and the request, and what the model answered.
LEMMA AskingAppend ==
  ASSUME RunTypes, Phases, Table, todo # <<>>, pc = "asking"
  PROVE  Accepts(log, Head(todo)) /\ (AppendEvent => Table')
<1> DEFINE e == Head(todo)
           l == Append(log, e)
<1>1. /\ e \in EventType /\ log \in Seq(EventType) /\ step \in Nat
      /\ after \in {"waiting", "acting", "fallback", "unanswered"}
  BY Appending, Continues
<1>2. AppendEvent => /\ log' = l /\ todo' = Tail(todo) /\ step' = step /\ after' = after
                     /\ pc' = IF Tail(todo) = <<>> THEN after ELSE pc
  BY DEF AppendEvent
<1>3. CASE /\ after = "waiting" /\ todo = <<Header, Model("model/request", Len(log) + 1)>>
           /\ Sound(log, step, "open", "fresh", "fresh")
  <2>1. e = Header /\ Tail(todo) = <<Model("model/request", Len(log) + 1)>> /\ Tail(todo) # <<>>
    BY <1>3, Shorter
  <2>2. e.type = "request/header" /\ e.id = <<"model", step>>
    BY <2>1 DEF Header, Model, Event
  <2>3. Accepts(log, e) /\ Sound(l, step, "open", "headed", "fresh")
    BY <1>1, <1>3, <2>2, HeaderAppended
  <2>4. l # <<>> /\ Len(l) = Len(log) + 1 /\ l[Len(l)] = e
    BY <1>1, Appended, AppendProperties
  <2>5. AppendEvent => /\ pc' = "asking" /\ after' = "waiting"
                       /\ todo' = <<Model("model/request", Len(log'))>>
                       /\ log' # <<>> /\ log'[Len(log')] = Header
                       /\ Sound(log', step', "open", "headed", "fresh")
    BY <1>2, <1>3, <2>1, <2>3, <2>4
  <2>6. AppendEvent => /\ todo' = <<Model("model/request", Len(log))>>'
                       /\ log'[Len(log')] = Header'
    BY <1>2, <2>5 DEF Model, Header
  <2>7. AppendEvent => Table'
    BY <2>5, <2>6 DEF Table, Opened, Prepared, Stepping, Asking, Calling, Ending
  <2>8. QED
    BY <2>3, <2>7
<1>4. CASE /\ after = "waiting" /\ todo = <<Model("model/request", Len(log))>>
           /\ log # <<>> /\ log[Len(log)] = Header /\ Sound(log, step, "open", "headed", "fresh")
  <2>1. e = Model("model/request", Len(log)) /\ Tail(todo) = <<>>
    BY <1>4, Shorter
  <2>2. e.type = "model/request" /\ e.id = <<"model", step>> /\ e.num = Len(log)
    BY <2>1 DEF Model, Event
  <2>3. log[Len(log)].type = "request/header" /\ log[Len(log)].id = <<"model", step>>
    BY <1>4 DEF Header, Model, Event
  <2>4. Accepts(log, e) /\ Sound(l, step, "open", "open", "fresh")
    BY <1>1, <1>4, <2>2, <2>3, RequestAppended
  <2>5. AppendEvent => pc' = "waiting" /\ Sound(log', step', "open", "open", "fresh")
    BY <1>2, <1>4, <2>1, <2>4
  <2>6. AppendEvent => Table'
    BY <2>5 DEF Table, Opened, Prepared, Stepping, Asking, Calling, Ending
  <2>7. QED
    BY <2>4, <2>6
<1>5. CASE /\ after # "waiting" /\ todo \in {<<Model(t, 0)>> : t \in Replies}
           /\ Sound(log, step, "open", "open", "fresh")
  <2>1. PICK t \in Replies : todo = <<Model(t, 0)>>
    BY <1>5
  <2>2. e = Model(t, 0) /\ Tail(todo) = <<>>
    BY <2>1, Shorter
  <2>3. e.type \in Replies /\ e.id = <<"model", step>>
    BY <2>1, <2>2 DEF Model, Event
  <2>4. Accepts(log, e) /\ Sound(l, step, "open", "closed", "fresh")
    BY <1>1, <1>5, <2>3, ReplyAppended
  <2>5. AppendEvent => /\ pc' \in {"acting", "fallback", "unanswered"}
                       /\ Sound(log', step', "open", "closed", "fresh")
    BY <1>1, <1>2, <1>5, <2>2, <2>4
  <2>6. AppendEvent => Table'
    BY <2>5 DEF Table, Opened, Prepared, Stepping, Asking, Calling, Ending, Over
  <2>7. QED
    BY <2>4, <2>6
<1>6. QED
  BY <1>3, <1>4, <1>5 DEF Table, Asking

\* The decision and the call, and what the tool ended with.
LEMMA CallingAppend ==
  ASSUME RunTypes, Phases, Table, todo # <<>>, pc = "calling"
  PROVE  Accepts(log, Head(todo)) /\ (AppendEvent => Table')
<1> DEFINE e == Head(todo)
           l == Append(log, e)
<1>1. /\ e \in EventType /\ log \in Seq(EventType) /\ step \in Nat
      /\ after \in {"invoking", "observing", "refused"}
  BY Appending, Continues DEF Table, Calling
<1>2. AppendEvent => /\ log' = l /\ todo' = Tail(todo) /\ step' = step /\ after' = after
                     /\ action' = action
                     /\ pc' = IF Tail(todo) = <<>> THEN after ELSE pc
  BY DEF AppendEvent
<1>3. ASSUME NEW m \in Over, after = "invoking", Sound(log, step, "open", m, "fresh"),
             todo = <<Note("policy/decision"), Tool("tool/call", action.tool)>>
      PROVE  Accepts(log, e) /\ (AppendEvent => Table')
  <2>1. e = Note("policy/decision") /\ Tail(todo) = <<Tool("tool/call", action.tool)>>
        /\ Tail(todo) # <<>>
    BY <1>3, Shorter
  <2>2. e.type = "policy/decision"
    BY <2>1 DEF Note, Event
  <2>3. Accepts(log, e) /\ Sound(l, step, "open", m, "fresh")
    BY <1>1, <1>3, <2>2, UncheckedAppended DEF Unchecked
  <2>4. AppendEvent => /\ pc' = "calling" /\ after' = "invoking"
                       /\ todo' = <<Tool("tool/call", action.tool)>>'
                       /\ Sound(log', step', "open", m, "fresh")
    BY <1>2, <1>3, <2>1, <2>3 DEF Tool
  <2>5. AppendEvent => Table'
    BY <2>4 DEF Table, Opened, Prepared, Stepping, Asking, Calling, Ending
  <2>6. QED
    BY <2>3, <2>5
<1>4. ASSUME NEW m \in Over, after = "invoking", Sound(log, step, "open", m, "fresh"),
             todo = <<Tool("tool/call", action.tool)>>
      PROVE  Accepts(log, e) /\ (AppendEvent => Table')
  <2>1. e = Tool("tool/call", action.tool) /\ Tail(todo) = <<>>
    BY <1>4, Shorter
  <2>2. e.type = "tool/call" /\ e.id = <<"call", step>>
    BY <2>1 DEF Tool, Event
  <2>3. Accepts(log, e) /\ Sound(l, step, "open", m, "open")
    BY <1>1, <1>4, <2>2, CallAppended
  <2>4. AppendEvent => pc' = "invoking" /\ Sound(log', step', "open", m, "open")
    BY <1>2, <1>4, <2>1, <2>3
  <2>5. AppendEvent => Table'
    BY <2>4 DEF Table, Opened, Prepared, Stepping, Asking, Calling, Ending
  <2>6. QED
    BY <2>3, <2>5
<1>5. ASSUME NEW m \in Over, after # "invoking", Sound(log, step, "open", m, "open"),
             todo = <<Tool("tool/result", action.tool)>>
      PROVE  Accepts(log, e) /\ (AppendEvent => Table')
  <2>1. e = Tool("tool/result", action.tool) /\ Tail(todo) = <<>>
    BY <1>5, Shorter
  <2>2. e.type = "tool/result" /\ e.id = <<"call", step>>
    BY <2>1 DEF Tool, Event
  <2>3. Accepts(log, e) /\ Sound(l, step, "open", m, "closed")
    BY <1>1, <1>5, <2>2, ResultAppended
  <2>4. AppendEvent => pc' \in {"observing", "refused"} /\ InStep(log', step')
    BY <1>1, <1>2, <1>5, <2>1, <2>3 DEF InStep, Over
  <2>5. AppendEvent => Table'
    BY <2>4 DEF Table, Opened, Prepared, Stepping, Asking, Calling, Ending
  <2>6. QED
    BY <2>3, <2>5
<1>6. CASE after = "invoking"
  <2>1. /\ todo \in {<<Note("policy/decision"), Tool("tool/call", action.tool)>>,
                     <<Tool("tool/call", action.tool)>>}
        /\ \E m \in Over : Sound(log, step, "open", m, "fresh")
    BY <1>6 DEF Table, Calling
  <2>2. QED
    BY <1>3, <1>4, <1>6, <2>1
<1>7. CASE after # "invoking"
  <2>1. /\ todo = <<Tool("tool/result", action.tool)>>
        /\ \E m \in Over : Sound(log, step, "open", m, "open")
    BY <1>7 DEF Table, Calling
  <2>2. QED
    BY <1>5, <1>7, <2>1
<1>8. QED
  BY <1>6, <1>7

\* The closing.
LEMMA ClosingAppend ==
  ASSUME RunTypes, Phases, Table, todo # <<>>, pc = "closing"
  PROVE  Accepts(log, Head(todo)) /\ (AppendEvent => Table')
<1> DEFINE e == Head(todo)
           l == Append(log, e)
<1>1. e \in EventType /\ log \in Seq(EventType) /\ step \in Nat /\ after = "leaving"
  BY Appending, Continues
<1>2. AppendEvent => /\ log' = l /\ todo' = Tail(todo) /\ step' = step /\ after' = after
                     /\ pc' = IF Tail(todo) = <<>> THEN after ELSE pc
  BY DEF AppendEvent
<1>3. CASE todo = Closing /\ Between(log, step)
  <2>1. e.type = "assistant/message" /\ Tail(todo) # <<>>
    BY <1>3, ClosingIs DEF Note, Event
  <2>2. Accepts(log, e) /\ Between(l, step)
    BY <1>1, <1>3, <2>1, UncheckedAppended DEF Unchecked, Between
  <2>3. AppendEvent => pc' = "closing" /\ todo' = Tail(Closing) /\ Between(log', step')
    BY <1>2, <1>3, <2>1, <2>2
  <2>4. AppendEvent => Table'
    BY <2>3 DEF Table, Opened, Prepared, Stepping, Asking, Calling, Ending
  <2>5. QED
    BY <2>2, <2>4
<1>4. CASE todo = Tail(Closing) /\ Between(log, step)
  <2>1. e.type = "turn/ended" /\ e.id = Turn /\ Tail(todo) # <<>>
    BY <1>4, ClosingIs DEF Event
  <2>2. Accepts(log, e) /\ Finished(l)
    BY <1>1, <1>4, <2>1, TurnStops
  <2>3. AppendEvent => pc' = "closing" /\ todo' = Tail(Tail(Closing)) /\ Finished(log')
    BY <1>2, <1>4, <2>1, <2>2
  <2>4. AppendEvent => Table'
    BY <2>3 DEF Table, Opened, Prepared, Stepping, Asking, Calling, Ending
  <2>5. QED
    BY <2>2, <2>4
<1>5. CASE todo = Tail(Tail(Closing)) /\ Finished(log)
  <2>1. e.type = "session/ended" /\ Tail(todo) = <<>>
    BY <1>5, ClosingIs DEF Event
  <2>2. Accepts(log, e)
    BY <1>5, <2>1, SessionStops
  <2>3. AppendEvent => pc' = "leaving"
    BY <1>1, <1>2, <2>1
  <2>4. AppendEvent => Table'
    BY <2>3 DEF Table, Opened, Prepared, Stepping, Asking, Calling, Ending
  <2>5. QED
    BY <2>2, <2>4
<1>6. QED
  BY <1>3, <1>4, <1>5 DEF Table, Ending

\* Whatever phase a run is in, the check accepts its next event.
LEMMA AppendStep ==
  ASSUME RunTypes, Phases, Table, todo # <<>>
  PROVE  /\ Accepts(log, Head(todo))
         /\ AppendEvent => Table'
         /\ pc = "opening" /\ after = "preparing" => Head(todo).type # "plan/created"
<1>1. pc \in Emitting /\ (pc = "opening" => after \in {"preparing", "looping"})
  BY Appending, Continues
<1>2. QED
  BY <1>1, Continues, OpeningAppend, CataloguingAppend, SteppingAppend, NotingAppend, AskingAppend,
     CallingAppend, ClosingAppend

---------------------------------------------------------------------------
(* The stream of an undisturbed run, the other steps.                       *)

\* The end of a step alone, and after a refused call.
LEMMA NotingAre ==
  /\ Noting(<<StepEnded>>)
  /\ Noting(<<Note("loop/guarded"), Note("plan/revised"), StepEnded>>)
<1>1. Noting(<<StepEnded>>)
  <2>1. <<StepEnded>> \in Seq(Notes \cup {StepEnded}) /\ <<StepEnded>> # <<>>
        /\ Len(<<StepEnded>>) = 1 /\ <<StepEnded>>[1] = StepEnded
    OBVIOUS
  <2>2. 1..(1 - 1) = {}
    OBVIOUS
  <2>3. QED
    BY <2>1, <2>2 DEF Noting, Notes
<1>2. Noting(<<Note("loop/guarded"), Note("plan/revised"), StepEnded>>)
  <2> DEFINE guarded == Note("loop/guarded")
             revised == Note("plan/revised")
             q == <<guarded, revised, StepEnded>>
  <2>1. guarded \in Notes /\ revised \in Notes
    BY DEF Notes, Silent
  <2>2. guarded # StepEnded /\ revised # StepEnded
    BY DEF Note, StepEnded, Event
  <2> HIDE DEF guarded, revised
  <2>3. q \in Seq(Notes \cup {StepEnded}) /\ q # <<>> /\ Len(q) = 3
        /\ q[1] = guarded /\ q[2] = revised /\ q[3] = StepEnded
    BY <2>1
  <2> HIDE DEF q
  <2>4. \A i \in 1..(3 - 1) : i = 1 \/ i = 2
    OBVIOUS
  <2>5. Noting(q)
    BY <2>2, <2>3, <2>4 DEF Noting, Notes
  <2>6. QED
    BY <2>5 DEF q, guarded, revised
<1>3. QED
  BY <1>1, <1>2

\* The table holds after every step of an undisturbed run.
LEMMA TableStep ==
  ASSUME RunTypes, Phases, Table, Next, faults = 0, cancels = 0, faults' = 0, cancels' = 0
  PROVE  Table'
<1>1. log \in Seq(EventType) /\ todo \in Seq(EventType) /\ step \in Nat /\ harness \in HarnessType
  BY DEF RunTypes
<1>2. ASSUME pc' = "gone" PROVE Table'
  BY <1>2 DEF Table, Opened, Prepared, Stepping, Asking, Calling, Ending
<1>3. ASSUME UNCHANGED <<log, step>>, Between(log, step), pc' = "closing", todo' = Closing
      PROVE  Table'
  <2>1. todo' \in {Closing, Tail(Closing)} /\ Between(log', step')
    BY <1>3
  <2>2. QED
    BY <1>3, <2>1 DEF Table, Opened, Prepared, Stepping, Asking, Calling, Ending
<1>4. ASSUME UNCHANGED <<log, step>>, InStep(log, step), pc' = "noting", Noting(todo)'
      PROVE  Table'
  BY <1>4 DEF Table, Opened, Prepared, Stepping, Asking, Calling, Ending
<1>5. ASSUME UNCHANGED <<log, step>>, InStep(log, step), pc' = "failing", todo' = <<StepEnded>>
      PROVE  Table'
  <2>1. todo' = <<StepEnded>>' /\ InStep(log', step')
    BY <1>5 DEF StepEnded
  <2>2. QED
    BY <1>5, <2>1 DEF Table, Opened, Prepared, Stepping, Asking, Calling, Ending
<1>6. ASSUME NEW m \in Over, NEW c \in Over, Sound(log, step, "open", m, c)
      PROVE  InStep(log, step)
  BY <1>6 DEF InStep
<1>7. CASE AppendEvent
  BY <1>7, AppendStep DEF AppendEvent
<1>8. CASE AppendRefused
  BY <1>8, AppendStep DEF AppendRefused
<1>9. CASE AppendFails \/ Cancel
  BY <1>9 DEF AppendFails, Cancel
<1>10. CASE Interrupted
  BY <1>10 DEF Interrupted, Table, Calling
<1>11. CASE PrepareFails \/ Return
  BY <1>2, <1>11 DEF PrepareFails, Return, Leave, Emit
<1>12. CASE Prepare
  <2>1. /\ log' = log /\ step' = step /\ pc' = "opening" /\ after' = "looping" /\ todo' = Cataloguing
        /\ Sound(log, step, "fresh", "fresh", "fresh")
    BY <1>12 DEF Prepare, Emit, Table, Prepared
  <2>2. todo' \in {Cataloguing, Tail(Cataloguing)} /\ Sound(log', step', "fresh", "fresh", "fresh")
    BY <2>1
  <2>3. QED
    BY <2>1, <2>2 DEF Table, Opened, Prepared, Stepping, Asking, Calling, Ending
<1>13. CASE StartStep
  <2>1. /\ log' = log /\ step' = step + 1 /\ pc' = "stepping" /\ Between(log, step)
        /\ todo' = <<Event("step/started", Step(step'), Turn, 0)>>
    BY <1>13 DEF StartStep, Emit, Table, Stepping
  <2>2. Sound(log', step', "fresh", "fresh", "fresh")
    BY <1>1, <2>1, NextStep
  <2>3. QED
    BY <2>1, <2>2 DEF Table, Opened, Prepared, Stepping, Asking, Calling, Ending
<1>14. CASE ChooseLocally
  <2>1. /\ log' = log /\ step' = step /\ pc' = "acting"
        /\ \E m \in Over : Sound(log, step, "open", m, "fresh")
    BY <1>14 DEF ChooseLocally, Choose, Emit, Table, Stepping, Asking, Over
  <2>2. \E m \in Over : Sound(log', step', "open", m, "fresh")
    BY <2>1
  <2>3. QED
    BY <2>1, <2>2 DEF Table, Opened, Prepared, Stepping, Asking, Calling, Ending
<1>15. CASE AskModel
  <2>1. /\ log' = log /\ step' = step /\ pc' = "asking" /\ after' = "waiting"
        /\ todo' = <<Model("request/header", 0), Model("model/request", Len(log) + 1)>>
        /\ Sound(log, step, "open", "fresh", "fresh")
    BY <1>15 DEF AskModel, Emit, Table, Stepping
  <2>2. todo' = <<Header, Model("model/request", Len(log) + 1)>>'
    BY <2>1 DEF Header, Model
  <2>3. Sound(log', step', "open", "fresh", "fresh")
    BY <2>1
  <2>4. QED
    BY <2>1, <2>2, <2>3 DEF Table, Opened, Prepared, Stepping, Asking, Calling, Ending
<1>16. CASE ModelAnswers \/ ModelFails
  <2>1. /\ log' = log /\ step' = step /\ pc' = "asking" /\ after' \in {"acting", "fallback", "unanswered"}
        /\ \E t \in Replies : todo' = <<Model(t, 0)>>
        /\ Sound(log, step, "open", "open", "fresh")
    BY <1>16 DEF ModelAnswers, ModelFails, Emit, Table, Asking, Replies
  <2>2. \E t \in Replies : todo' = <<Model(t, 0)>>'
    BY <2>1 DEF Model
  <2>3. Sound(log', step', "open", "open", "fresh")
    BY <2>1
  <2>4. QED
    BY <2>1, <2>2, <2>3 DEF Table, Opened, Prepared, Stepping, Asking, Calling, Ending
<1>17. ASSUME pc \in {"acting", "unanswered"}
       PROVE  InStep(log, step) /\ \E m \in Over : Sound(log, step, "open", m, "fresh")
  BY <1>17 DEF Table, Asking, InStep, Over
<1>18. CASE Unanswered \/ NameNoTool
  <2>1. /\ log' = log /\ step' = step /\ pc' = "failing" /\ todo' = <<StepEnded>>
        /\ pc \in {"acting", "unanswered"}
    BY <1>18 DEF Unanswered, NameNoTool, Emit
  <2>2. QED
    BY <1>5, <1>17, <2>1
<1>19. CASE Failed
  <2>1. /\ log' = log /\ step' = step /\ pc' = "closing" /\ todo' = Closing /\ Between(log, step)
    BY <1>19 DEF Failed, Close, Emit, Table, Stepping
  <2>2. QED
    BY <1>3, <2>1
<1>20. CASE Conclude \/ Guarded
  <2>1. /\ log' = log /\ step' = step /\ pc' = "noting" /\ pc = "acting"
        /\ \/ todo' = <<StepEnded>>
           \/ todo' = <<Note("loop/guarded"), Note("plan/revised"), StepEnded>>
    BY <1>20 DEF Conclude, Guarded, Emit
  <2>2. Noting(todo')
    BY <2>1, NotingAre
  <2>3. Noting(todo)'
    BY <2>1, <2>2 DEF Noting, StepEnded
  <2>4. QED
    BY <1>4, <1>17, <2>1, <2>3
<1>21. CASE CallTool
  <2>1. /\ log' = log /\ step' = step /\ action' = action /\ pc' = "calling" /\ after' = "invoking"
        /\ todo' = <<Note("policy/decision"), Tool("tool/call", action.tool)>> /\ pc = "acting"
    BY <1>21 DEF CallTool, Emit
  <2>2. todo' = <<Note("policy/decision"), Tool("tool/call", action.tool)>>'
    BY <2>1 DEF Tool
  <2>3. \E m \in Over : Sound(log', step', "open", m, "fresh")
    BY <1>17, <2>1
  <2>4. QED
    BY <2>1, <2>2, <2>3 DEF Table, Opened, Prepared, Stepping, Asking, Calling, Ending
<1>22. CASE CallInvalid
  <2>1. log' = log /\ step' = step /\ pc' = "refused" /\ pc = "acting"
    BY <1>22 DEF CallInvalid, Emit
  <2>2. InStep(log', step')
    BY <1>17, <2>1
  <2>3. QED
    BY <2>1, <2>2 DEF Table, Opened, Prepared, Stepping, Asking, Calling, Ending
<1>23. CASE Refused \/ Observe
  <2>1. /\ log' = log /\ step' = step /\ InStep(log, step)
        /\ \E ok \in BOOLEAN : Observed(ok)
    BY <1>23 DEF Refused, Observe, ToolFailed, Table, Calling
  <2>2. pc' = "noting" /\ Noting(todo)'
    BY <1>1, <2>1, ObservedLeaves
  <2>3. QED
    BY <1>4, <2>1, <2>2
<1>24. CASE ToolReturns \/ ToolRaises
  <2>1. /\ log' = log /\ step' = step /\ action' = action /\ pc' = "calling"
        /\ after' \in {"observing", "refused"}
        /\ todo' = <<Tool("tool/result", action.tool)>>
        /\ \E m \in Over : Sound(log, step, "open", m, "open")
    BY <1>24 DEF ToolReturns, ToolRaises, Emit, Table, Calling
  <2>2. todo' = <<Tool("tool/result", action.tool)>>'
    BY <2>1 DEF Tool
  <2>3. \E m \in Over : Sound(log', step', "open", m, "open")
    BY <2>1
  <2>4. QED
    BY <2>1, <2>2, <2>3 DEF Table, Opened, Prepared, Stepping, Asking, Calling, Ending
<1>25. CASE Finish
  <2>1. /\ log' = log /\ step' = step /\ pc' = "closing" /\ todo' = Closing /\ Between(log, step)
    BY <1>25 DEF Finish, Close, Emit, Table, Stepping
  <2>2. QED
    BY <1>3, <2>1
<1>26. QED
  BY <1>7, <1>8, <1>9, <1>10, <1>11, <1>12, <1>13, <1>14, <1>15, <1>16, <1>18, <1>19, <1>20, <1>21,
     <1>22, <1>23, <1>24, <1>25 DEF Next, Loop

\* Only a missing working directory makes an undisturbed run raise, and it does so
\* before the plan is on record.
LEMMA RaisedStep ==
  ASSUME RunTypes, Phases, Table, Raised, Next, faults = 0, cancels = 0
  PROVE  \/ faults' + cancels' # 0
         \/ /\ (pc' = "opening" /\ after' = "preparing") \/ pc' = "preparing" => Unplanned'
            /\ out' = "raised" => Unplanned'
            /\ out' # "running" => pc' = "gone"
<1>1. /\ (pc = "opening" /\ after = "preparing") \/ pc = "preparing" => Unplanned
      /\ out = "running"
  BY GoesOn DEF Raised
<1>2. log \in Seq(EventType) /\ todo \in Seq(EventType) /\ step \in Nat /\ harness \in HarnessType
  BY DEF RunTypes
<1>3. CASE AppendEvent
  <2>1. /\ todo # <<>> /\ out' = out /\ log' = Append(log, Head(todo)) /\ after' = after
        /\ pc' = IF Tail(todo) = <<>> THEN after ELSE pc
    BY <1>3 DEF AppendEvent
  <2>2. Head(todo) \in EventType /\ pc \in Emitting /\ after \in Follows[pc]
    BY <2>1, Appending
  <2>3. ASSUME (pc' = "opening" /\ after' = "preparing") \/ pc' = "preparing" PROVE Unplanned'
    <3>1. pc = "opening" /\ after = "preparing"
      BY <2>1, <2>2, <2>3, Continues
    <3>2. Unplanned /\ Head(todo).type # "plan/created"
      BY <1>1, <2>1, <3>1, AppendStep
    <3>3. QED
      BY <1>2, <2>1, <2>2, <3>2, HasAppend DEF Unplanned, NoRef
  <2>4. QED
    BY <1>1, <2>1, <2>3
<1>4. CASE AppendRefused
  BY <1>4, AppendStep DEF AppendRefused
<1>5. CASE AppendFails \/ Cancel
  BY <1>5 DEF AppendFails, Cancel
<1>6. CASE PrepareFails
  <2>1. pc = "preparing" /\ log' = log /\ pc' = "gone"
    BY <1>6 DEF PrepareFails, Leave, Emit
  <2>2. QED
    BY <1>1, <2>1 DEF Unplanned
<1>7. CASE Return
  BY <1>7 DEF Return, Leave, Emit
<1>8. ASSUME out' = out, pc' \notin {"opening", "preparing"} \/ (pc' = "opening" /\ after' = "looping")
      PROVE  /\ (pc' = "opening" /\ after' = "preparing") \/ pc' = "preparing" => Unplanned'
             /\ out' = "raised" => Unplanned'
             /\ out' # "running" => pc' = "gone"
  BY <1>1, <1>8
<1>9. CASE Refused \/ Observe
  <2>1. step' = step /\ out' = out /\ \E ok \in BOOLEAN : Observed(ok)
    BY <1>9 DEF Refused, Observe, ToolFailed
  <2>2. pc' = "noting"
    BY <1>2, <2>1, ObservedLeaves
  <2>3. QED
    BY <1>8, <2>1, <2>2
<1>10. CASE \/ Interrupted \/ Prepare \/ StartStep \/ ChooseLocally \/ AskModel \/ ModelAnswers
            \/ ModelFails \/ Unanswered \/ Failed \/ Conclude \/ NameNoTool \/ Guarded \/ CallTool
            \/ CallInvalid \/ ToolReturns \/ ToolRaises \/ Finish
  <2>1. out' = out /\ (pc' \notin {"opening", "preparing"} \/ (pc' = "opening" /\ after' = "looping"))
    BY <1>10 DEF Interrupted, Prepare, StartStep, ChooseLocally, Choose, AskModel, ModelAnswers,
                 ModelFails, Unanswered, Failed, Conclude, NameNoTool, Guarded, CallTool,
                 CallInvalid, ToolReturns, ToolRaises, Finish, Close, Emit
  <2>2. QED
    BY <1>8, <2>1
<1>11. QED
  BY <1>3, <1>4, <1>5, <1>6, <1>7, <1>9, <1>10 DEF Next, Loop

\* Faults and cancellations are only counted up.
LEMMA DisturbedOnce ==
  ASSUME RunTypes, [Next]_vars, faults' + cancels' = 0
  PROVE  faults = 0 /\ cancels = 0 /\ faults' = 0 /\ cancels' = 0
<1>1. faults \in Nat /\ cancels \in Nat /\ faults' \in Nat /\ cancels' \in Nat
  BY PlainTypes DEF RunTypes
<1>2. /\ cancels' = cancels \/ cancels' = 1
      /\ faults' = faults \/ faults' = faults + 1
  BY DEF vars, still, Next, Loop, AppendEvent, AppendRefused, AppendFails, Cancel, Interrupted, Prepare,
         PrepareFails, StartStep, ChooseLocally, AskModel, ModelAnswers, ModelFails, Unanswered,
         Failed, Conclude, NameNoTool, Guarded, CallTool, CallInvalid, Refused, ToolReturns,
         ToolRaises, Observe, Finish, Return
<1>3. \A x, y \in Nat : x + y = 0 => x = 0 /\ y = 0
  OBVIOUS
<1>4. cancels' = 0 /\ faults' = 0
  BY <1>1, <1>3
<1>5. QED
  BY <1>1, <1>2, <1>4

\* The invariant behind the end of a run: where its stream stands in every phase.
CalmInv == StepInv /\ Calm /\ Raised /\ Closes

LEMMA CalmKept == Spec => []CalmInv
<1>1. Init => CalmInv
  <2> SUFFICES ASSUME Init PROVE CalmInv
    OBVIOUS
  <2>1. StepInv
    BY TypesInit DEF Init, StepInv, WriteInv, Before
  <2>2. Table
    BY DEF Init, Table, Opened, Prepared, Stepping, Asking, Calling, Ending, Blank
  <2>3. Raised /\ Closes
    BY DEF Init, Raised, Closes, Unplanned, Has
  <2>4. QED
    BY <2>1, <2>2, <2>3 DEF CalmInv, Calm
<1>2. CalmInv /\ [Next]_vars => CalmInv'
  <2> SUFFICES ASSUME CalmInv, [Next]_vars PROVE CalmInv'
    OBVIOUS
  <2>1. RunTypes /\ Phases /\ StepInv'
    BY TypesStep, WriteStep DEF CalmInv, StepInv
  <2>2. Closes'
    BY <2>1, ClosesStep DEF CalmInv
  <2>3. ASSUME faults' + cancels' = 0 PROVE faults + cancels = 0 /\ Table
    <3>1. faults = 0 /\ cancels = 0
      BY <2>1, <2>3, DisturbedOnce
    <3>2. QED
      BY <3>1 DEF CalmInv, Calm
  <2>4. CASE UNCHANGED vars
    <3>1. Calm'
      BY <2>3, <2>4 DEF vars, Calm, Table, Opened, Prepared, Stepping, Asking, Calling, Ending,
                       Noting, StepEnded, Header, Model, Tool
    <3>2. Raised'
      BY <2>4 DEF vars, CalmInv, Raised, Unplanned
    <3>3. QED
      BY <2>1, <2>2, <3>1, <3>2 DEF CalmInv
  <2>5. CASE Next
    <3>1. ASSUME faults' + cancels' = 0
          PROVE  /\ Table'
                 /\ (pc' = "opening" /\ after' = "preparing") \/ pc' = "preparing" => Unplanned'
                 /\ out' = "raised" => Unplanned'
                 /\ out' # "running" => pc' = "gone"
      <4>1. faults = 0 /\ cancels = 0 /\ faults' = 0 /\ cancels' = 0 /\ Table /\ Raised
        BY <2>1, <2>3, <3>1, DisturbedOnce DEF CalmInv
      <4>2. Table'
        BY <2>1, <2>5, <4>1, TableStep
      <4>3. QED
        BY <2>1, <2>5, <3>1, <4>1, <4>2, RaisedStep
    <3>2. Calm' /\ Raised'
      BY <3>1 DEF Calm, Raised
    <3>3. QED
      BY <2>1, <2>2, <3>2 DEF CalmInv
  <2>6. QED
    BY <2>4, <2>5
<1>3. QED
  BY <1>1, <1>2, PTL DEF Spec

\* Whatever a model answers and however its tools and requests end, an undisturbed
\* run returns: the lifecycle check refuses none of its events, the stream it leaves
\* is closed, and investment-run.json says how it ended (run, its except and finally
\* clauses, and validate_event_sequence).
THEOREM UndisturbedReturns == Spec => []UndisturbedRunReturns
<1>1. CalmInv => UndisturbedRunReturns
  BY DEF CalmInv, Raised, Closes, Closed, Reported, Unplanned, UndisturbedRunReturns
<1>2. QED
  BY <1>1, CalmKept, PTL

\* In an undisturbed run the lifecycle check refuses no event, whatever phase the
\* run is in (_append_event, WorkspaceEventStore.append).
THEOREM NothingIsRefused ==
  Spec => [](faults + cancels = 0 /\ todo # <<>> => Accepts(log, Head(todo)))
<1>1. CalmInv => (faults + cancels = 0 /\ todo # <<>> => Accepts(log, Head(todo)))
  BY AppendStep DEF CalmInv, StepInv, Calm
<1>2. QED
  BY <1>1, CalmKept, PTL
=============================================================================
