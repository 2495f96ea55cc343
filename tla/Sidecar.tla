------------------------------ MODULE Sidecar ------------------------------
(***************************************************************************)
(* The desktop sidecar: one process that reads requests from stdin one at  *)
(* a time (sidecar/server.py), a registry of background runs with their    *)
(* event queues and the history file (sidecar/runs.py), the requests that  *)
(* start, cancel, delete and refresh runs (sidecar/dispatcher.py), and the *)
(* conversation files the agent runs write to.                             *)
(*                                                                         *)
(* Everything runs on one event loop, so a step is the code between two    *)
(* suspension points: a request that awaits nothing is one step, a run     *)
(* suspends inside its execute callback and while it gathers the tasks     *)
(* that emit its progress events.  The process may die between any two     *)
(* steps; the files survive.                                               *)
(***************************************************************************)
EXTENDS Conversations, FiniteSets

CONSTANTS
    Runs,         \* run ids; a uuid is never drawn twice
    KindOf,       \* "research", "agent" or "macro", per run
    Threads,      \* thread ids
    Sizes,        \* lengths of the texts appended to a thread
    MaxHistory,   \* how many of the latest runs the history file covers (50)
    MaxEvents,    \* how many events a run keeps (512)
    MaxReports,   \* bound: progress reports per run
    MaxTurns,     \* bound: turns appended to a thread over its life
    MaxCrashes    \* bound: process deaths and restarts

ASSUME SidecarAssumption ==
    /\ KindOf \in [Runs -> {"research", "agent", "macro"}]
    /\ {"none", "unused"} \cap Threads = {}
    /\ Sizes \subseteq Nat \ {0}
    /\ {MaxHistory, MaxEvents} \subseteq Nat \ {0}
    /\ {MaxReports, MaxTurns, MaxCrashes} \subseteq Nat

VARIABLES
    up,        \* the process is running
    op,        \* the request the server is waiting on
    order,     \* keys of _runs, oldest first
    row,       \* the RunRecord and its _drive task, per run in order
    history,   \* run-history.json
    thread,    \* the conversation files, per thread that has one
    asked,     \* ghost: thread of every run ever started, "unused" before
    answered,  \* ghost: runs whose answer was appended
    appended,  \* ghost: turns appended to a thread since its file was created
    crashes    \* bound

vars == <<up, op, order, row, history, thread, asked, answered, appended, crashes>>
files == <<thread, answered, appended>>

---------------------------------------------------------------------------
(* Runs and their rows.                                                     *)

Settled == {"succeeded", "failed", "cancelled"}

\* initial_research_outcome gives demo or pending; evaluate_research_outcome
\* pending (no trading day yet) or judged (profit, loss, flat, observing);
\* unavailable_research_outcome keeps a judgement and replaces the others.
Outcomes == {"none", "demo", "pending", "judged", "unavailable"}
Unavailable(outcome) == IF outcome = "judged" THEN "judged" ELSE "unavailable"

FirstEvent == [seq |-> 1, type |-> "started"]
NewRow == [status |-> "running", task |-> "executing", closing |-> "none",
           reported |-> FALSE, pending |-> 0, events |-> <<FirstEvent>>, outcome |-> "none"]
IdleRow == [NewRow EXCEPT !.task = "restored", !.events = <<>>]

InOrder(r) == r \in Range(order)
Live(r) == InOrder(r) /\ row[r].task \in {"executing", "unwinding", "joining"}

\* a deque drops its oldest event when it is full
LastOf(s, n) == SubSeq(s, 1 + (IF Len(s) > n THEN Len(s) - n ELSE 0), Len(s))
LastSeq(events) == IF events = <<>> THEN 0 ELSE Last(events).seq
Emit(r, type) ==
    [r EXCEPT !.events = LastOf(Append(@, [seq |-> LastSeq(@) + 1, type |-> type]), MaxEvents)]

\* the elements of s that are in Q, in the order of s: SelectSeq for a set, as a
\* function of the prefixes of s that proofs can unfold
OnlyIn(s, Q) ==
    LET Upto[n \in 0..Len(s)] ==
            IF n = 0 THEN <<>>
            ELSE IF s[n] \in Q THEN Append(Upto[n - 1], s[n]) ELSE Upto[n - 1]
    IN  Upto[Len(s)]

\* _persist_history: the settled runs among the last MaxHistory of _runs
Entry(r, rows) == [id |-> r, status |-> rows[r].status, outcome |-> rows[r].outcome]
Recent(keys, rows) ==
    LET settled == OnlyIn(LastOf(keys, MaxHistory), {r \in Runs : rows[r].status \in Settled})
    IN  [i \in DOMAIN settled |-> Entry(settled[i], rows)]
Persist(keys, rows) == history' = Recent(keys, rows)

\* the end of _drive: terminal status, terminal event and the file in one step
Finish(r, ending) ==
    LET done == Emit([row[r] EXCEPT !.status = ending, !.task = "done", !.closing = "none"], ending)
    IN  /\ row' = [row EXCEPT ![r] = done]
        /\ Persist(order, row')

\* Mutation of Settle: the run settles without gathering its report tasks.
SettleAtOnce(r, ending) == Finish(r, ending)

\* execute has returned or raised: the report tasks, if any, are gathered first
Settle(r, ending) ==
    IF row[r].reported
    THEN /\ row' = [row EXCEPT ![r].task = "joining", ![r].closing = ending]
         /\ UNCHANGED history
    ELSE Finish(r, ending)

Idle == [name |-> "idle"]
Serving == up /\ op = Idle

---------------------------------------------------------------------------
(* The drive task of a run.                                                 *)

\* execute calls report(): the event is emitted by a task of its own, later
Report(r) ==
    /\ up /\ InOrder(r) /\ row[r].task = "executing"
    /\ row[r].pending < MaxReports
    /\ Len(SelectSeq(row[r].events, LAMBDA e: e.type = "progress")) + row[r].pending < MaxReports
    /\ row' = [row EXCEPT ![r].reported = TRUE, ![r].pending = @ + 1]
    /\ UNCHANGED <<up, op, order, history, thread, asked, answered, appended, crashes>>

EmitReport(r) ==
    /\ up /\ row[r].pending > 0
    /\ row' = [row EXCEPT ![r] = Emit([row[r] EXCEPT !.pending = @ - 1], "progress")]
    /\ UNCHANGED <<up, op, order, history, thread, asked, answered, appended, crashes>>

Kept(t) == t \in DOMAIN thread
Stored(t) == IF Kept(t) THEN thread[t] ELSE EmptyThread
Save(t, stored) ==
    thread' = [u \in DOMAIN thread \cup {t} |-> IF u = t THEN stored ELSE thread[u]]
SaveTurn(t, turn) ==
    /\ Save(t, AppendTurn(Stored(t), turn))
    /\ appended' = [appended EXCEPT ![t] = @ + 1]

\* a research or macro run returns its payload
ReturnReport(r) ==
    /\ up /\ InOrder(r) /\ row[r].task = "executing" /\ KindOf[r] # "agent"
    /\ Settle(r, "succeeded")
    /\ UNCHANGED <<up, op, order, thread, asked, answered, appended, crashes>>

\* Mutation of ReturnAnswer: a conversation deleted meanwhile is not recreated.
ReturnAnswerUnlessDeleted(r, size) ==
    /\ up /\ InOrder(r) /\ row[r].task = "executing" /\ KindOf[r] = "agent"
    /\ IF Kept(asked[r])
       THEN /\ SaveTurn(asked[r], [role |-> "assistant", run |-> r, size |-> size])
            /\ answered' = answered \cup {r}
       ELSE UNCHANGED files
    /\ Settle(r, "succeeded")
    /\ UNCHANGED <<up, op, order, asked, crashes>>

\* an agent run appends the assistant turn as its last act; the append raises
\* when the file cannot be loaded, and the run fails
ReturnAnswer(r, size) ==
    /\ up /\ InOrder(r) /\ row[r].task = "executing" /\ KindOf[r] = "agent"
    /\ LET t == asked[r]
       IN  IF Readable(Stored(t))
           THEN /\ SaveTurn(t, [role |-> "assistant", run |-> r, size |-> size])
                /\ answered' = answered \cup {r}
                /\ Settle(r, "succeeded")
           ELSE /\ Settle(r, "failed")
                /\ UNCHANGED files
    /\ UNCHANGED <<up, op, order, asked, crashes>>

Raise(r) ==
    /\ up /\ InOrder(r) /\ row[r].task = "executing"
    /\ Settle(r, "failed")
    /\ UNCHANGED <<up, op, order, thread, asked, answered, appended, crashes>>

\* CancelledError reaches the end of execute, or a finally clause raises
Unwound(r, ending) ==
    /\ up /\ InOrder(r) /\ row[r].task = "unwinding"
    /\ Settle(r, ending)
    /\ UNCHANGED <<up, op, order, thread, asked, answered, appended, crashes>>

Joined(r) ==
    /\ up /\ InOrder(r) /\ row[r].task = "joining" /\ row[r].pending = 0
    /\ Finish(r, row[r].closing)
    /\ UNCHANGED <<up, op, order, thread, asked, answered, appended, crashes>>

---------------------------------------------------------------------------
(* Requests.  The server serves one at a time; those that await (cancel,    *)
(* refresh, shutdown) keep op set until they return.                        *)

StartRow(r, t) ==
    /\ asked[r] = "unused"
    /\ asked' = [asked EXCEPT ![r] = t]
    /\ order' = Append(order, r)
    /\ row' = [row EXCEPT ![r] = NewRow]

\* research.start and macro.start
StartReport(r) ==
    /\ Serving /\ KindOf[r] # "agent"
    /\ StartRow(r, "none")
    /\ UNCHANGED <<up, op, history, thread, answered, appended, crashes>>

UserTurn(t, size) ==
    /\ Serving /\ appended[t] < MaxTurns
    /\ Readable(Stored(t))
    /\ SaveTurn(t, [role |-> "user", run |-> "none", size |-> size])

\* agent.start: the user's turn is on disk before the run is created
StartAgent(r, t, size) ==
    /\ KindOf[r] = "agent"
    /\ UserTurn(t, size)
    /\ StartRow(r, t)
    /\ UNCHANGED <<up, op, history, answered, crashes>>

\* agent.start refused by a later check (dates, model, workspace permission):
\* the turn stays
StartAgentRefused(t, size) ==
    /\ UserTurn(t, size)
    /\ UNCHANGED <<up, op, order, row, history, asked, answered, crashes>>

CreateThread(t) ==
    /\ Serving /\ appended[t] = 0 /\ ~Kept(t)
    /\ Save(t, EmptyThread)
    /\ UNCHANGED <<up, op, order, row, history, asked, answered, appended, crashes>>

DeleteThread(t) ==
    /\ Serving /\ Kept(t)
    /\ thread' = [u \in DOMAIN thread \ {t} |-> thread[u]]
    /\ appended' = [appended EXCEPT ![t] = 0]
    /\ UNCHANGED <<up, op, order, row, history, asked, answered, crashes>>

\* Mutation of Interrupted: a run inside execute is not told.
InterruptedLate(r) ==
    IF r.task = "joining" THEN [r EXCEPT !.task = "done", !.pending = 0] ELSE r

\* task.cancel() on a live run: inside execute it unwinds; in the gather the
\* CancelledError leaves _drive and nothing below the gather happens
Interrupted(r) ==
    CASE r.task = "executing" -> [r EXCEPT !.task = "unwinding"]
      [] r.task = "joining"   -> [r EXCEPT !.task = "done", !.pending = 0]
      [] OTHER                -> r

CancelRun(r) ==
    /\ Serving /\ Live(r)
    /\ row' = [row EXCEPT ![r] = Interrupted(@)]
    /\ op' = [name |-> "cancel", run |-> r]
    /\ UNCHANGED <<up, order, history, thread, asked, answered, appended, crashes>>

CancelReturns ==
    /\ up /\ op.name = "cancel" /\ row[op.run].task = "done"
    /\ op' = Idle
    /\ UNCHANGED <<up, order, row, history, thread, asked, answered, appended, crashes>>

\* Mutation of DeleteRun: the file is left for the next run to rewrite.
DeleteRunUnsaved(r) ==
    /\ Serving /\ InOrder(r) /\ ~Live(r)
    /\ order' = OnlyIn(order, Runs \ {r})
    /\ UNCHANGED <<up, op, row, history, thread, asked, answered, appended, crashes>>

DeleteRun(r) ==
    /\ Serving /\ InOrder(r) /\ ~Live(r)
    /\ order' = OnlyIn(order, Runs \ {r})
    /\ Persist(order', row)
    /\ UNCHANGED <<up, op, row, thread, asked, answered, appended, crashes>>

Completed == {r \in Range(order) : row[r].status = "succeeded" /\ KindOf[r] = "research"}

\* research.history: completed research without an outcome gets one; with a
\* refresh, the records on real data are then fetched group by group.
\* The demo records are those of a demo source.
ResearchHistory(demo, refresh) ==
    /\ Serving /\ Completed # {} /\ demo \subseteq Completed
    /\ LET Initial(r) == IF row[r].outcome # "none" THEN row[r].outcome
                         ELSE IF r \in demo THEN "demo" ELSE "pending"
       IN  row' = [r \in Runs |-> IF r \in Completed THEN [row[r] EXCEPT !.outcome = Initial(r)]
                                  ELSE row[r]]
    /\ IF row' = row THEN UNCHANGED history ELSE Persist(order, row')
    /\ op' = LET todo == {r \in Completed : row'[r].outcome # "demo"}
             IN  IF refresh /\ todo # {} THEN [name |-> "refresh", todo |-> todo] ELSE Idle
    /\ UNCHANGED <<up, order, thread, asked, answered, appended, crashes>>

\* one group (source, symbol, adjustment) of the refresh comes back: the later
\* bars judge its records, or there is no later bar, or the fetch failed
Refreshed(group, result) ==
    /\ up /\ op.name = "refresh" /\ group # {} /\ group \subseteq op.todo
    /\ row' = [r \in Runs |->
                 IF r \notin group THEN row[r]
                 ELSE [row[r] EXCEPT !.outcome = IF result = "failed" THEN Unavailable(@) ELSE result]]
    /\ Persist(order, row')
    /\ op' = IF group = op.todo THEN Idle ELSE [op EXCEPT !.todo = @ \ group]
    /\ UNCHANGED <<up, order, thread, asked, answered, appended, crashes>>

\* system.shutdown, or stdin closed: every live run is cancelled and awaited
Shutdown ==
    /\ Serving
    /\ op' = [name |-> "shutdown"]
    /\ row' = [r \in Runs |-> IF Live(r) THEN Interrupted(row[r]) ELSE row[r]]
    /\ UNCHANGED <<up, order, history, thread, asked, answered, appended, crashes>>

Exit ==
    /\ up /\ op.name = "shutdown" /\ \A r \in Runs : ~Live(r)
    /\ up' = FALSE /\ op' = Idle
    /\ order' = <<>> /\ row' = [r \in Runs |-> IdleRow]
    /\ UNCHANGED <<history, thread, asked, answered, appended, crashes>>

Crash ==
    /\ up /\ crashes < MaxCrashes
    /\ up' = FALSE /\ op' = Idle /\ crashes' = crashes + 1
    /\ order' = <<>> /\ row' = [r \in Runs |-> IdleRow]
    /\ UNCHANGED <<history, thread, asked, answered, appended>>

\* _load_history: the rows of the file, without their events
Restart ==
    /\ ~up
    /\ up' = TRUE
    /\ order' = [i \in DOMAIN history |-> history[i].id]
    /\ row' = [r \in Runs |->
                 IF \E i \in DOMAIN history : history[i].id = r
                 THEN LET e == CHOOSE e \in Range(history) : e.id = r
                      IN  [IdleRow EXCEPT !.status = e.status, !.outcome = e.outcome]
                 ELSE IdleRow]
    /\ UNCHANGED <<op, history, thread, asked, answered, appended, crashes>>

---------------------------------------------------------------------------
Init ==
    /\ up = TRUE /\ op = Idle /\ order = <<>>
    /\ row = [r \in Runs |-> IdleRow]
    /\ history = <<>>
    /\ thread = [t \in {} |-> EmptyThread]
    /\ asked = [r \in Runs |-> "unused"]
    /\ answered = {}
    /\ appended = [t \in Threads |-> 0]
    /\ crashes = 0

RunStep(r) ==
    \/ Report(r) \/ EmitReport(r)
    \/ ReturnReport(r) \/ (\E size \in Sizes : ReturnAnswer(r, size)) \/ Raise(r)
    \/ \E ending \in {"cancelled", "failed"} : Unwound(r, ending)
    \/ Joined(r)

Request ==
    \/ \E r \in Runs : StartReport(r) \/ CancelRun(r) \/ DeleteRun(r)
    \/ \E r \in Runs, t \in Threads, size \in Sizes : StartAgent(r, t, size)
    \/ \E t \in Threads, size \in Sizes : StartAgentRefused(t, size)
    \/ \E t \in Threads : CreateThread(t) \/ DeleteThread(t)
    \/ \E demo \in SUBSET Completed, refresh \in BOOLEAN : ResearchHistory(demo, refresh)
    \/ Shutdown

RefreshStep ==
    \E group \in SUBSET Runs, result \in {"judged", "pending", "failed"} : Refreshed(group, result)

Next ==
    \/ \E r \in Runs : RunStep(r)
    \/ Request \/ CancelReturns \/ RefreshStep
    \/ Exit \/ Crash \/ Restart

\* The event loop runs every ready task; an execute callback that was cancelled
\* finishes its finally clauses, a fetch returns or raises.
Fairness ==
    /\ \A r \in Runs :
         /\ WF_vars(EmitReport(r))
         /\ WF_vars(\E ending \in {"cancelled", "failed"} : Unwound(r, ending))
         /\ WF_vars(Joined(r))
    /\ WF_vars(CancelReturns) /\ WF_vars(RefreshStep) /\ WF_vars(Exit)

Spec == Init /\ [][Next]_vars /\ Fairness

---------------------------------------------------------------------------
\* The history file is never behind the registry: every settled run among the
\* latest MaxHistory is in it with its present status and outcome, and no entry
\* differs from the run in memory or outlives a run that was deleted
\* (_persist_history after every change, update_result, delete).
HistoryIsCurrent ==
    up => /\ \A i \in DOMAIN Recent(order, row) : Recent(order, row)[i] \in Range(history)
          /\ \A e \in Range(history) : InOrder(e.id) /\ e = Entry(e.id, row)

\* The event queue of a run tells one story: sequence numbers without a gap,
\* the end of the run last and equal to its status, and nothing after it, even
\* when progress was still queued as execute returned (_drive gathers the report
\* tasks before it settles).
EventsEndOnce ==
    \A r \in Runs : InOrder(r) /\ row[r].task # "restored" =>
        LET events == row[r].events
        IN  /\ \A i \in 1..Len(events) - 1 : events[i + 1].seq = events[i].seq + 1
            /\ \A i \in DOMAIN events :
                 events[i].type \in Settled => i = Len(events) /\ events[i].type = row[r].status
            /\ row[r].status \in Settled => Last(events).type = row[r].status

\* Every answer in a conversation belongs to a run that was asked on that
\* conversation and stands in it once, whatever was deleted, cancelled or
\* restarted in between; a run that reports success has answered.
AnswersBelong ==
    /\ \A t \in DOMAIN thread :
         LET turns   == thread[t].turns
             answers == {i \in DOMAIN turns : turns[i].role = "assistant"}
         IN  /\ \A i \in answers : turns[i].run \in answered /\ asked[turns[i].run] = t
             /\ \A i, j \in answers : turns[i].run = turns[j].run => i = j
    /\ \A r \in Range(order) :
         KindOf[r] = "agent" /\ row[r].status = "succeeded" => r \in answered

\* Compaction loses no turn from the count the thread list shows, and never
\* leaves a file with nothing of the latest turns (compact, list_threads).
TurnsAreCounted ==
    \A t \in DOMAIN thread :
        /\ TurnCount(thread[t]) = appended[t]
        /\ appended[t] > 0 => Len(thread[t].turns) >= Least(appended[t], KeepRecent)

\* Every request is answered: a cancel, a refresh and a shutdown wait for other
\* tasks, and the server reads nothing else until they return.
ServerReturns == (up /\ op # Idle) ~> (op = Idle)

\* A run whose task has ended says so: its status is terminal.
EndedRunsAreSettled ==
    \A r \in Runs : InOrder(r) /\ row[r].task = "done" => row[r].status \in Settled

=============================================================================
