--------------------------- MODULE AgentSession ---------------------------
(***************************************************************************)
(* One event stream and everything that writes agent lifecycles to it: the *)
(* lead agent that opens or resumes the session and delegates plan tasks   *)
(* to one-shot children (agents/runtime.py, agents/subagents.py), the      *)
(* delegation ledger beside it, and the continuable children that take     *)
(* follow-up turns (agents/continuable.py).                                *)
(*                                                                         *)
(* All of it is one event loop over one process, which may die; the stream,*)
(* the ledger and the attempt counters of the plan survive.  An append is  *)
(* one step here: the event is validated and committed, refused by the     *)
(* lifecycle check, lost to a failed write, or its caller is cancelled     *)
(* while it waits for the store's lock and nothing is written.  What a     *)
(* cancellation in the middle of a write does is the subject of EventStore.*)
(***************************************************************************)
EXTENDS SessionLog, FiniteSets

CONSTANTS
    Tasks,        \* tasks of the plan, each delegated to a one-shot child
    Children,     \* continuable children
    MaxAttempts,  \* attempts of a task
    MaxMessages,  \* bound: follow-ups and settlements submitted to a child
    MaxReports,   \* bound: reports of a child
    MaxFaults,    \* bound: appends lost to a failed write or a cancelled wait
    MaxCrashes    \* bound: process deaths

ASSUME SessionAssumption ==
    /\ MaxAttempts \in Nat \ {0}
    /\ {MaxMessages, MaxReports, MaxFaults, MaxCrashes} \subseteq Nat

VARIABLES
    log,       \* events.jsonl
    ledger,    \* delegations.json: records [child, status] in the order started
    attempts,  \* attempts of each task, kept by the plan file
    lead,      \* where LocalAgentRuntime.execute is
    todo,      \* what _start_session still has to append
    run,       \* the delegation of a task: where it is, how it ended, and the
               \* attempts whose disposal timed out (ghost)
    work,      \* the work task of each one-shot child
    child,     \* the manager's state of each continuable child
    queue,     \* follow-ups waiting for the child's lock, in order
    sent,      \* ghost: follow-ups ever submitted
    worked,    \* ghost: messages whose run_turn was called, in order
    faults, crashes

leadVars == <<ledger, attempts, lead, todo, run, work>>
childVars == <<child, queue, sent, worked>>
vars == <<log, leadVars, childVars, faults, crashes>>

---------------------------------------------------------------------------
OneShots == Tasks \X (1..MaxAttempts)       \* child ids hash task and attempt
Reasons == {"completed", "cancelled", "error"}

Commit(e) == log' = Append(log, e)

\* the lead's own events carry no lifecycle id
LeadId == <<"lead", 0>>
Note(type) == Event(type, LeadId, "none", 0)
Started(c) == Event("subagent/started", c, "none", 0)
Ended(c, reason) == Event("subagent/ended", c, reason, 0)

NoWork == [at |-> "none", reason |-> "none"]
IdleRun == [pc |-> "idle", ended |-> "none", left |-> {}]
FreshChild == [known |-> FALSE, pc |-> "free", message |-> 0,
               settled |-> FALSE, followups |-> 0, turns |-> 0, reports |-> 0]

Alive == lead # "down"

---------------------------------------------------------------------------
(* execute: validate, open or resume the session, load the ledger.          *)

\* a new stream gets three events; an existing one closes every child the
\* projection calls running and is then marked resumed
Opening == <<Note("session/header"), Note("plan/created"), Note("skill/catalog")>>
\* Mutation of Resuming: every child the stream knows is ended again.
ResumingAll ==
    SetToSeq({Ended(c, "interrupted") : c \in ChildrenOf(log)}) \o <<Note("session/resumed")>>

Resuming ==
    SetToSeq({Ended(c, "interrupted") : c \in {x \in ChildrenOf(log) : ChildStatus(log, x) = "running"}})
    \o <<Note("session/resumed")>>

Execute ==
    /\ lead = "ready"
    /\ lead' = "starting"
    /\ todo' = IF log = <<>> THEN Opening ELSE Resuming
    /\ UNCHANGED <<log, ledger, attempts, run, work, childVars, faults, crashes>>

\* DelegationLedger.__init__: what a dead process left running is interrupted
LoadedLedger ==
    [i \in DOMAIN ledger |-> IF ledger[i].status = "running"
                             THEN [ledger[i] EXCEPT !.status = "interrupted"] ELSE ledger[i]]

StartSession ==
    /\ lead = "starting" /\ todo # <<>> /\ Accepts(log, Head(todo))
    /\ Commit(Head(todo)) /\ todo' = Tail(todo)
    /\ IF todo' = <<>> THEN lead' = "executing" /\ ledger' = LoadedLedger
       ELSE UNCHANGED <<lead, ledger>>
    /\ UNCHANGED <<attempts, run, work, childVars, faults, crashes>>

\* the check refuses an event: InvariantError leaves execute
StartRefused ==
    /\ lead = "starting" /\ todo # <<>> /\ ~Accepts(log, Head(todo))
    /\ lead' = "ready" /\ todo' = <<>>
    /\ UNCHANGED <<log, ledger, attempts, run, work, childVars, faults, crashes>>

---------------------------------------------------------------------------
(* delegated: one attempt of a task as a one-shot child.                    *)

ChildOf(t) == <<t, attempts[t]>>
LedgerOf(c) == CHOOSE i \in DOMAIN ledger : ledger[i].child = c
FinishLedger(c, status) == ledger' = [ledger EXCEPT ![LedgerOf(c)].status = status]

\* the executor starts an attempt (its bookkeeping is SubtaskExecutor's)
Delegate(t) ==
    /\ lead = "executing"
    /\ run[t].pc = "idle" \/ (run[t].pc = "done" /\ run[t].ended # "completed")
    /\ attempts[t] < MaxAttempts
    /\ attempts' = [attempts EXCEPT ![t] = @ + 1]
    /\ run' = [run EXCEPT ![t].pc = "loading", ![t].ended = "none"]
    /\ UNCHANGED <<log, ledger, lead, todo, work, childVars, faults, crashes>>

\* skill/loaded, then context.json and the ledger record, then
\* subagents.start creates the gated work task and waits for its append
LoadSkills(t) ==
    /\ Alive /\ run[t].pc = "loading"
    /\ Commit(Note("skill/loaded"))
    /\ ledger' = Append(ledger, [child |-> ChildOf(t), status |-> "running"])
    /\ run' = [run EXCEPT ![t].pc = "starting"]
    /\ work' = [work EXCEPT ![ChildOf(t)].at = "gated"]
    /\ UNCHANGED <<attempts, lead, todo, childVars, faults, crashes>>

StartChild(t) ==
    /\ Alive /\ run[t].pc = "starting" /\ Accepts(log, Started(ChildOf(t)))
    /\ Commit(Started(ChildOf(t)))
    /\ run' = [run EXCEPT ![t].pc = "watching"]
    /\ work' = [work EXCEPT ![ChildOf(t)].at = "working"]
    /\ UNCHANGED <<ledger, attempts, lead, todo, childVars, faults, crashes>>

\* the write fails, or the delegation is cancelled before it: the gated task is
\* cancelled, the exception leaves delegated, and the ledger record stays as it is
StartLost(t, ending) ==
    /\ Alive /\ run[t].pc \in {"loading", "starting"} /\ faults < MaxFaults
    /\ faults' = faults + 1
    /\ run' = [run EXCEPT ![t].pc = "done", ![t].ended = ending]
    /\ work' = [work EXCEPT ![ChildOf(t)] = NoWork]
    /\ UNCHANGED <<log, ledger, attempts, lead, todo, childVars, crashes>>

\* the handler returns or raises
WorkEnds(c, reason) ==
    /\ Alive /\ work[c].at \in {"working", "unwinding"}
    /\ reason = "cancelled" => work[c].at = "unwinding"
    /\ work' = [work EXCEPT ![c] = [at |-> "ended", reason |-> reason]]
    /\ UNCHANGED <<log, ledger, attempts, lead, todo, run, childVars, faults, crashes>>

\* the monitor commits the end before it publishes the result
Settle(c) ==
    /\ Alive /\ work[c].at = "ended" /\ Accepts(log, Ended(c, work[c].reason))
    /\ Commit(Ended(c, work[c].reason))
    /\ work' = [work EXCEPT ![c].at = "settled"]
    /\ UNCHANGED <<ledger, attempts, lead, todo, run, childVars, faults, crashes>>

\* Mutation of SettleFails: the outcome stands although its event is lost.
SettleFailsUnnoticed(c) ==
    /\ Alive /\ work[c].at = "ended" /\ faults < MaxFaults
    /\ faults' = faults + 1
    /\ work' = [work EXCEPT ![c].at = "settled"]
    /\ UNCHANGED <<log, ledger, attempts, lead, todo, run, childVars, crashes>>

\* or the append fails, and the result is an error whatever the work did
SettleFails(c) ==
    /\ Alive /\ work[c].at = "ended" /\ faults < MaxFaults
    /\ faults' = faults + 1
    /\ work' = [work EXCEPT ![c] = [at |-> "settled", reason |-> "error"]]
    /\ UNCHANGED <<log, ledger, attempts, lead, todo, run, childVars, crashes>>

LedgerStatus(reason) ==
    CASE reason = "completed" -> "succeeded" [] reason = "cancelled" -> "cancelled" [] OTHER -> "failed"

Collect(t) ==
    /\ Alive /\ run[t].pc = "watching" /\ work[ChildOf(t)].at = "settled"
    /\ LET reason == work[ChildOf(t)].reason
       IN  /\ FinishLedger(ChildOf(t), LedgerStatus(reason))
           /\ run' = [run EXCEPT ![t].pc = "done", ![t].ended = reason]
    /\ UNCHANGED <<log, attempts, lead, todo, work, childVars, faults, crashes>>

\* Mutation of CancelDelegation: the delegation ends without dispose.
CancelWithoutDispose(t) ==
    /\ Alive /\ run[t].pc = "watching"
    /\ FinishLedger(ChildOf(t), "cancelled")
    /\ work' = [work EXCEPT ![ChildOf(t)].at = IF @ = "working" THEN "unwinding" ELSE @]
    /\ run' = [run EXCEPT ![t].pc = "done", ![t].ended = "cancelled"]
    /\ UNCHANGED <<log, attempts, lead, todo, childVars, faults, crashes>>

\* Mutation of CancelDelegation: dispose waits for work nobody cancelled.
CancelWithoutWork(t) ==
    /\ Alive /\ run[t].pc = "watching"
    /\ FinishLedger(ChildOf(t), "cancelled")
    /\ run' = [run EXCEPT ![t].pc = "disposing"]
    /\ UNCHANGED <<log, attempts, lead, todo, work, childVars, faults, crashes>>

\* timeout or cancellation of the delegation: the work is cancelled, the ledger
\* written, then dispose waits for the monitor
CancelDelegation(t) ==
    /\ Alive /\ run[t].pc = "watching"
    /\ FinishLedger(ChildOf(t), "cancelled")
    /\ work' = [work EXCEPT ![ChildOf(t)].at = IF @ = "working" THEN "unwinding" ELSE @]
    /\ run' = [run EXCEPT ![t].pc = "disposing"]
    /\ UNCHANGED <<log, attempts, lead, todo, childVars, faults, crashes>>

Disposed(t) ==
    /\ Alive /\ run[t].pc = "disposing" /\ work[ChildOf(t)].at = "settled"
    /\ run' = [run EXCEPT ![t].pc = "done", ![t].ended = "cancelled"]
    /\ UNCHANGED <<log, ledger, attempts, lead, todo, work, childVars, faults, crashes>>

\* shutdown_timeout: RuntimeError replaces the cancellation
DisposeTimesOut(t) ==
    /\ Alive /\ run[t].pc = "disposing" /\ work[ChildOf(t)].at # "settled"
    /\ run' = [run EXCEPT ![t].pc = "done", ![t].ended = "stuck", ![t].left = @ \cup {attempts[t]}]
    /\ UNCHANGED <<log, ledger, attempts, lead, todo, work, childVars, faults, crashes>>

\* every task has ended for good: plan/status, and execute returns
Return ==
    /\ lead = "executing"
    /\ \A t \in Tasks : run[t].pc = "done"
    /\ Commit(Note("plan/status"))
    /\ lead' = "returned"
    /\ UNCHANGED <<ledger, attempts, todo, run, work, childVars, faults, crashes>>

---------------------------------------------------------------------------
(* ContinuableSubagentManager.  pc says which step of followup or settle    *)
(* holds the child's lock; the asyncio lock hands itself on in order.       *)

Set(c, state) == child' = [child EXCEPT ![c] = state]
Freed(c) == [child[c] EXCEPT !.pc = "free", !.message = 0]
Id(c) == <<c, 0>>
ChildEvent(type, c, ref, num) == Event(type, Id(c), ref, num)
\* the turn under way: its id is a hash of the child, the turn and the follow-up
TurnEvent(type, c) == ChildEvent(type, c, child[c].followups, child[c].turns)

Create(c) ==
    /\ Alive /\ ~child[c].known
    /\ Accepts(log, ChildEvent("subagent/created", c, "none", 0))
    /\ Commit(ChildEvent("subagent/created", c, "none", 0))
    /\ Set(c, [child[c] EXCEPT !.known = TRUE])
    /\ UNCHANGED <<leadVars, queue, sent, worked, faults, crashes>>

\* a follow-up (or a settlement, as message 0) queues on the child's lock
Submit(c, settle) ==
    /\ Alive /\ child[c].known /\ sent[c] < MaxMessages
    /\ sent' = [sent EXCEPT ![c] = @ + 1]
    /\ queue' = [queue EXCEPT ![c] = Append(@, IF settle THEN 0 ELSE sent'[c])]
    /\ UNCHANGED <<log, leadVars, child, worked, faults, crashes>>

\* Mutation of Take: the latest waiter gets the lock.
TakeLast(c) ==
    /\ Alive /\ child[c].pc = "free" /\ queue[c] # <<>>
    /\ queue' = [queue EXCEPT ![c] = Front(@)]
    /\ LET m == Last(queue[c])
       IN  IF child[c].settled THEN UNCHANGED child
           ELSE IF m = 0 THEN Set(c, [child[c] EXCEPT !.pc = "settling"])
           ELSE Set(c, [child[c] EXCEPT !.pc = "following", !.message = m,
                                         !.followups = @ + 1])
    /\ UNCHANGED <<log, leadVars, sent, worked, faults, crashes>>

\* the next in line takes the lock; on a settled child it has nothing to do
Take(c) ==
    /\ Alive /\ child[c].pc = "free" /\ queue[c] # <<>>
    /\ queue' = [queue EXCEPT ![c] = Tail(@)]
    /\ LET m == Head(queue[c])
       IN  IF child[c].settled THEN UNCHANGED child
           ELSE IF m = 0 THEN Set(c, [child[c] EXCEPT !.pc = "settling"])
           ELSE Set(c, [child[c] EXCEPT !.pc = "following", !.message = m,
                                         !.followups = @ + 1])
    /\ UNCHANGED <<log, leadVars, sent, worked, faults, crashes>>

Follow(c) ==
    LET e == ChildEvent("subagent/followup", c, "none", child[c].followups)
    IN  /\ Alive /\ child[c].pc = "following"
        /\ IF Accepts(log, e)
           THEN Commit(e) /\ Set(c, [child[c] EXCEPT !.pc = "opening", !.turns = @ + 1])
           ELSE UNCHANGED log /\ Set(c, Freed(c))
        /\ UNCHANGED <<leadVars, queue, sent, worked, faults, crashes>>

StartTurn(c) ==
    LET e == TurnEvent("subagent/turn-started", c)
    IN  /\ Alive /\ child[c].pc = "opening"
        /\ IF Accepts(log, e)
           THEN /\ Commit(e) /\ Set(c, [child[c] EXCEPT !.pc = "working"])
                /\ worked' = [worked EXCEPT ![c] = Append(@, child[c].message)]
           ELSE UNCHANGED <<log, worked>> /\ Set(c, Freed(c))
        /\ UNCHANGED <<leadVars, queue, sent, faults, crashes>>

ReportTurn(c) ==
    LET e == TurnEvent("subagent/report", c)
    IN  /\ Alive /\ child[c].pc = "working" /\ child[c].reports < MaxReports
        /\ Accepts(log, e) /\ Commit(e)
        /\ Set(c, [child[c] EXCEPT !.reports = @ + 1])
        /\ UNCHANGED <<leadVars, queue, sent, worked, faults, crashes>>

\* run_turn returns, raises, or is cancelled: the turn is ended all the same
TurnEnds(c) ==
    /\ Alive /\ child[c].pc = "working"
    /\ Set(c, [child[c] EXCEPT !.pc = "ending"])
    /\ UNCHANGED <<log, leadVars, queue, sent, worked, faults, crashes>>

EndTurn(c) ==
    LET e == TurnEvent("subagent/turn-ended", c)
    IN  /\ Alive /\ child[c].pc = "ending"
        /\ IF Accepts(log, e) THEN Commit(e) ELSE UNCHANGED log
        /\ Set(c, Freed(c))
        /\ UNCHANGED <<leadVars, queue, sent, worked, faults, crashes>>

SettleChild(c) ==
    LET e == ChildEvent("subagent/settled", c, "completed", 0)
    IN  /\ Alive /\ child[c].pc = "settling"
        /\ IF Accepts(log, e) THEN Commit(e) /\ Set(c, [Freed(c) EXCEPT !.settled = TRUE])
           ELSE UNCHANGED log /\ Set(c, Freed(c))
        /\ UNCHANGED <<leadVars, queue, sent, worked, faults, crashes>>

\* the append a follow-up or settlement is in fails, or its caller is cancelled
\* there: the lock is released with the counters as they are
AppendLost(c) ==
    /\ Alive /\ child[c].pc \in {"following", "opening", "ending", "settling"}
    /\ faults < MaxFaults /\ faults' = faults + 1
    /\ Set(c, Freed(c))
    /\ UNCHANGED <<log, leadVars, queue, sent, worked, crashes>>

---------------------------------------------------------------------------
(* Death and restoration.                                                   *)

Crash ==
    /\ Alive /\ crashes < MaxCrashes /\ crashes' = crashes + 1
    /\ lead' = "down" /\ todo' = <<>>
    /\ run' = [t \in Tasks |-> IdleRun] /\ work' = [c \in OneShots |-> NoWork]
    /\ child' = [c \in Children |-> FreshChild] /\ queue' = [c \in Children |-> <<>>]
    /\ UNCHANGED <<log, ledger, attempts, sent, worked, faults>>

Boot ==
    /\ lead = "down" /\ lead' = "ready"
    /\ UNCHANGED <<log, ledger, attempts, todo, run, work, childVars, faults, crashes>>

Count(type, c) == Cardinality({i \in DOMAIN log : log[i].type = type /\ log[i].id = Id(c)})

\* restore, for one child: the counters are those of the stream
Restored(c) ==
    [FreshChild EXCEPT !.known = TRUE, !.settled = Has(log, "subagent/settled", Id(c)),
                       !.followups = Count("subagent/followup", c),
                       !.turns = Count("subagent/turn-started", c),
                       !.reports = Count("subagent/report", c)]

\* open_turns: the start of a turn that no later start replaced or end removed
OpenTurns(c) ==
    {i \in DOMAIN log : /\ log[i].type = "subagent/turn-started" /\ log[i].id = Id(c)
                        /\ \A j \in DOMAIN log : j > i /\ log[j].id = Id(c) =>
                             log[j].type \notin {"subagent/turn-started", "subagent/turn-ended"}}

\* Mutation of Restore: the turn that ends is the one the counters name.
RestoreByCount(c) ==
    /\ Alive /\ ~child[c].known /\ Has(log, "subagent/created", Id(c))
    /\ Set(c, Restored(c))
    /\ LET now == Restored(c)
       IN  IF OpenTurns(c) = {} THEN UNCHANGED log
           ELSE Commit(ChildEvent("subagent/turn-ended", c, now.followups, now.turns))
    /\ UNCHANGED <<leadVars, queue, sent, worked, faults, crashes>>

\* a turn left open is ended, by the id its start carries, as an error with
\* unknown outcome, and never run again; a refused end would leave restore
Restore(c) ==
    /\ Alive /\ ~child[c].known /\ Has(log, "subagent/created", Id(c))
    /\ Set(c, Restored(c))
    /\ \/ OpenTurns(c) = {} /\ UNCHANGED log
       \/ \E i \in OpenTurns(c) :
            LET e == ChildEvent("subagent/turn-ended", c, log[i].ref, log[i].num)
            IN  Accepts(log, e) /\ Commit(e)
    /\ UNCHANGED <<leadVars, queue, sent, worked, faults, crashes>>

---------------------------------------------------------------------------
Init ==
    /\ log = <<>> /\ ledger = <<>>
    /\ attempts = [t \in Tasks |-> 0]
    /\ lead = "ready" /\ todo = <<>>
    /\ run = [t \in Tasks |-> IdleRun] /\ work = [c \in OneShots |-> NoWork]
    /\ child = [c \in Children |-> FreshChild] /\ queue = [c \in Children |-> <<>>]
    /\ sent = [c \in Children |-> 0] /\ worked = [c \in Children |-> <<>>]
    /\ faults = 0 /\ crashes = 0

DelegationStep(t) ==
    \/ Delegate(t) \/ LoadSkills(t) \/ StartChild(t)
    \/ \E ending \in {"cancelled", "error"} : StartLost(t, ending)
    \/ Collect(t) \/ CancelDelegation(t) \/ Disposed(t) \/ DisposeTimesOut(t)
MonitorStep(c) == (\E reason \in Reasons : WorkEnds(c, reason)) \/ Settle(c) \/ SettleFails(c)
ChildStep(c) ==
    \/ Create(c) \/ (\E settle \in BOOLEAN : Submit(c, settle)) \/ Take(c) \/ Follow(c) \/ StartTurn(c)
    \/ ReportTurn(c) \/ TurnEnds(c) \/ EndTurn(c)
    \/ SettleChild(c) \/ AppendLost(c) \/ Restore(c)

Next ==
    \/ Execute \/ StartSession \/ StartRefused \/ Return
    \/ \E t \in Tasks : DelegationStep(t)
    \/ \E c \in OneShots : MonitorStep(c)
    \/ \E c \in Children : ChildStep(c)
    \/ Crash \/ Boot

\* ready coroutines run, a cancelled handler ends, a turn of a child returns
Fairness ==
    /\ \A c \in OneShots :
         WF_vars(Settle(c)) /\ WF_vars(work[c].at = "unwinding" /\ \E r \in Reasons : WorkEnds(c, r))
    /\ \A t \in Tasks : WF_vars(Collect(t) \/ Disposed(t))
    /\ \A c \in Children :
         /\ WF_vars(Take(c) \/ Follow(c) \/ StartTurn(c) \/ EndTurn(c) \/ SettleChild(c))
         /\ WF_vars(TurnEnds(c))

Spec == Init /\ [][Next]_vars /\ Fairness

---------------------------------------------------------------------------
\* A delegation the ledger calls succeeded has its completed end in the stream:
\* the monitor commits before it publishes, so no crash, failed write or late
\* cancellation makes the ledger claim more than the stream can show.
LedgerIsBacked ==
    \A i \in DOMAIN ledger : ledger[i].status = "succeeded" =>
        \E k \in DOMAIN log : log[k] = Ended(ledger[i].child, "completed")

\* Two attempts of one task never work at the same time, unless the disposal of
\* the first one timed out: dispose waits for the cancelled child's settlement
\* before the executor can retry.
AttemptsDoNotOverlap ==
    \A t \in Tasks : \A k \in 1..MaxAttempts :
        work[<<t, k>>].at \in {"working", "unwinding"} =>
            k = attempts[t] \/ k \in run[t].left

\* Follow-ups of a child run in the order they were submitted, each at most
\* once, over settlements, crashes and restores: an interrupted
\* turn is never replayed.
TurnsAreFifo ==
    \A c \in Children : \A i, j \in DOMAIN worked[c] : i < j => worked[c][i] < worked[c][j]

\* A restore leaves its child in no turn: whatever appends were lost before the
\* process died, the turn restore ends is the one the lifecycle check holds open,
\* so the next follow-up can start a turn again.
RestoreEndsTurns ==
    [][\A c \in Children : ~child[c].known /\ child'[c].known => ~InTurn(log', Id(c))]_vars

\* A resume is refused only over a continuable child in a turn: _start_session
\* closes every child the projection calls running with subagent/ended, which
\* the check accepts for one-shot children alone.
OnlyTurnsBlockResume ==
    lead = "starting" /\ todo # <<>> /\ ~Accepts(log, Head(todo)) =>
        \E c \in Children : Head(todo).id = Id(c)

\* A delegation that is cancelled ends even without the shutdown timeout: the
\* work is cancelled first, and its monitor settles whatever the store does.
DisposalEnds == \A t \in Tasks : (run[t].pc = "disposing") ~> (run[t].pc # "disposing")

=============================================================================
