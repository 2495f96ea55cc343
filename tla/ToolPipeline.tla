---------------------------- MODULE ToolPipeline ----------------------------
(***************************************************************************)
(* ToolPipeline.execute_batch (tools/pipeline.py): consecutive calls that  *)
(* are safe together run concurrently, every other call runs alone, and    *)
(* the outcomes come back in the order of the calls.  A call on its own    *)
(* (execute) is a batch of one call that is not safe.                      *)
(*                                                                         *)
(* Each call is prepared (validation, policy hooks, approval, policy       *)
(* decision and tool/call on record), invoked, and its result recorded.    *)
(* Registry, hooks and handlers answer as they like.  The batch may be     *)
(* cancelled at any await and an append may fail.                          *)
(***************************************************************************)
EXTENDS SessionLog, FiniteSets

CONSTANTS
    Calls,      \* the batch: a sequence of [id, safe]
    MaxLost     \* bound: failed appends

ASSUME BatchAssumption == Calls \in Seq([id : STRING, safe : BOOLEAN]) /\ MaxLost \in Nat

VARIABLES
    stream,     \* the event stream
    pos,        \* the call flush_safe_group or the loop is at
    group,      \* the calls that are being executed together, by position
    stage,      \* what is being done with them
    call,       \* per position: where it is and what it ended with
    outcomes,   \* what execute_batch returns
    lost

batchVars == <<stream, pos, group, stage, call, outcomes, lost>>

---------------------------------------------------------------------------
Positions == DOMAIN Calls
Fresh == [at |-> "waiting", result |-> "none"]

\* consecutive safe calls form a group; any other call is a group of its own
GroupFrom(k) ==
    IF ~Calls[k].safe THEN {k}
    ELSE {j \in k..Len(Calls) : \A i \in k..j : Calls[i].safe}

Ready == {i \in group : call[i].at = "called"}
Outcome(i, result) == [id |-> Calls[i].id, result |-> result]
At(i, where, result) == call' = [call EXCEPT ![i] = [at |-> where, result |-> result]]

\* the place of a position in a set of positions, and the position at a place
Place(S, i) == Cardinality({j \in S : j <= i})
AtPlace(S, n) == CHOOSE i \in S : Place(S, i) = n

---------------------------------------------------------------------------
NextGroup ==
    /\ stage = "next" /\ pos <= Len(Calls)
    /\ group' = GroupFrom(pos) /\ stage' = "preparing"
    /\ UNCHANGED <<stream, pos, call, outcomes, lost>>

Done ==
    /\ stage = "next" /\ pos > Len(Calls)
    /\ stage' = "returned"
    /\ UNCHANGED <<stream, pos, group, call, outcomes, lost>>

\* the first call of the group that is not yet prepared
Preparing(i) == stage = "preparing" /\ i = pos /\ i \in group

\* unknown or disallowed tool, arguments against the schema, a hook that raised:
\* nothing is on record
Invalid(i) ==
    /\ Preparing(i) /\ call[i].at = "waiting"
    /\ At(i, "refused", "invalid") /\ pos' = pos + 1
    /\ UNCHANGED <<stream, group, stage, outcomes, lost>>

\* denied by a hook, by the user, or for want of someone to ask
Denied(i) ==
    /\ Preparing(i) /\ call[i].at = "waiting"
    /\ stream' = Append(stream, Event("policy/decision", Calls[i].id, "deny", 0))
    /\ At(i, "refused", "denied") /\ pos' = pos + 1
    /\ UNCHANGED <<group, stage, outcomes, lost>>

Allowed(i) ==
    /\ Preparing(i) /\ call[i].at = "waiting"
    /\ stream' = Append(stream, Event("policy/decision", Calls[i].id, "allow", 0))
    /\ At(i, "allowed", "none")
    /\ UNCHANGED <<pos, group, stage, outcomes, lost>>

\* tool/call; the lifecycle check refuses a second call of one id
Record(i) ==
    LET e == Event("tool/call", Calls[i].id, "none", 0)
    IN  /\ Preparing(i) /\ call[i].at = "allowed"
        /\ IF Accepts(stream, e) THEN stream' = Append(stream, e) /\ At(i, "called", "none")
           ELSE UNCHANGED stream /\ At(i, "refused", "repeated")
        /\ pos' = pos + 1
        /\ UNCHANGED <<group, stage, outcomes, lost>>

\* the append of the decision or of the call fails
PrepareLost(i) ==
    /\ Preparing(i) /\ call[i].at \in {"waiting", "allowed"} /\ lost < MaxLost
    /\ lost' = lost + 1
    /\ At(i, "refused", "lost") /\ pos' = pos + 1
    /\ UNCHANGED <<stream, group, stage, outcomes>>

\* gather: all prepared calls are invoked
Invoke ==
    /\ stage = "preparing" /\ pos \notin group
    /\ stage' = "running"
    /\ call' = [i \in Positions |-> IF i \in Ready THEN [call[i] EXCEPT !.at = "running"] ELSE call[i]]
    /\ UNCHANGED <<stream, pos, group, outcomes, lost>>

\* the handler returns its own result, raises, or is timed out
Ends(i) ==
    /\ stage \in {"running", "stopping"} /\ call[i].at = "running"
    /\ \E result \in {Calls[i].id, "error"} : At(i, "ended", result)
    /\ UNCHANGED <<stream, pos, group, stage, outcomes, lost>>

\* Mutation of Collect: the results are dealt out in order to all calls of the
\* group, prepared or not.
CollectShifted ==
    /\ stage = "running" /\ \A i \in group : call[i].at # "running"
    /\ stage' = "recording" /\ pos' = Min(group)
    /\ LET prepared == {i \in group : call[i].at = "ended"}
       IN  call' = [i \in Positions |->
                      IF i \in group /\ Place(group, i) <= Cardinality(prepared)
                      THEN [call[i] EXCEPT !.result = call[AtPlace(prepared, Place(group, i))].result]
                      ELSE call[i]]
    /\ UNCHANGED <<stream, group, outcomes, lost>>

\* when the last one has ended, the results are dealt out in order to the calls
\* that were prepared
Collect ==
    /\ stage = "running" /\ \A i \in group : call[i].at # "running"
    /\ stage' = "recording" /\ pos' = Min(group)
    /\ LET prepared == {i \in group : call[i].at = "ended"}
       IN  call' = [i \in Positions |->
                      IF i \in prepared
                      THEN [call[i] EXCEPT !.result = call[AtPlace(prepared, Place(prepared, i))].result]
                      ELSE call[i]]
    /\ UNCHANGED <<stream, group, outcomes, lost>>

\* one call of the group: its result goes on record and its outcome to the caller
Deal ==
    /\ stage = "recording" /\ pos \in group
    /\ IF call[pos].at = "ended"
       THEN stream' = Append(stream, Event("tool/result", Calls[pos].id, "none", 0))
       ELSE UNCHANGED stream
    /\ outcomes' = Append(outcomes, Outcome(pos, call[pos].result))
    /\ At(pos, "recorded", call[pos].result)
    /\ pos' = pos + 1
    /\ stage' = IF pos' \in group THEN stage ELSE "next"
    /\ UNCHANGED <<group, lost>>

\* the result's append fails: the outcome of a call on its own is that error, a
\* group is given up
DealLost ==
    /\ stage = "recording" /\ pos \in group /\ call[pos].at = "ended" /\ lost < MaxLost
    /\ lost' = lost + 1
    /\ IF Calls[pos].safe
       THEN stage' = "raised" /\ UNCHANGED <<pos, call, outcomes>>
       ELSE /\ outcomes' = Append(outcomes, Outcome(pos, "error"))
            /\ At(pos, "recorded", "error") /\ pos' = pos + 1 /\ stage' = "next"
    /\ UNCHANGED <<stream, group>>

\* Cancellation.  In an append it leaves at once; handlers that run are cancelled
\* and awaited, and the end of a call on its own is still recorded.
CancelBatch ==
    /\ stage \in {"preparing", "recording", "running"}
    /\ stage' = IF stage = "running" THEN "stopping" ELSE "cancelled"
    /\ UNCHANGED <<stream, pos, group, call, outcomes, lost>>

Stopped ==
    /\ stage = "stopping" /\ \A i \in group : call[i].at # "running"
    /\ stage' = "cancelled"
    /\ LET alone == {i \in group : ~Calls[i].safe /\ call[i].at = "ended"}
       IN  stream' = IF alone = {} THEN stream
                     ELSE Append(stream, Event("tool/result", Calls[Min(alone)].id, "none", 0))
    /\ UNCHANGED <<pos, group, call, outcomes, lost>>

---------------------------------------------------------------------------
InitBatch ==
    /\ stream = <<>> /\ pos = 1 /\ group = {} /\ stage = "next"
    /\ call = [i \in Positions |-> Fresh] /\ outcomes = <<>> /\ lost = 0

NextBatch ==
    \/ NextGroup \/ Done \/ Invoke \/ Collect \/ Deal \/ DealLost \/ CancelBatch \/ Stopped
    \/ \E i \in Positions :
         Invalid(i) \/ Denied(i) \/ Allowed(i) \/ Record(i) \/ PrepareLost(i) \/ Ends(i)

SpecBatch == InitBatch /\ [][NextBatch]_batchVars

---------------------------------------------------------------------------
Of(i, type) == {k \in DOMAIN stream : stream[k].type = type /\ stream[k].id = Calls[i].id}

CallsOnRecord == {k \in DOMAIN stream : stream[k].type = "tool/call"}
ResultsOnRecord == {k \in DOMAIN stream : stream[k].type = "tool/result"}

\* A tool runs after its call was allowed and put on record once, alone unless
\* every running call is safe.  A batch that returns gives every call its own
\* outcome, in the order of the calls, however the calls of a group were refused
\* or overtook each other, and (unless a write failed) each call on record has
\* one result, in the same order (execute_batch).
BatchIsOrderly ==
    /\ \A i \in Positions : call[i].at = "running" =>
         /\ \E c \in Of(i, "tool/call") :
              /\ Of(i, "tool/call") = {c}
              /\ \E k \in Of(i, "policy/decision") : stream[k].ref = "allow" /\ k < c
         /\ Calls[i].safe \/ \A j \in Positions \ {i} : call[j].at # "running"
    /\ \A k \in DOMAIN outcomes :
         /\ k \in Positions /\ outcomes[k].id = Calls[k].id
         /\ outcomes[k].result \in {Calls[k].id, "error", "invalid", "denied", "repeated", "lost"}
    /\ stage = "returned" => Len(outcomes) = Len(Calls)
    /\ stage = "returned" /\ lost = 0 =>
         /\ \A k \in CallsOnRecord : \E j \in ResultsOnRecord : stream[j].id = stream[k].id
         /\ \A j \in ResultsOnRecord : \E k \in CallsOnRecord : stream[j].id = stream[k].id
         /\ \A k, m \in CallsOnRecord, i, j \in ResultsOnRecord :
              stream[i].id = stream[k].id /\ stream[j].id = stream[m].id => (k < m <=> i < j)

=============================================================================
