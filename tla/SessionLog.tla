---------------------------- MODULE SessionLog ----------------------------
(***************************************************************************)
(* The laws every durable event stream obeys: the lifecycle check that     *)
(* WorkspaceEventStore runs on a candidate stream before it commits an     *)
(* event (harness/invariants.py), and the projection a resume reads        *)
(* (harness/projections.py), both as functions of the stream.              *)
(*                                                                         *)
(* An event is a record [type, id, ref, num]: id names what begins or ends *)
(* (a turn, step, call, request or child), ref what it belongs to or the   *)
(* reason it stopped for, num numbers a follow-up or a child's turn, or is *)
(* the place of a model request's header (0 when it names none).  A turn   *)
(* of a child is identified by its follow-up (ref) and its number (num)    *)
(* together, as its id is a hash of both.                                  *)
(***************************************************************************)
EXTENDS Integers, SequencesExt

Event(type, id, ref, num) == [type |-> type, id |-> id, ref |-> ref, num |-> num]

Has(log, type, id) == \E i \in DOMAIN log : log[i].type = type /\ log[i].id = id
Nth(log, type, id, num) ==
    \E i \in DOMAIN log : log[i].type = type /\ log[i].id = id /\ log[i].num = num

\* begun and not ended, for the pairs of the lifecycle check
Open(log, begin, end, id) == Has(log, begin, id) /\ ~Has(log, end, id)
AnyOpen(log, begin, end) ==
    \E i \in DOMAIN log : log[i].type = begin /\ ~Has(log, end, log[i].id)

OpenTurn(log, turn) == Open(log, "turn/started", "turn/ended", turn)
OpenStep(log, step) == Open(log, "step/started", "step/ended", step)
OpenTool(log, call) == Open(log, "tool/call", "tool/result", call)
OpenModel(log, request) ==
    Has(log, "model/request", request)
    /\ ~Has(log, "model/response", request) /\ ~Has(log, "model/failure", request)
OpenChild(log, child) == Open(log, "subagent/started", "subagent/ended", child)

\* the turn of a continuable child; its turns never overlap
OfTurn(log, type, child, followup, num) ==
    \E i \in DOMAIN log : log[i].type = type /\ log[i].id = child
                          /\ log[i].ref = followup /\ log[i].num = num
OpenChildTurn(log, child, followup, num) ==
    /\ OfTurn(log, "subagent/turn-started", child, followup, num)
    /\ ~OfTurn(log, "subagent/turn-ended", child, followup, num)
InTurn(log, child) ==
    \E i \in DOMAIN log : log[i].type = "subagent/turn-started" /\ log[i].id = child
                          /\ OpenChildTurn(log, child, log[i].ref, log[i].num)
Available(log, child) ==
    Has(log, "subagent/created", child) /\ ~Has(log, "subagent/settled", child)

AcceptsAgent(log, e) ==
    /\ e.type = "turn/started"  => ~Has(log, "turn/started", e.id)
    /\ e.type = "step/started"  => OpenTurn(log, e.ref) /\ ~Has(log, "step/started", e.id)
    /\ e.type = "step/ended"    => /\ OpenStep(log, e.id)
                                   /\ \E i \in DOMAIN log : log[i].type = "step/started"
                                        /\ log[i].id = e.id /\ log[i].ref = e.ref
    /\ e.type = "turn/ended"    => /\ OpenTurn(log, e.id)
                                   /\ ~\E i \in DOMAIN log : log[i].type = "step/started"
                                        /\ log[i].ref = e.id /\ OpenStep(log, log[i].id)
    /\ e.type = "session/ended" => /\ ~AnyOpen(log, "turn/started", "turn/ended")
                                   /\ ~AnyOpen(log, "step/started", "step/ended")
                                   /\ ~AnyOpen(log, "tool/call", "tool/result")
                                   /\ \A i \in DOMAIN log : ~OpenModel(log, log[i].id)

AcceptsCall(log, e) ==
    /\ e.type = "request/header" => ~Has(log, "request/header", e.id)
    /\ e.type = "tool/call"      => ~Has(log, "tool/call", e.id)
    /\ e.type = "tool/result"    => OpenTool(log, e.id)
    /\ e.type = "model/request"  => /\ ~Has(log, "model/request", e.id)
                                    /\ e.num # 0 => /\ e.num \in DOMAIN log
                                                    /\ log[e.num].type = "request/header"
                                                    /\ log[e.num].id = e.id
    /\ e.type \in {"model/response", "model/failure"} => OpenModel(log, e.id)

AcceptsChild(log, e) ==
    /\ e.type \in {"subagent/started", "subagent/created"} =>
         ~Has(log, "subagent/started", e.id) /\ ~Has(log, "subagent/created", e.id)
    /\ e.type = "subagent/ended"        => OpenChild(log, e.id)
    /\ e.type = "subagent/followup"     => /\ Available(log, e.id)
                                           /\ ~Nth(log, "subagent/followup", e.id, e.num)
    /\ e.type = "subagent/turn-started" =>
         /\ Nth(log, "subagent/followup", e.id, e.ref)
         /\ ~\E i \in DOMAIN log : /\ log[i].type = "subagent/turn-started"
                                   /\ log[i].id = e.id /\ log[i].ref = e.ref
         /\ ~InTurn(log, e.id)
    /\ e.type \in {"subagent/report", "subagent/turn-ended"} => OpenChildTurn(log, e.id, e.ref, e.num)
    /\ e.type = "subagent/settled"      => Available(log, e.id) /\ ~InTurn(log, e.id)

Accepts(log, e) == AcceptsAgent(log, e) /\ AcceptsCall(log, e) /\ AcceptsChild(log, e)

---------------------------------------------------------------------------
(* The projection: the status of a child is that of its last event that     *)
(* changes it.                                                              *)

StatusEvents == {"subagent/started", "subagent/ended", "subagent/created",
                 "subagent/turn-started", "subagent/turn-ended", "subagent/settled"}

ChildStatus(log, child) ==
    LET own  == {i \in DOMAIN log : log[i].id = child /\ log[i].type \in StatusEvents}
        last == log[Max(own)]
    IN  IF own = {} THEN "unknown"
        ELSE CASE last.type \in {"subagent/started", "subagent/turn-started"} -> "running"
               [] last.type \in {"subagent/created", "subagent/turn-ended"}   -> "idle"
               [] OTHER -> last.ref

ChildrenOf(log) ==
    {log[i].id : i \in {j \in DOMAIN log : log[j].type \in StatusEvents}}

=============================================================================
