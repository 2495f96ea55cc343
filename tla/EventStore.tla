------------------------------ MODULE EventStore ------------------------------
(***************************************************************************)
(* harness/events.py, WorkspaceEventStore: the append-only events.jsonl of *)
(* a desktop session, its in-memory copy, the asyncio lock the clients of  *)
(* one store queue up in, and the threads that do the writing.             *)
(*                                                                         *)
(* A client that is cancelled leaves the lock at once; the thread it sent  *)
(* off with asyncio.to_thread cannot be called back and goes on writing.   *)
(* A write may fail, and the process may die, in the middle of a line.     *)
(* An event is its number in the order of the calls; payloads, identities  *)
(* and the size limit are left out, as are load() (the first half of an    *)
(* append) and flush() (which writes nothing).                             *)
(***************************************************************************)
EXTENDS Naturals, Sequences, SequencesExt

CONSTANTS
  Clients,      \* the coroutines that share one store
  NotLoaded,    \* _events = None
  MaxEvents,    \* bound of the model: how many appends are called
  MaxCrashes,   \* bound of the model: how often the process dies
  MaxFailures   \* bound of the model: how many writes fail

ASSUME BoundsAssumption ==
  MaxEvents \in Nat /\ MaxCrashes \in Nat /\ MaxFailures \in Nat

VARIABLES
  file,      \* the complete lines of events.jsonl
  torn,      \* whether an incomplete line follows them
  events,    \* self._events
  line,      \* the clients at the lock, its holder first
  pc,        \* where each client's append is
  record,    \* the record each client appends
  threads,   \* the records that threads are writing
  calls,     \* how many appends were called
  acked,     \* the events whose append returned, in order
  strays,    \* the events whose append was cancelled behind its thread
  crashes,   \* how often the process died
  failures   \* how many writes failed

disk   == <<file, torn>>
client == <<line, pc, record>>
counts == <<crashes, failures>>
vars   == <<disk, events, client, threads, calls, acked, strays, counts>>

Record   == [seq : Nat, event : 0..MaxEvents]
NoRecord == [seq |-> 0, event |-> 0]   \* also a line no event can be read from

Holds(c) == line # <<>> /\ Head(line) = c

\* The identities of the session aside, what _load_sync and the session
\* invariant demand of a log.
Continuous(log) == \A i \in DOMAIN log : log[i].seq = i

\* c leaves the lock, wherever in the queue it is.
Leave(c) ==
  /\ \E i \in DOMAIN line : line[i] = c /\ line' = RemoveAt(line, i)
  /\ pc' = [pc EXCEPT ![c] = "idle"]
  /\ record' = [record EXCEPT ![c] = NoRecord]

Init == /\ file = <<>> /\ torn = FALSE
        /\ events = NotLoaded
        /\ line = <<>>
        /\ pc = [c \in Clients |-> "idle"]
        /\ record = [c \in Clients |-> NoRecord]
        /\ threads = {}
        /\ calls = 0
        /\ acked = <<>>
        /\ strays = {}
        /\ crashes = 0
        /\ failures = 0

-----------------------------------------------------------------------------
(* append. *)

\* append is called, and asks for the lock.
Call(c) ==
  /\ pc[c] = "idle" /\ calls < MaxEvents
  /\ calls' = calls + 1
  /\ line' = Append(line, c)
  /\ pc' = [pc EXCEPT ![c] = "queued"]
  /\ record' = [record EXCEPT ![c] = [seq |-> 0, event |-> calls + 1]]
  /\ UNCHANGED <<disk, events, threads, acked, strays, counts>>

\* _load_locked of the first append: the whole file, if it is in order.
Load(c) ==
  /\ pc[c] = "queued" /\ Holds(c) /\ events = NotLoaded
  /\ ~torn /\ Continuous(file)
  /\ events' = file
  /\ UNCHANGED <<disk, client, threads, calls, acked, strays, counts>>

\* EventCorruptionError or InvariantError: from the log, which a thread may be
\* in the middle of a line of; or, once the log is loaded, from the candidate.
Refuse(c) ==
  /\ pc[c] = "queued" /\ Holds(c)
  /\ events = NotLoaded => torn \/ ~Continuous(file) \/ threads # {}
  /\ Leave(c)
  /\ UNCHANGED <<disk, events, threads, calls, acked, strays, counts>>

\* Mutation of Write: the number is taken without the lock.
WriteUnlocked(c) ==
  /\ pc[c] = "queued" /\ events # NotLoaded
  /\ LET r == [record[c] EXCEPT !.seq = Len(events) + 1]
     IN /\ record' = [record EXCEPT ![c] = r]
        /\ threads' = threads \cup {r}
  /\ pc' = [pc EXCEPT ![c] = "writing"]
  /\ UNCHANGED <<disk, events, line, calls, acked, strays, counts>>

\* The record takes the next number, and a thread to write it.
Write(c) ==
  /\ pc[c] = "queued" /\ Holds(c) /\ events # NotLoaded
  /\ LET r == [record[c] EXCEPT !.seq = Len(events) + 1]
     IN /\ record' = [record EXCEPT ![c] = r]
        /\ threads' = threads \cup {r}
  /\ pc' = [pc EXCEPT ![c] = "writing"]
  /\ UNCHANGED <<disk, events, line, calls, acked, strays, counts>>

\* The thread of r is done, and its client, unless cancelled, is told so.
Ends(r, outcome) ==
  /\ r \in threads
  /\ threads' = threads \ {r}
  /\ pc' = [c \in Clients |-> IF pc[c] = "writing" /\ record[c] = r
                             THEN outcome ELSE pc[c]]

\* The whole line of r.  O_APPEND keeps the lines of two threads apart, but
\* continues an incomplete line.
WriteLine(r) ==
  /\ file' = Append(file, IF torn THEN NoRecord ELSE r)
  /\ torn' = FALSE

\* _append_sync in its thread, fsync included.
ThreadEnds(r) ==
  /\ Ends(r, "written")
  /\ WriteLine(r)
  /\ UNCHANGED <<events, line, record, calls, acked, strays, counts>>

\* OSError or EventError in the thread: before the line, within it, or from the
\* fsync after it.
ThreadFails(r) ==
  /\ failures < MaxFailures
  /\ failures' = failures + 1
  /\ Ends(r, "failed")
  /\ \/ torn' \in {torn, TRUE} /\ UNCHANGED file
     \/ WriteLine(r)
  /\ UNCHANGED <<events, line, record, calls, acked, strays, crashes>>

\* Mutation of Raise: the error path does not release the lock.
RaiseHolding(c) ==
  /\ pc[c] = "failed"
  /\ pc' = [pc EXCEPT ![c] = "idle"]
  /\ record' = [record EXCEPT ![c] = NoRecord]
  /\ UNCHANGED <<disk, events, line, threads, calls, acked, strays, counts>>

Raise(c) ==
  /\ pc[c] = "failed"
  /\ Leave(c)
  /\ UNCHANGED <<disk, events, threads, calls, acked, strays, counts>>

\* Mutation of Finish: the thread is not awaited.
FinishEarly(c) ==
  /\ pc[c] \in {"writing", "written"}
  /\ events' = Append(events, record[c])
  /\ acked' = Append(acked, record[c].event)
  /\ Leave(c)
  /\ UNCHANGED <<disk, threads, calls, strays, counts>>

\* The thread has returned: the candidate becomes the copy.
Finish(c) ==
  /\ pc[c] = "written"
  /\ events' = Append(events, record[c])
  /\ acked' = Append(acked, record[c].event)
  /\ Leave(c)
  /\ UNCHANGED <<disk, threads, calls, strays, counts>>

-----------------------------------------------------------------------------
(* Cancellation, and the life of the process. *)

\* CancelledError at the await: of the lock or the load, or of the thread, which
\* goes on unless no worker of the pool had taken it up.
Cancel(c) ==
  /\ pc[c] # "idle"
  /\ IF pc[c] \in {"queued", "failed"} THEN UNCHANGED <<threads, strays>>
     ELSE \/ strays' = strays \cup {record[c].event} /\ UNCHANGED threads
          \/ /\ pc[c] = "writing"
             /\ threads' = threads \ {record[c]}
             /\ UNCHANGED strays
  /\ Leave(c)
  /\ UNCHANGED <<disk, events, calls, acked, counts>>

\* The next execution of the plan opens a store of its own on the same file;
\* the old store's threads may still be at work.
Reopen ==
  /\ line = <<>> /\ events # NotLoaded
  /\ events' = NotLoaded
  /\ UNCHANGED <<disk, client, threads, calls, acked, strays, counts>>

\* The process dies.  Of a record that was being written, part may be there.
Crash ==
  /\ crashes < MaxCrashes
  /\ crashes' = crashes + 1
  /\ torn' \in IF threads = {} THEN {torn} ELSE {torn, TRUE}
  /\ events' = NotLoaded
  /\ line' = <<>>
  /\ pc' = [c \in Clients |-> "idle"]
  /\ record' = [c \in Clients |-> NoRecord]
  /\ threads' = {}
  /\ UNCHANGED <<file, calls, acked, strays, failures>>

Step(c) == Load(c) \/ Refuse(c) \/ Write(c) \/ Finish(c) \/ Raise(c)

Next == \/ \E c \in Clients : Call(c) \/ Step(c) \/ Cancel(c)
        \/ \E r \in threads : ThreadEnds(r) \/ ThreadFails(r)
        \/ Reopen \/ Crash

Spec == Init /\ [][Next]_vars

\* The event loop runs what it can run, and a write comes to its end.
FairSpec ==
  /\ Spec
  /\ \A c \in Clients : WF_vars(Step(c))
  /\ \A e \in 1..MaxEvents :
       WF_vars(\E r \in threads : r.event = e /\ ThreadEnds(r))

-----------------------------------------------------------------------------
(* Properties. *)

PcState == {"idle", "queued", "writing", "written", "failed"}

\* The types of the variables.
TypeOK ==
  /\ file \in Seq(Record) /\ torn \in BOOLEAN
  /\ events \in Seq(Record) \cup {NotLoaded}
  /\ line \in Seq(Clients)
  /\ pc \in [Clients -> PcState]
  /\ record \in [Clients -> Record]
  /\ threads \subseteq Record
  /\ calls \in 0..MaxEvents
  /\ acked \in Seq(1..MaxEvents)
  /\ strays \subseteq 1..MaxEvents
  /\ crashes \in 0..MaxCrashes /\ failures \in 0..MaxFailures

\* The events of some are among those of log, in the same order.
Within(some, log) ==
  \E at \in [DOMAIN some -> DOMAIN log] :
    /\ \A i \in DOMAIN some : log[at[i]].event = some[i]
    /\ \A i, j \in DOMAIN some : i < j => at[i] < at[j]

\* What append has returned is kept, in the order in which it returned, whatever
\* was cancelled and whenever the process died: the file has it on lines of its
\* own, since the fsync precedes the return, and whoever holds a loaded log reads
\* it.  A failed write may leave half a line, which the next append of the loaded
\* store joins; then the log is refused by load, never shortened.
AckedAreKept ==
  /\ failures = 0 => Within(acked, file)
  /\ events # NotLoaded => Within(acked, events)

\* The in-memory copy and the candidates built on it stay in sequence, even over
\* a file that no longer is.
CacheInOrder == events # NotLoaded => Continuous(events)

\* Unless an append was cancelled behind its thread, or a write failed, the
\* lines of the file are in sequence: clients that share the store, stores opened
\* in turn and crashes never give two lines one number.
Replayable == strays = {} /\ failures = 0 => Continuous(file)

\* And then the copy is the file, but for the line that is being appended.
CacheIsFile ==
  strays = {} /\ failures = 0 /\ events # NotLoaded =>
    file = events \/ \E c \in Clients : /\ pc[c] = "written" /\ Holds(c)
                                        /\ file = Append(events, record[c])

\* docs/architecture.md: the log is a validated continuous sequence.  The code
\* keeps it one only while no append is cancelled behind its thread.
LogStaysReplayable == failures = 0 => Continuous(file)

\* An append returns or raises: neither an error, a cancellation nor a crash
\* leaves the lock taken.
AppendEnds == \A c \in Clients : pc[c] # "idle" ~> pc[c] = "idle"
=============================================================================
