--------------------------- MODULE EventStoreProofs ---------------------------
(***************************************************************************)
(* Proofs about EventStore, for every set of clients and every number of   *)
(* appends, crashes and failures: the copy in memory stays in sequence,    *)
(* and so does the file as long as no append is cancelled behind its       *)
(* thread and no write fails.                                              *)
(***************************************************************************)
EXTENDS EventStore, SequenceTheorems, TLAPS

USE BoundsAssumption

-----------------------------------------------------------------------------
(* The queue at the lock. *)

\* Who leaves a queue leaves the others in it, the first of them first.
LEMMA RemoveAtType ==
  ASSUME NEW S, NEW s \in Seq(S), NEW i \in DOMAIN s
  PROVE  /\ RemoveAt(s, i) \in Seq(S)
         /\ i # 1 => RemoveAt(s, i) # <<>> /\ Head(RemoveAt(s, i)) = Head(s)
<1> DEFINE front == SubSeq(s, 1, i-1)
           back  == SubSeq(s, i+1, Len(s))
<1>1. /\ front \in Seq(S) /\ Len(front) = i - 1
      /\ i # 1 => front[1] = s[1]
  BY SubSeqProperties
<1>2. back \in Seq(S)
  BY SubSeqProperties
<1>3. front \o back \in Seq(S) /\ Len(front \o back) = Len(front) + Len(back)
  BY <1>1, <1>2, ConcatProperties
<1>4. Len(front) \in Nat /\ Len(back) \in Nat
  BY <1>1, <1>2, LenProperties
<1>5. ASSUME i # 1
      PROVE  front \o back # <<>> /\ Head(front \o back) = Head(s)
  <2>1. Len(front) >= 1 /\ front[1] = s[1]
    BY <1>1, <1>5
  <2>2. (front \o back)[1] = front[1]
    BY <1>1, <1>2, <1>4, <2>1, ConcatProperties
  <2>3. front \o back # <<>>
    BY <1>3, <1>4, <2>1
  <2>4. QED
    BY <1>3, <2>1, <2>2, <2>3
<1>6. RemoveAt(s, i) = front \o back
  BY DEF RemoveAt
<1>7. QED
  BY <1>3, <1>5, <1>6

LEMMA LeaveType ==
  ASSUME TypeOK, NEW c \in Clients, Leave(c)
  PROVE  /\ line' \in Seq(Clients)
         /\ pc' \in [Clients -> PcState]
         /\ record' \in [Clients -> Record]
<1>1. line' \in Seq(Clients)
  BY RemoveAtType DEF TypeOK, Leave
<1>2. NoRecord \in Record
  BY DEF NoRecord, Record
<1>3. QED
  BY <1>1, <1>2 DEF TypeOK, Leave, PcState

\* A holder of the lock keeps it while others leave.
LEMMA OthersLeave ==
  ASSUME TypeOK, NEW c \in Clients, Leave(c), NEW d \in Clients, d # c, Holds(d)
  PROVE  Holds(d)'
<1>1. PICK i \in DOMAIN line : line[i] = c /\ line' = RemoveAt(line, i)
  BY DEF Leave
<1>2. i # 1
  BY <1>1 DEF Holds, TypeOK
<1>3. QED
  BY <1>1, <1>2, RemoveAtType DEF Holds, TypeOK

-----------------------------------------------------------------------------
(* The inductive invariant. *)

Numbered == \A c \in Clients : pc[c] # "idle" => record[c].event # 0

Busy == {"writing", "written", "failed"}

\* An append past its load has the lock, and the number after the copy's last.
Locked ==
  \A c \in Clients : pc[c] \in Busy =>
    Holds(c) /\ events # NotLoaded /\ record[c].seq = Len(events) + 1

\* Of an undisturbed store: the threads work for clients that wait for them, and
\* the file is the copy, with the line of an append that is about to return.
Undisturbed ==
  /\ Continuous(file)
  /\ events # NotLoaded => ~torn
  /\ \A r \in threads : \E c \in Clients : pc[c] = "writing" /\ record[c] = r
  /\ \A c \in Clients : pc[c] = "written" => file = Append(events, record[c])
  /\ events # NotLoaded /\ (\A c \in Clients : pc[c] # "written") => file = events

Clean == strays = {} /\ failures = 0

IInv == /\ TypeOK /\ Numbered /\ Locked /\ CacheInOrder
        /\ Clean => Undisturbed

-----------------------------------------------------------------------------
(* Types. *)

LEMMA InitIInv == Init => IInv
<1>1. NoRecord \in Record /\ NoRecord.event = 0
  BY DEF NoRecord, Record
<1>2. ASSUME Init
      PROVE  TypeOK
  <2>1. /\ file \in Seq(Record) /\ line \in Seq(Clients) /\ acked \in Seq(1..MaxEvents)
        /\ threads \subseteq Record /\ strays \subseteq 1..MaxEvents
    BY <1>2, EmptySeq DEF Init
  <2>2. pc \in [Clients -> PcState] /\ record \in [Clients -> Record]
    BY <1>1, <1>2 DEF Init, PcState
  <2>3. torn \in BOOLEAN /\ events = NotLoaded
    BY <1>2, Zenon DEF Init
  <2>4. calls \in 0..MaxEvents /\ crashes \in 0..MaxCrashes /\ failures \in 0..MaxFailures
    BY <1>2 DEF Init
  <2>5. QED
    BY <2>1, <2>2, <2>3, <2>4 DEF TypeOK
<1>3. Init => Numbered /\ Locked /\ CacheInOrder
  BY DEF Init, Numbered, Locked, Busy, CacheInOrder
<1>4. Init => Undisturbed
  BY DEF Init, Undisturbed, Continuous
<1>5. QED
  BY <1>2, <1>3, <1>4 DEF IInv

LEMMA NextType ==
  TypeOK /\ Numbered /\ Locked /\ [Next]_vars => (TypeOK /\ Numbered)'
<1> SUFFICES ASSUME TypeOK, Numbered, Locked, [Next]_vars
             PROVE  (TypeOK /\ Numbered)'
  OBVIOUS
<1>1. NoRecord \in Record /\ NoRecord.event = 0
  BY DEF NoRecord, Record
<1>2. ASSUME NEW c \in Clients, Call(c)
      PROVE  (TypeOK /\ Numbered)'
  <2>1. calls' \in 1..MaxEvents /\ [seq |-> 0, event |-> calls + 1] \in Record
    BY <1>2 DEF Call, TypeOK, Record
  <2>2. QED
    BY <1>2, <2>1 DEF Call, TypeOK, Numbered, PcState, disk, counts
<1>3. ASSUME NEW c \in Clients, Load(c)
      PROVE  (TypeOK /\ Numbered)'
  BY <1>3 DEF Load, TypeOK, Numbered, disk, client, counts
<1>4. ASSUME NEW c \in Clients, Leave(c)
      PROVE  /\ line' \in Seq(Clients)
             /\ pc' \in [Clients -> PcState]
             /\ record' \in [Clients -> Record]
             /\ Numbered'
  BY <1>1, <1>4, LeaveType DEF Leave, TypeOK, Numbered, PcState
<1>5. ASSUME NEW c \in Clients, Refuse(c) \/ Raise(c)
      PROVE  (TypeOK /\ Numbered)'
  BY <1>4, <1>5 DEF Refuse, Raise, TypeOK, disk, counts
<1>6. ASSUME NEW c \in Clients, Write(c)
      PROVE  (TypeOK /\ Numbered)'
  <2> DEFINE r == [record[c] EXCEPT !.seq = Len(events) + 1]
  <2>1. Len(events) \in Nat
    BY <1>6 DEF Write, TypeOK
  <2>2. record[c] \in Record
    BY DEF TypeOK
  <2>3. r \in Record /\ r.event = record[c].event
    BY <2>1, <2>2 DEF Record
  <2>4. QED
    BY <1>6, <2>3 DEF Write, TypeOK, Numbered, PcState, disk, counts
<1>7. ASSUME NEW c \in Clients, Finish(c)
      PROVE  (TypeOK /\ Numbered)'
  <2>1. record[c] \in Record /\ record[c].event \in 1..MaxEvents
    BY <1>7 DEF Finish, TypeOK, Numbered, Record
  <2>2. acked' \in Seq(1..MaxEvents)
    BY <1>7, <2>1 DEF Finish, TypeOK
  <2>3. events' \in Seq(Record) \cup {NotLoaded}
    BY <1>7, <2>1 DEF Finish, TypeOK, Locked, Busy
  <2>4. QED
    BY <1>4, <1>7, <2>2, <2>3 DEF Finish, TypeOK, disk, counts
<1>8. ASSUME NEW c \in Clients, Cancel(c)
      PROVE  (TypeOK /\ Numbered)'
  <2>1. record[c].event \in 1..MaxEvents
    BY <1>8 DEF Cancel, TypeOK, Numbered, Record
  <2>2. threads' \subseteq Record /\ strays' \subseteq 1..MaxEvents
    BY <1>8, <2>1 DEF Cancel, TypeOK
  <2>3. QED
    BY <1>4, <1>8, <2>2 DEF Cancel, TypeOK, disk, counts
<1>9. ASSUME NEW r \in threads, NEW outcome \in PcState \ {"idle"}, Ends(r, outcome),
             UNCHANGED record
      PROVE  /\ threads' \subseteq Record
             /\ pc' \in [Clients -> PcState]
             /\ Numbered'
  BY <1>9 DEF Ends, TypeOK, Numbered
<1>10. ASSUME NEW r \in threads, WriteLine(r)
       PROVE  file' \in Seq(Record) /\ torn' \in BOOLEAN
  <2>1. r \in Record /\ NoRecord \in Record
    BY <1>1 DEF TypeOK
  <2>2. QED
    BY <1>10, <2>1, AppendProperties DEF WriteLine, TypeOK
<1>11. ASSUME NEW r \in threads, ThreadEnds(r)
       PROVE  (TypeOK /\ Numbered)'
  BY <1>9, <1>10, <1>11 DEF ThreadEnds, TypeOK, PcState, counts
<1>12. ASSUME NEW r \in threads, ThreadFails(r)
       PROVE  (TypeOK /\ Numbered)'
  <2>1. file' \in Seq(Record) /\ torn' \in BOOLEAN
    BY <1>10, <1>12 DEF ThreadFails, TypeOK
  <2>2. failures' \in 0..MaxFailures
    BY <1>12 DEF ThreadFails, TypeOK
  <2>3. QED
    BY <1>9, <1>12, <2>1, <2>2 DEF ThreadFails, TypeOK, PcState
<1>13. CASE Reopen
  BY <1>13 DEF Reopen, TypeOK, Numbered, disk, client, counts
<1>14. CASE Crash
  <2>1. pc' \in [Clients -> PcState] /\ record' \in [Clients -> Record] /\ Numbered'
    BY <1>1, <1>14 DEF Crash, PcState, Numbered
  <2>2. line' \in Seq(Clients) /\ threads' \subseteq Record
    BY <1>14, EmptySeq DEF Crash
  <2>3. torn' \in BOOLEAN
    BY <1>14, Zenon DEF Crash, TypeOK
  <2>4. crashes' \in 0..MaxCrashes
    BY <1>14 DEF Crash, TypeOK
  <2>5. QED
    BY <1>14, <2>1, <2>2, <2>3, <2>4 DEF Crash, TypeOK
<1>15. CASE UNCHANGED vars
  BY <1>15 DEF vars, TypeOK, Numbered, disk, client, counts
<1>16. QED
  BY <1>2, <1>3, <1>5, <1>6, <1>7, <1>8, <1>11, <1>12, <1>13, <1>14, <1>15
     DEF Next, Step

-----------------------------------------------------------------------------
(* The lock, and the copy that its holder extends. *)

\* The lock has one holder, and so at most one client is past its load.
LEMMA OneBusy ==
  ASSUME Locked, NEW c \in Clients, NEW d \in Clients, pc[c] \in Busy, pc[d] \in Busy
  PROVE  c = d
BY DEF Locked, Holds

LEMMA NextLocked ==
  TypeOK /\ Locked /\ CacheInOrder /\ [Next]_vars => (Locked /\ CacheInOrder)'
<1> SUFFICES ASSUME TypeOK, Locked, CacheInOrder, [Next]_vars
             PROVE  (Locked /\ CacheInOrder)'
  OBVIOUS
<1>1. ASSUME NEW c \in Clients, Call(c)
      PROVE  (Locked /\ CacheInOrder)'
  <2>1. ASSUME NEW d \in Clients, Holds(d)
        PROVE  Holds(d)'
    <3>1. line \in Seq(Clients) /\ line # <<>> /\ Head(line) = d
      BY <2>1 DEF Holds, TypeOK
    <3>2. Append(line, c) # <<>> /\ Head(Append(line, c)) = d
      BY <3>1, HeadTailAppend, AppendProperties
    <3>3. line' = Append(line, c)
      BY <1>1 DEF Call
    <3>4. QED
      BY <3>2, <3>3 DEF Holds
  <2>2. ASSUME NEW d \in Clients, pc'[d] \in Busy
        PROVE  pc[d] \in Busy /\ record'[d] = record[d]
    BY <1>1, <2>2 DEF Call, Busy, TypeOK
  <2>3. QED
    BY <1>1, <2>1, <2>2 DEF Call, Locked, CacheInOrder
<1>2. ASSUME NEW c \in Clients, Load(c)
      PROVE  (Locked /\ CacheInOrder)'
  BY <1>2 DEF Load, Locked, CacheInOrder, Busy, Holds, client
<1>3. ASSUME NEW c \in Clients, Leave(c), NEW d \in Clients, pc'[d] \in Busy
      PROVE  /\ d # c /\ pc[d] \in Busy
             /\ Holds(d)' /\ events # NotLoaded /\ record'[d].seq = Len(events) + 1
  <2>1. d # c /\ pc[d] \in Busy /\ record'[d] = record[d]
    BY <1>3 DEF Leave, Busy, TypeOK
  <2>2. QED
    BY <1>3, <2>1, OthersLeave DEF Locked
<1>4. ASSUME NEW c \in Clients, Refuse(c) \/ Raise(c) \/ Cancel(c)
      PROVE  (Locked /\ CacheInOrder)'
  BY <1>3, <1>4 DEF Refuse, Raise, Cancel, Locked, CacheInOrder
<1>5. ASSUME NEW c \in Clients, Write(c)
      PROVE  (Locked /\ CacheInOrder)'
  <2>1. ASSUME NEW d \in Clients, pc'[d] \in Busy
        PROVE  d = c
    BY <1>5, <2>1 DEF Write, Locked, Holds, TypeOK, Busy
  <2>2. record[c] \in Record /\ record'[c].seq = Len(events) + 1
    BY <1>5 DEF Write, TypeOK, Record
  <2>3. QED
    BY <1>5, <2>1, <2>2 DEF Write, Locked, CacheInOrder, Holds
<1>6. ASSUME NEW c \in Clients, Finish(c)
      PROVE  (Locked /\ CacheInOrder)'
  <2>1. pc[c] \in Busy
    BY <1>6 DEF Finish, Busy
  <2>2. ASSUME NEW d \in Clients, pc'[d] \in Busy
        PROVE  FALSE
    BY <1>3, <1>6, <2>1, <2>2, OneBusy DEF Finish
  <2>3. events \in Seq(Record) /\ record[c] \in Record /\ record[c].seq = Len(events) + 1
        /\ Continuous(events)
    BY <2>1 DEF TypeOK, Locked, CacheInOrder
  <2>4. Continuous(events)'
    BY <1>6, <2>3, AppendProperties DEF Finish, Continuous
  <2>5. QED
    BY <2>2, <2>4 DEF Locked, CacheInOrder
<1>7. ASSUME NEW r \in threads, ThreadEnds(r) \/ ThreadFails(r)
      PROVE  (Locked /\ CacheInOrder)'
  <2>1. UNCHANGED <<events, line, record>>
    BY <1>7 DEF ThreadEnds, ThreadFails
  <2>2. ASSUME NEW d \in Clients, pc'[d] \in Busy
        PROVE  pc[d] \in Busy
    BY <1>7, <2>2 DEF ThreadEnds, ThreadFails, Ends, Busy, TypeOK
  <2>3. QED
    BY <2>1, <2>2 DEF Locked, CacheInOrder, Holds
<1>8. CASE Reopen
  BY <1>8 DEF Reopen, Locked, CacheInOrder, Holds, client
<1>9. CASE Crash
  BY <1>9 DEF Crash, Locked, CacheInOrder, Busy
<1>10. CASE UNCHANGED vars
  BY <1>10 DEF vars, Locked, CacheInOrder, Holds, client
<1>11. QED
  BY <1>1, <1>2, <1>4, <1>5, <1>6, <1>7, <1>8, <1>9, <1>10 DEF Next, Step

-----------------------------------------------------------------------------
(* The file of an undisturbed store. *)

LEMMA NextUndisturbed ==
  IInv /\ [Next]_vars /\ Clean' => Undisturbed'
<1> SUFFICES ASSUME IInv, [Next]_vars, Clean'
             PROVE  Undisturbed'
  OBVIOUS
<1>1. ASSUME NEW c \in Clients, Call(c), Undisturbed
      PROVE  Undisturbed'
  <2>1. \A d \in Clients : \/ pc'[d] = pc[d] /\ record'[d] = record[d]
                           \/ pc[d] = "idle" /\ pc'[d] = "queued"
    BY <1>1 DEF Call, IInv, TypeOK
  <2>2. QED
    BY <1>1, <2>1 DEF Call, Undisturbed, Continuous, disk
<1>2. ASSUME NEW c \in Clients, Load(c), Undisturbed
      PROVE  Undisturbed'
  <2>1. \A d \in Clients : pc[d] # "written"
    BY <1>2 DEF Load, IInv, Locked, Busy
  <2>2. QED
    BY <1>2, <2>1 DEF Load, Undisturbed, Continuous, disk, client
<1>3. ASSUME NEW c \in Clients, Refuse(c), Undisturbed
      PROVE  Undisturbed'
  <2>1. \A d \in Clients : \/ pc'[d] = pc[d] /\ record'[d] = record[d]
                           \/ pc[d] = "queued" /\ pc'[d] = "idle"
    BY <1>3 DEF Refuse, Leave, IInv, TypeOK
  <2>2. QED
    BY <1>3, <2>1 DEF Refuse, Undisturbed, Continuous, disk
<1>4. ASSUME NEW c \in Clients, Write(c), Undisturbed
      PROVE  Undisturbed'
  <2>1. \A d \in Clients : pc[d] \notin Busy
    BY <1>4 DEF Write, IInv, Locked, Holds, Busy
  <2>2. threads = {} /\ file = events /\ ~torn
    BY <1>4, <2>1 DEF Write, Undisturbed, Busy
  <2>3. /\ pc'[c] = "writing" /\ threads' = {record'[c]}
        /\ \A d \in Clients : pc'[d] # "written"
    BY <1>4, <2>1, <2>2 DEF Write, IInv, TypeOK, Busy
  <2>4. QED
    BY <1>4, <2>2, <2>3 DEF Write, Undisturbed, Continuous, disk
<1>5. ASSUME NEW c \in Clients, Finish(c), Undisturbed
      PROVE  Undisturbed'
  <2>1. \A d \in Clients : d # c => pc[d] \notin Busy
    BY <1>5, OneBusy DEF Finish, IInv, Busy
  <2>2. threads = {} /\ file = Append(events, record[c]) /\ ~torn
    BY <1>5, <2>1 DEF Finish, Undisturbed, IInv, Locked, Busy
  <2>3. \A d \in Clients : pc'[d] # "written"
    BY <1>5, <2>1 DEF Finish, Leave, IInv, TypeOK, Busy
  <2>4. QED
    BY <1>5, <2>2, <2>3 DEF Finish, Undisturbed, Continuous, disk
<1>6. ASSUME NEW c \in Clients, Raise(c) \/ Cancel(c), Undisturbed
      PROVE  Undisturbed'
  <2>1. CASE pc[c] \in {"queued", "failed"}
    <3>1. \A d \in Clients : \/ pc'[d] = pc[d] /\ record'[d] = record[d]
                             \/ pc[d] \in {"queued", "failed"} /\ pc'[d] = "idle"
      BY <1>6, <2>1 DEF Raise, Cancel, Leave, IInv, TypeOK
    <3>2. UNCHANGED <<disk, events, threads>>
      BY <1>6, <2>1 DEF Raise, Cancel
    <3>3. QED
      BY <1>6, <3>1, <3>2 DEF Undisturbed, Continuous, disk
  <2>2. CASE pc[c] \notin {"queued", "failed"}
    <3>1. pc[c] = "writing" /\ threads' = threads \ {record[c]} /\ UNCHANGED <<disk, events>>
      BY <1>6, <2>2 DEF Raise, Cancel, Clean
    <3>2. \A d \in Clients : d # c => pc[d] \notin Busy
      BY <3>1, OneBusy DEF IInv, Busy
    <3>3. threads' = {} /\ \A d \in Clients : pc[d] # "written" /\ pc'[d] # "written"
      BY <1>6, <3>1, <3>2 DEF Undisturbed, Busy, Raise, Cancel, Leave, IInv, TypeOK
    <3>4. QED
      BY <1>6, <3>1, <3>3 DEF Undisturbed, Continuous, disk
  <2>3. QED
    BY <2>1, <2>2
<1>7. ASSUME NEW r \in threads, ThreadEnds(r), Undisturbed
      PROVE  Undisturbed'
  <2>1. PICK c \in Clients : pc[c] = "writing" /\ record[c] = r
    BY <1>7 DEF Undisturbed
  <2>2. \A d \in Clients : d # c => pc[d] \notin Busy
    BY <2>1, OneBusy DEF IInv, Busy
  <2>3. threads = {r}
    BY <1>7, <2>1, <2>2 DEF Undisturbed, Busy
  <2>4. events # NotLoaded /\ r.seq = Len(events) + 1 /\ r \in Record
    BY <2>1 DEF IInv, Locked, Busy, TypeOK
  <2>5. file = events /\ ~torn /\ file \in Seq(Record)
    BY <1>7, <2>1, <2>2, <2>4 DEF Undisturbed, Busy, IInv, TypeOK
  <2>6. file' = Append(events, r) /\ torn' = FALSE
    BY <1>7, <2>5 DEF ThreadEnds, WriteLine
  <2>7. Continuous(file)'
    BY <1>7, <2>4, <2>5, <2>6, AppendProperties DEF Undisturbed, Continuous
  <2>8. /\ threads' = {} /\ pc'[c] = "written"
        /\ \A d \in Clients : d # c => pc'[d] # "written"
    BY <1>7, <2>1, <2>2, <2>3 DEF ThreadEnds, Ends, IInv, TypeOK, Busy
  <2>9. QED
    BY <1>7, <2>1, <2>6, <2>7, <2>8 DEF ThreadEnds, Undisturbed
<1>8. ASSUME NEW r \in threads, ThreadFails(r)
      PROVE  FALSE
  BY <1>8 DEF ThreadFails, Clean, IInv, TypeOK
<1>9. CASE Reopen /\ Undisturbed
  <2>1. \A d \in Clients : pc[d] \notin Busy
    BY <1>9 DEF Reopen, IInv, Locked, Holds
  <2>2. QED
    BY <1>9, <2>1 DEF Reopen, Undisturbed, Continuous, Busy, disk, client
<1>10. CASE Crash /\ Undisturbed
  BY <1>10 DEF Crash, Undisturbed, Continuous
<1>11. CASE UNCHANGED vars /\ Undisturbed
  BY <1>11 DEF vars, Undisturbed, Continuous, disk, client
<1>12. Clean
  <2>1. ASSUME NEW c \in Clients, Call(c) \/ Step(c) \/ Cancel(c)
        PROVE  strays \subseteq strays' /\ failures' = failures
    BY <2>1 DEF Call, Step, Load, Refuse, Write, Finish, Raise, Cancel, counts
  <2>2. ASSUME NEW r \in threads, ThreadEnds(r) \/ ThreadFails(r)
        PROVE  strays' = strays /\ failures' \in {failures, failures + 1}
    BY <2>2 DEF ThreadEnds, ThreadFails, counts
  <2>3. CASE Reopen \/ Crash \/ UNCHANGED vars
    BY <2>3 DEF Reopen, Crash, vars, counts, Clean
  <2>4. QED
    BY <2>1, <2>2, <2>3 DEF Next, Clean, IInv, TypeOK
<1>13. QED
  BY <1>1, <1>2, <1>3, <1>4, <1>5, <1>6, <1>7, <1>8, <1>9, <1>10, <1>11, <1>12
     DEF Next, Step, IInv

-----------------------------------------------------------------------------
(* What append has returned. *)

\* A log keeps what it has when a line follows, and that line may be the next of
\* what is kept.
LEMMA WithinGrows ==
  ASSUME NEW S, NEW E, NEW s \in Seq(S), NEW a \in Seq(E), NEW r \in S, Within(a, s)
  PROVE  Within(a, Append(s, r)) /\ Within(Append(a, r.event), Append(s, r))
<1>1. PICK at \in [DOMAIN a -> DOMAIN s] :
        /\ \A i \in DOMAIN a : s[at[i]].event = a[i]
        /\ \A i, j \in DOMAIN a : i < j => at[i] < at[j]
  BY DEF Within
<1> DEFINE t == Append(s, r)
           b == Append(a, r.event)
           m == Len(s)
           n == Len(a)
<1>2. /\ DOMAIN s = 1..m /\ m \in Nat /\ DOMAIN t = 1..(m + 1)
      /\ t[m + 1] = r /\ \A i \in DOMAIN s : t[i] = s[i]
  BY AppendProperties
<1>3. /\ DOMAIN a = 1..n /\ n \in Nat /\ DOMAIN b = 1..(n + 1)
      /\ b[n + 1] = r.event /\ \A i \in DOMAIN a : b[i] = a[i]
  <2>1. a \in Seq(E \cup {r.event})
    BY SeqMonotonic
  <2>2. QED
    BY <2>1, AppendProperties
<1> HIDE DEF t, b, m, n
<1>4. Within(a, t)
  <2>1. at \in [DOMAIN a -> DOMAIN t]
    BY <1>1, <1>2
  <2>2. \A i \in DOMAIN a : t[at[i]].event = a[i]
    BY <1>1, <1>2
  <2>3. QED
    BY <1>1, <2>1, <2>2 DEF Within
<1>5. Within(b, t)
  <2> DEFINE to == [i \in DOMAIN b |-> IF i \in DOMAIN a THEN at[i] ELSE m + 1]
  <2>1. ASSUME NEW i \in DOMAIN b
        PROVE  i \in DOMAIN a \/ (i \notin DOMAIN a /\ i = n + 1)
    BY <1>3
  <2>2. ASSUME NEW i \in DOMAIN a
        PROVE  i \in DOMAIN b /\ to[i] = at[i] /\ at[i] \in 1..m
    BY <1>1, <1>2, <1>3
  <2>3. n + 1 \in DOMAIN b /\ to[n + 1] = m + 1
    BY <1>3
  <2>4. to \in [DOMAIN b -> DOMAIN t]
    BY <1>2, <2>1, <2>2, <2>3
  <2> HIDE DEF to
  <2>5. ASSUME NEW i \in DOMAIN b
        PROVE  t[to[i]].event = b[i]
    BY <1>1, <1>2, <1>3, <2>1, <2>2, <2>3, <2>5
  <2>6. ASSUME NEW i \in DOMAIN b, NEW j \in DOMAIN b, i < j
        PROVE  to[i] < to[j]
    <3>1. i \in DOMAIN a
      BY <1>3, <2>6
    <3>2. CASE j \in DOMAIN a
      BY <1>1, <2>2, <2>6, <3>1, <3>2
    <3>3. CASE j = n + 1
      BY <1>2, <2>2, <2>3, <3>1, <3>3
    <3>4. QED
      BY <2>1, <3>2, <3>3
  <2>7. QED
    BY <2>4, <2>5, <2>6 DEF Within
<1>6. QED
  BY <1>4, <1>5 DEF t, b

\* The file has a; or a write has failed, and load refuses the file.
Kept(a, log, failed) == Within(a, log) \/ (failed # 0 /\ ~Continuous(log))

\* What has returned, and what is about to, is kept.  Before the first failure
\* only a crash leaves half a line, and nothing is written behind it.
AckInv ==
  /\ events # NotLoaded => Within(acked, events)
  /\ Kept(acked, file, failures)
  /\ \A c \in Clients : pc[c] = "written" =>
       Kept(Append(acked, record[c].event), file, failures)
  /\ failures = 0 /\ torn => threads = {} /\ events = NotLoaded

\* A line that follows a log does not put it in order.
LEMMA KeptGrows ==
  ASSUME NEW E, NEW log \in Seq(Record), NEW a \in Seq(E), NEW r \in Record,
         NEW n \in Nat, NEW m \in Nat, n <= m, Kept(a, log, n)
  PROVE  Kept(a, log, m) /\ Kept(a, Append(log, r), m)
<1>1. CASE Within(a, log)
  BY <1>1, WithinGrows DEF Kept
<1>2. CASE n # 0 /\ ~Continuous(log)
  <2>1. ~Continuous(Append(log, r))
    BY <1>2, AppendProperties DEF Continuous
  <2>2. m # 0
    BY <1>2
  <2>3. QED
    BY <1>2, <2>1, <2>2 DEF Kept
<1>3. QED
  BY <1>1, <1>2 DEF Kept

\* A line in order adds the next event; half a line under it is never in order.
LEMMA KeptNext ==
  ASSUME NEW E, NEW log \in Seq(Record), NEW a \in Seq(E), NEW r \in Record,
         NEW n \in Nat, Kept(a, log, n)
  PROVE  /\ Kept(Append(a, r.event), Append(log, r), n)
         /\ n # 0 => \A e : Kept(e, Append(log, NoRecord), n)
<1>1. Kept(Append(a, r.event), Append(log, r), n)
  <2>1. CASE Within(a, log)
    BY <2>1, WithinGrows DEF Kept
  <2>2. CASE n # 0 /\ ~Continuous(log)
    <3>1. ~Continuous(Append(log, r))
      BY <2>2, AppendProperties DEF Continuous
    <3>2. QED
      BY <2>2, <3>1 DEF Kept
  <2>3. QED
    BY <2>1, <2>2 DEF Kept
<1>2. ~Continuous(Append(log, NoRecord))
  <2>1. NoRecord \in Record /\ NoRecord.seq = 0
    BY DEF NoRecord, Record
  <2>2. /\ Len(log) \in Nat /\ Len(log) + 1 \in DOMAIN Append(log, NoRecord)
        /\ Append(log, NoRecord)[Len(log) + 1] = NoRecord
    BY <2>1, AppendProperties
  <2>3. QED
    BY <2>1, <2>2 DEF Continuous
<1>3. QED
  BY <1>1, <1>2 DEF Kept

LEMMA InitAck == Init => AckInv
<1>1. Within(<<>>, <<>>)
  <2> DEFINE at == [i \in {} |-> i]
  <2>1. at \in [{} -> {}] /\ DOMAIN <<>> = {}
    OBVIOUS
  <2>2. QED
    BY <2>1 DEF Within
<1>2. QED
  BY <1>1 DEF Init, AckInv, Kept

LEMMA NextAck ==
  IInv /\ AckInv /\ [Next]_vars => AckInv'
<1> SUFFICES ASSUME IInv, AckInv, [Next]_vars
             PROVE  AckInv'
  OBVIOUS
<1> USE DEF IInv
<1>1. ASSUME UNCHANGED <<disk, events, threads, acked, failures>>,
             \A c \in Clients : pc'[c] = "written" =>
               pc[c] = "written" /\ record'[c] = record[c]
      PROVE  AckInv'
  BY <1>1 DEF AckInv, disk
<1>2. ASSUME NEW c \in Clients, Leave(c)
      PROVE  \A d \in Clients : pc'[d] = "written" =>
               d # c /\ pc[d] = "written" /\ record'[d] = record[d]
  BY <1>2 DEF Leave, TypeOK
<1>3. ASSUME NEW c \in Clients, Call(c)
      PROVE  AckInv'
  <2>1. \A d \in Clients : pc'[d] = "written" =>
          pc[d] = "written" /\ record'[d] = record[d]
    BY <1>3 DEF Call, TypeOK
  <2>2. QED
    BY <1>1, <1>3, <2>1 DEF Call, counts
<1>4. ASSUME NEW c \in Clients, Load(c)
      PROVE  AckInv'
  <2>1. Within(acked, file)
    BY <1>4 DEF Load, AckInv, Kept
  <2>2. QED
    BY <1>4, <2>1 DEF Load, AckInv, disk, client, counts
<1>5. ASSUME NEW c \in Clients, Refuse(c) \/ Raise(c)
      PROVE  AckInv'
  BY <1>1, <1>2, <1>5 DEF Refuse, Raise, counts
<1>6. ASSUME NEW c \in Clients, Write(c)
      PROVE  AckInv'
  <2>1. \A d \in Clients : pc'[d] # "written"
    BY <1>6 DEF Write, Locked, Holds, TypeOK, Busy
  <2>2. ~(failures = 0 /\ torn)
    BY <1>6 DEF Write, AckInv
  <2>3. QED
    BY <1>6, <2>1, <2>2 DEF Write, AckInv, disk, counts
<1>7. ASSUME NEW c \in Clients, Finish(c)
      PROVE  AckInv'
  <2>1. \A d \in Clients : pc'[d] # "written"
    BY <1>2, <1>7, OneBusy DEF Finish, Busy
  <2>2. record[c] \in Record /\ events \in Seq(Record) /\ Within(acked, events)
    BY <1>7 DEF Finish, TypeOK, Locked, Busy, AckInv
  <2>3. Within(Append(acked, record[c].event), Append(events, record[c]))
    BY <2>2, WithinGrows DEF TypeOK
  <2>4. Kept(Append(acked, record[c].event), file, failures)
    BY <1>7 DEF Finish, AckInv
  <2>5. events # NotLoaded
    BY <1>7 DEF Finish, Locked, Busy
  <2>6. QED
    BY <1>7, <2>1, <2>3, <2>4, <2>5 DEF Finish, AckInv, disk, counts
<1>8. ASSUME NEW c \in Clients, Cancel(c)
      PROVE  AckInv'
  <2>1. threads' \subseteq threads
    BY <1>8 DEF Cancel
  <2>2. QED
    BY <1>2, <1>8, <2>1 DEF Cancel, AckInv, disk, counts
<1>9. ASSUME NEW r \in threads, WriteLine(r), failures' \in {failures, failures + 1},
             UNCHANGED <<events, record, acked>>,
             \A c \in Clients : pc'[c] = "written" =>
               pc[c] = "written" \/ (pc[c] = "writing" /\ record[c] = r)
      PROVE  AckInv'
  <2>1. /\ r \in Record /\ NoRecord \in Record /\ file \in Seq(Record)
        /\ failures \in Nat /\ failures' \in Nat /\ failures <= failures'
        /\ acked \in Seq(1..MaxEvents)
    BY <1>9 DEF TypeOK, NoRecord, Record
  <2>2. torn' = FALSE /\ (torn => failures # 0)
    BY <1>9 DEF WriteLine, AckInv
  <2>3. Kept(acked, file', failures')
    BY <1>9, <2>1, KeptGrows DEF WriteLine, AckInv
  <2>4. ASSUME NEW c \in Clients, pc'[c] = "written"
        PROVE  Kept(Append(acked, record[c].event), file', failures')
    <3>1. CASE pc[c] = "written"
      <4>1. /\ Append(acked, record[c].event) \in Seq(Nat)
            /\ Kept(Append(acked, record[c].event), file, failures)
        BY <3>1 DEF TypeOK, Record, AckInv
      <4>2. QED
        BY <1>9, <2>1, <4>1, KeptGrows DEF WriteLine
    <3>2. CASE record[c] = r /\ torn
      <4>1. failures' # 0 /\ file' = Append(file, NoRecord)
        BY <1>9, <2>1, <2>2, <3>2 DEF WriteLine
      <4>2. Kept(acked, file, failures')
        BY <2>1, KeptGrows DEF AckInv
      <4>3. QED
        BY <2>1, <4>1, <4>2, KeptNext
    <3>3. CASE record[c] = r /\ ~torn
      <4>1. file' = Append(file, r)
        BY <1>9, <3>3 DEF WriteLine
      <4>2. Kept(acked, file, failures')
        BY <2>1, KeptGrows DEF AckInv
      <4>3. QED
        BY <2>1, <3>3, <4>1, <4>2, KeptNext
    <3>4. QED
      BY <1>9, <2>4, <3>1, <3>2, <3>3
  <2>5. QED
    BY <1>9, <2>2, <2>3, <2>4 DEF AckInv
<1>10. ASSUME NEW r \in threads, NEW outcome \in {"written", "failed"}, Ends(r, outcome)
       PROVE  \A c \in Clients : pc'[c] = "written" =>
                \/ pc[c] = "written"
                \/ outcome = "written" /\ pc[c] = "writing" /\ record[c] = r
  BY <1>10 DEF Ends
<1>11. ASSUME NEW r \in threads, ThreadEnds(r)
       PROVE  AckInv'
  BY <1>9, <1>10, <1>11 DEF ThreadEnds, counts
<1>12. ASSUME NEW r \in threads, ThreadFails(r)
       PROVE  AckInv'
  <2>1. \A c \in Clients : pc'[c] = "written" => pc[c] = "written"
    BY <1>10, <1>12 DEF ThreadFails
  <2>2. CASE WriteLine(r)
    BY <1>9, <1>12, <2>1, <2>2 DEF ThreadFails
  <2>3. CASE UNCHANGED file
    <3>1. /\ file \in Seq(Record) /\ failures \in Nat /\ failures' \in Nat
          /\ failures <= failures' /\ failures' # 0 /\ acked \in Seq(1..MaxEvents)
      BY <1>12 DEF ThreadFails, TypeOK
    <3>2. NoRecord \in Record
      BY DEF NoRecord, Record
    <3>3. Kept(acked, file, failures')
      BY <3>1, <3>2, KeptGrows DEF AckInv
    <3>4. ASSUME NEW c \in Clients, pc'[c] = "written"
          PROVE  Kept(Append(acked, record[c].event), file, failures')
      <4>1. /\ Append(acked, record[c].event) \in Seq(Nat)
            /\ Kept(Append(acked, record[c].event), file, failures)
        BY <2>1, <3>4 DEF TypeOK, Record, AckInv
      <4>2. QED
        BY <3>1, <3>2, <4>1, KeptGrows
    <3>5. QED
      BY <1>12, <2>3, <3>1, <3>3, <3>4 DEF ThreadFails, AckInv
  <2>4. QED
    BY <1>12, <2>2, <2>3 DEF ThreadFails
<1>13. CASE Reopen
  BY <1>13 DEF Reopen, AckInv, disk, client, counts
<1>14. CASE Crash
  BY <1>14 DEF Crash, AckInv
<1>15. CASE UNCHANGED vars
  BY <1>1, <1>15 DEF vars, client, counts
<1>16. QED
  BY <1>3, <1>4, <1>5, <1>6, <1>7, <1>8, <1>11, <1>12, <1>13, <1>14, <1>15
     DEF Next, Step

-----------------------------------------------------------------------------
(* The theorems. *)

THEOREM Inductive == Spec => []IInv
<1>1. IInv /\ [Next]_vars => IInv'
  BY NextType, NextLocked, NextUndisturbed DEF IInv
<1>2. QED
  BY InitIInv, <1>1, PTL DEF Spec

\* The variables keep their types.
THEOREM TypeCorrect == Spec => []TypeOK
<1>1. IInv => TypeOK
  BY DEF IInv
<1>2. QED
  BY Inductive, <1>1, PTL

\* What the store holds in memory, and checks each new event against, is a
\* sequence without gaps or repetitions, whatever is cancelled, fails or dies.
THEOREM CacheStaysInOrder == Spec => []CacheInOrder
<1>1. IInv => CacheInOrder
  BY DEF IInv
<1>2. QED
  BY Inductive, <1>1, PTL

\* Clients sharing the store, stores opened in turn, and crashes never give two
\* lines of the file one number.
THEOREM FileStaysReplayable == Spec => []Replayable
<1>1. IInv => Replayable
  BY DEF IInv, Clean, Undisturbed, Replayable
<1>2. QED
  BY Inductive, <1>1, PTL

\* The file is the copy in memory, but for the line that is being appended.
THEOREM CacheMirrorsFile == Spec => []CacheIsFile
<1>1. IInv => CacheIsFile
  BY DEF IInv, Clean, Undisturbed, Locked, Busy, CacheIsFile
<1>2. QED
  BY Inductive, <1>1, PTL

\* What append has returned is read back, in its order, by whoever loads the log,
\* and is on lines of its own in the file until a write fails.
THEOREM AckedStayKept == Spec => []AckedAreKept
<1>1. IInv /\ AckInv => AckedAreKept
  BY DEF AckInv, Kept, AckedAreKept
<1>2. Init => AckInv
  BY InitAck
<1>3. IInv /\ AckInv /\ [Next]_vars => AckInv'
  BY NextAck
<1>4. QED
  BY Inductive, <1>1, <1>2, <1>3, PTL DEF Spec
=============================================================================
