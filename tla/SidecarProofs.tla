--------------------------- MODULE SidecarProofs ---------------------------
(***************************************************************************)
(* Proofs about Sidecar, for any number of runs, conversations and         *)
(* progress reports, any sizes of the texts, any limits of the history     *)
(* file, the event queues and the conversation files, and any number of    *)
(* deaths of the process.                                                  *)
(***************************************************************************)
EXTENDS Sidecar, SequenceTheorems, WellFoundedInduction, TLAPS

-----------------------------------------------------------------------------
(* The types. *)

LiveTasks == {"executing", "unwinding", "joining"}
Event == [seq : Nat, type : {"started", "progress"} \cup Settled]
RowType ==
    [status : {"running"} \cup Settled, task : LiveTasks \cup {"done", "restored"},
     closing : {"none"} \cup Settled, reported : BOOLEAN, pending : Nat,
     events : Seq(Event), outcome : Outcomes]
EntryType == [id : Runs, status : Settled, outcome : Outcomes]
Turn == [role : {"user", "assistant"}, run : Runs \cup {"none"}, size : Nat]

\* A conversation file; its summary is whatever the fold over the dropped turns
\* gives.
IsThread(x) ==
    /\ x = [turns |-> x.turns, summary |-> x.summary, compressed |-> x.compressed]
    /\ x.turns \in Seq(Turn) /\ x.compressed \in Nat

TypesRuns ==
    /\ order \in Seq(Runs)
    /\ row \in [Runs -> RowType]
    /\ history \in Seq(EntryType)

TypesThreads ==
    /\ DOMAIN thread \subseteq Threads
    /\ \A t \in DOMAIN thread : IsThread(thread[t])
    /\ asked \in [Runs -> Threads \cup {"none", "unused"}]
    /\ answered \subseteq Runs
    /\ appended \in [Threads -> Nat]

-----------------------------------------------------------------------------
(* The invariant.                                                           *)

\* The queue of a run: numbered without a gap, and its end last.
Consecutive(events) == \A i \in 1..Len(events) - 1 : events[i + 1].seq = events[i].seq + 1
Story(x) ==
    /\ x.events # <<>>
    /\ Consecutive(x.events)
    /\ \A i \in DOMAIN x.events :
         x.events[i].type \in Settled => i = Len(x.events) /\ x.events[i].type = x.status
    /\ x.status \in Settled => x.events[Len(x.events)].type = x.status

\* A run with reports still to emit has not settled, and remembers that it has
\* to gather them.
RowSound(x) ==
    /\ x.pending > 0 => x.task \in LiveTasks /\ x.reported
    /\ x.task \in LiveTasks => x.status = "running"
    /\ x.task = "joining" => x.closing \in Settled
    /\ x.task # "restored" => Story(x)

RowsInv == \A r \in Runs : RowSound(row[r])

\* A conversation is counted from its creation on; one without a file is not
\* counted.
ThreadCounted(x, n) == TurnCount(x) = n /\ Len(x.turns) >= Least(n, KeepRecent)
CountInv ==
    \A t \in Threads :
        IF t \in DOMAIN thread THEN ThreadCounted(thread[t], appended[t]) ELSE appended[t] = 0

\* The assistant turns of a conversation are those of different runs that were
\* asked on it.
TurnsBelong(t, turns, runs, threadOf) ==
    /\ \A i \in DOMAIN turns :
         turns[i].role = "assistant" => turns[i].run \in runs /\ threadOf[turns[i].run] = t
    /\ \A i, j \in DOMAIN turns :
         turns[i].role = "assistant" /\ turns[j].role = "assistant" /\ turns[i].run = turns[j].run
            => i = j

ThreadsBelong ==
    /\ \A t \in DOMAIN thread : TurnsBelong(t, thread[t].turns, answered, asked)
    /\ \A r \in answered : asked[r] \in Threads

ThreadInv == TypesThreads /\ CountInv /\ ThreadsBelong

\* A run answers once, as the last act of execute; one that is to succeed, or
\* has, in memory or in the file, has answered.
Succeeds(x) == x.status = "succeeded" \/ (x.task = "joining" /\ x.closing = "succeeded")
RowsAnswered ==
    /\ \A r \in Runs : row[r].task = "executing" =>
         r \notin answered /\ (KindOf[r] = "agent" => asked[r] \in Threads)
    /\ \A r \in Runs : KindOf[r] = "agent" /\ Succeeds(row[r]) => r \in answered
FileAnswered ==
    \A i \in DOMAIN history :
        KindOf[history[i].id] = "agent" /\ history[i].status = "succeeded"
            => history[i].id \in answered

\* The runs of the registry and of the file were started, and stand there once.
KnownInv ==
    /\ \A i \in DOMAIN order : asked[order[i]] # "unused"
    /\ \A i, j \in DOMAIN order : order[i] = order[j] => i = j
    /\ \A i \in DOMAIN history : asked[history[i].id] # "unused"
    /\ \A i, j \in DOMAIN history : history[i].id = history[j].id => i = j
    /\ Len(history) <= MaxHistory

\* HistoryIsCurrent, without the order of the file.
Current(h, keys, rows) ==
    /\ \A i \in DOMAIN LastOf(keys, MaxHistory) :
         LET r == LastOf(keys, MaxHistory)[i]
         IN  rows[r].status \in Settled => \E j \in DOMAIN h : h[j] = Entry(r, rows)
    /\ \A j \in DOMAIN h :
         /\ \E i \in DOMAIN keys : keys[i] = h[j].id
         /\ h[j] = Entry(h[j].id, rows)

SidecarInv ==
    /\ TypesRuns
    /\ RowsInv
    /\ ThreadInv
    /\ RowsAnswered /\ FileAnswered
    /\ KnownInv
    /\ up => Current(history, order, row)

-----------------------------------------------------------------------------
(* Sequences. *)

\* The last n elements of a sequence.
LEMMA LastOfKeeps ==
  ASSUME NEW S, NEW s \in Seq(S), NEW n \in Nat \ {0}
  PROVE  \E k \in 0..Len(s) :
            /\ LastOf(s, n) \in Seq(S)
            /\ Len(LastOf(s, n)) = Len(s) - k /\ Len(LastOf(s, n)) <= n
            /\ s # <<>> => k < Len(s)
            /\ \A i \in 1..Len(s) - k : LastOf(s, n)[i] = s[i + k]
            /\ Len(s) <= n => k = 0
<1> DEFINE k == IF Len(s) > n THEN Len(s) - n ELSE 0
<1>1. k \in 0..Len(s) /\ Len(s) \in Nat /\ (s # <<>> => k < Len(s) /\ Len(s) > 0)
  BY EmptySeq
<1>2. LastOf(s, n) = SubSeq(s, 1 + k, Len(s))
  BY DEF LastOf
<1>3. Len(s) - k <= n /\ (Len(s) <= n => k = 0)
  OBVIOUS
<1> HIDE DEF k
<1>4. /\ LastOf(s, n) \in Seq(S)
      /\ Len(LastOf(s, n)) = Len(s) - k
      /\ \A i \in 1..Len(s) - k : LastOf(s, n)[i] = s[i + k]
  BY <1>1, <1>2
<1>5. QED
  BY <1>1, <1>3, <1>4

\* The function of the prefixes in OnlyIn, up to n.
IsUpto(f, s, Q, n) ==
    f = [m \in 0..n |-> IF m = 0 THEN <<>>
                        ELSE IF s[m] \in Q THEN Append(f[m - 1], s[m]) ELSE f[m - 1]]

LEMMA OnlyInExists ==
  ASSUME NEW S, NEW s \in Seq(S), NEW Q
  PROVE  \A n \in 0..Len(s) : \E f : IsUpto(f, s, Q, n)
<1> DEFINE Good(n) == \E f : IsUpto(f, s, Q, n)
           Bad == {n \in Nat : ~Good(n)}
<1>1. Good(0)
  <2> DEFINE g == [m \in 0..0 |-> <<>>]
  <2>1. IsUpto(g, s, Q, 0)
    BY DEF IsUpto
  <2>2. QED
    BY <2>1
<1>2. ASSUME NEW n \in Nat, Good(n)
      PROVE  Good(n + 1)
  <2>1. PICK f : IsUpto(f, s, Q, n)
    BY <1>2
  <2>2. \A m \in 0..n : f[m] = IF m = 0 THEN <<>>
                               ELSE IF s[m] \in Q THEN Append(f[m - 1], s[m]) ELSE f[m - 1]
    BY <2>1 DEF IsUpto
  <2> DEFINE g == [m \in 0..n + 1 |->
                     IF m <= n THEN f[m]
                     ELSE IF s[m] \in Q THEN Append(f[m - 1], s[m]) ELSE f[m - 1]]
             h == [m \in 0..n + 1 |-> IF m = 0 THEN <<>>
                                      ELSE IF s[m] \in Q THEN Append(g[m - 1], s[m])
                                           ELSE g[m - 1]]
  <2>3. ASSUME NEW m \in 0..n + 1
        PROVE  g[m] = h[m]
    <3>1. CASE m = 0
      <4>1. 0 \in 0..n /\ f[0] = <<>>
        BY <2>2
      <4>2. QED
        BY <3>1, <4>1
    <3>2. CASE m \in 1..n
      <4>1. m - 1 \in 0..n /\ g[m - 1] = f[m - 1] /\ g[m] = f[m]
        BY <3>2
      <4>2. f[m] = IF s[m] \in Q THEN Append(f[m - 1], s[m]) ELSE f[m - 1]
        BY <2>2, <3>2
      <4>3. QED
        BY <3>2, <4>1, <4>2
    <3>3. CASE m = n + 1
      <4>1. m - 1 = n /\ n \in 0..n + 1 /\ g[n] = f[n]
        BY <3>3
      <4>2. QED
        BY <3>3, <4>1
    <3>4. QED
      BY <3>1, <3>2, <3>3
  <2>4. g = h
    BY <2>3
  <2> HIDE DEF g
  <2>5. IsUpto(g, s, Q, n + 1)
    BY <2>4 DEF IsUpto
  <2>6. QED
    BY <2>5
<1> HIDE DEF Good
<1>3. ASSUME Bad # {}
      PROVE  FALSE
  <2>1. PICK n \in Bad : \A m \in Bad : ~(<<m, n>> \in OpToRel(<, Nat))
    BY <1>3, NatLessThanWellFounded, WFMin
  <2>2. \A m \in Bad : ~(m < n)
    BY <2>1 DEF OpToRel
  <2>3. n \in Nat /\ n # 0
    BY <1>1, <2>1
  <2> DEFINE p == n - 1
  <2>4. p \in Nat /\ p < n /\ p + 1 = n
    BY <2>3
  <2> HIDE DEF p
  <2>5. Good(p)
    BY <2>2, <2>4
  <2>6. Good(n)
    BY <1>2, <2>4, <2>5
  <2>7. QED
    BY <2>1, <2>6
<1>4. \A n \in 0..Len(s) : Good(n)
  BY <1>3
<1>5. QED
  BY <1>4 DEF Good

\* OnlyIn keeps the elements in Q, each as often as it stood there, and nothing
\* else.
LEMMA OnlyInKeeps ==
  ASSUME NEW S, NEW s \in Seq(S), NEW Q
  PROVE  /\ OnlyIn(s, Q) \in Seq(S)
         /\ Len(OnlyIn(s, Q)) <= Len(s)
         /\ \A j \in DOMAIN OnlyIn(s, Q) : \E i \in DOMAIN s : s[i] = OnlyIn(s, Q)[j] /\ s[i] \in Q
         /\ \A i \in DOMAIN s : s[i] \in Q => \E j \in DOMAIN OnlyIn(s, Q) : OnlyIn(s, Q)[j] = s[i]
         /\ (\A i, j \in DOMAIN s : s[i] = s[j] => i = j)
              => \A i, j \in DOMAIN OnlyIn(s, Q) : OnlyIn(s, Q)[i] = OnlyIn(s, Q)[j] => i = j
<1> DEFINE u == CHOOSE f : IsUpto(f, s, Q, Len(s))
<1>1. Len(s) \in Nat /\ Len(s) \in 0..Len(s) /\ DOMAIN s = 1..Len(s)
  OBVIOUS
<1>2. \E f : IsUpto(f, s, Q, Len(s))
  BY <1>1, OnlyInExists
<1>3. IsUpto(u, s, Q, Len(s))
  BY <1>2
<1>4. OnlyIn(s, Q) = u[Len(s)]
  BY DEF OnlyIn, IsUpto
<1> HIDE DEF u
<1>5. \A m \in 0..Len(s) : u[m] = IF m = 0 THEN <<>>
                                  ELSE IF s[m] \in Q THEN Append(u[m - 1], s[m]) ELSE u[m - 1]
  BY <1>3 DEF IsUpto
<1> DEFINE Names(t, n) ==
             /\ \A j \in 1..Len(t) : \E i \in 1..n : s[i] = t[j] /\ s[i] \in Q
             /\ \A i \in 1..n : s[i] \in Q => \E j \in 1..Len(t) : t[j] = s[i]
           Once(t) == \A i, j \in 1..Len(t) : t[i] = t[j] => i = j
           Fine(t, n) == t \in Seq(S) /\ Len(t) <= n /\ Names(t, n) /\ (Once(s) => Once(t))
           Bad == {n \in 0..Len(s) : ~Fine(u[n], n)}
<1>6. Fine(u[0], 0)
  <2>1. 0 \in 0..Len(s)
    BY <1>1
  <2>2. u[0] = <<>>
    BY <1>5, <2>1
  <2>3. QED
    BY <2>2
<1>7. ASSUME NEW n \in 0..Len(s), n + 1 \in 0..Len(s), Fine(u[n], n)
      PROVE  Fine(u[n + 1], n + 1)
  <2> DEFINE t == u[n]
             x == s[n + 1]
  <2>1. u[n + 1] = IF x \in Q THEN Append(t, x) ELSE t
    BY <1>5, <1>7
  <2>2. t \in Seq(S) /\ Len(t) \in Nat /\ Len(t) <= n /\ x \in S /\ n \in Nat
    BY <1>1, <1>7
  <2>3. Names(t, n) /\ (Once(s) => Once(t))
    BY <1>7
  <2> HIDE DEF t
  <2>4. CASE x \notin Q
    <3>1. \A i \in 1..n + 1 : s[i] \in Q => i \in 1..n
      BY <2>2, <2>4
    <3>2. 1..n \subseteq 1..n + 1
      BY <2>2
    <3>3. Names(t, n + 1)
      BY <2>3, <3>1, <3>2
    <3>4. QED
      BY <2>1, <2>2, <2>3, <2>4, <3>3
  <2>5. CASE x \in Q
    <3> DEFINE v == Append(t, x)
    <3>1. /\ v \in Seq(S) /\ Len(v) = Len(t) + 1 /\ v[Len(t) + 1] = x
          /\ \A j \in 1..Len(t) : v[j] = t[j]
      BY <2>2
    <3> HIDE DEF v, x
    <3>2. ASSUME NEW j \in 1..Len(v)
          PROVE  \E i \in 1..n + 1 : s[i] = v[j] /\ s[i] \in Q
      <4>1. CASE j \in 1..Len(t)
        BY <2>2, <2>3, <3>1, <4>1
      <4>2. CASE j = Len(t) + 1
        BY <2>2, <2>5, <3>1, <4>2 DEF x
      <4>3. QED
        BY <2>2, <3>1, <4>1, <4>2
    <3>3. ASSUME NEW i \in 1..n + 1, s[i] \in Q
          PROVE  \E j \in 1..Len(v) : v[j] = s[i]
      <4>1. CASE i \in 1..n
        <5>1. PICK j \in 1..Len(t) : t[j] = s[i]
          BY <2>3, <3>3, <4>1
        <5>2. j \in 1..Len(v) /\ v[j] = s[i]
          BY <2>2, <3>1, <5>1
        <5>3. QED
          BY <5>2
      <4>2. CASE i = n + 1
        <5>1. Len(t) + 1 \in 1..Len(v) /\ v[Len(t) + 1] = s[i]
          BY <2>2, <3>1, <4>2 DEF x
        <5>2. QED
          BY <5>1
      <4>3. QED
        BY <2>2, <4>1, <4>2
    <3>4. ASSUME Once(s)
          PROVE  Once(v)
      <4>1. ASSUME NEW j \in 1..Len(t)
            PROVE  t[j] # x
        <5>1. PICK i \in 1..n : s[i] = t[j]
          BY <2>3
        <5>2. i \in 1..Len(s) /\ n + 1 \in 1..Len(s) /\ i # n + 1
          BY <1>1, <1>7, <2>2
        <5>3. QED
          BY <3>4, <5>1, <5>2 DEF x
      <4>2. ASSUME NEW i \in 1..Len(v), NEW j \in 1..Len(v), v[i] = v[j]
            PROVE  i = j
        <5>1. CASE i \in 1..Len(t) /\ j \in 1..Len(t)
          BY <2>3, <3>1, <3>4, <4>2, <5>1
        <5>2. CASE i \in 1..Len(t) /\ j = Len(t) + 1
          BY <3>1, <4>1, <4>2, <5>2
        <5>3. CASE i = Len(t) + 1 /\ j \in 1..Len(t)
          BY <3>1, <4>1, <4>2, <5>3
        <5>4. CASE i = Len(t) + 1 /\ j = Len(t) + 1
          BY <5>4
        <5>5. QED
          BY <2>2, <3>1, <5>1, <5>2, <5>3, <5>4
      <4>3. QED
        BY <4>2
    <3>5. Names(v, n + 1)
      BY <3>2, <3>3
    <3>6. u[n + 1] = v
      BY <2>1, <2>5 DEF v, x
    <3>7. Fine(v, n + 1)
      BY <2>2, <3>1, <3>4, <3>5
    <3> HIDE DEF Fine
    <3>8. QED
      BY <3>6, <3>7
  <2>6. QED
    BY <2>4, <2>5
<1> HIDE DEF Fine
<1>8. ASSUME Bad # {}
      PROVE  FALSE
  <2>1. Bad \subseteq Nat
    BY <1>1
  <2>2. PICK n \in Bad : \A m \in Bad : ~(<<m, n>> \in OpToRel(<, Nat))
    BY <1>8, <2>1, NatLessThanWellFounded, WFMin
  <2>3. \A m \in Bad : ~(m < n)
    BY <2>1, <2>2 DEF OpToRel
  <2>4. n \in 0..Len(s) /\ n # 0
    BY <1>6, <2>2
  <2> DEFINE p == n - 1
  <2>5. p \in 0..Len(s) /\ p < n /\ p + 1 = n
    BY <1>1, <2>4
  <2> HIDE DEF p
  <2>6. Fine(u[p], p)
    BY <2>3, <2>5
  <2>7. Fine(u[n], n)
    BY <1>7, <2>4, <2>5, <2>6
  <2>8. QED
    BY <2>2, <2>7
<1>9. Fine(u[Len(s)], Len(s))
  BY <1>1, <1>8
<1>10. DOMAIN OnlyIn(s, Q) = 1..Len(OnlyIn(s, Q))
  BY <1>4, <1>9 DEF Fine
<1>11. QED
  BY <1>1, <1>4, <1>9, <1>10 DEF Fine

-----------------------------------------------------------------------------
(* The conversation files.                                                  *)

\* Compaction leaves the latest turns and moves the others to the count.
LEMMA CompactKeeps ==
  ASSUME NEW x, IsThread(x)
  PROVE  /\ IsThread(Compact(x))
         /\ TurnCount(Compact(x)) = TurnCount(x)
         /\ \E k \in 0..Len(x.turns) :
               /\ Len(Compact(x).turns) = Len(x.turns) - k
               /\ \A i \in 1..Len(x.turns) - k : Compact(x).turns[i] = x.turns[i + k]
               /\ k = 0 \/ Len(x.turns) - k = KeepRecent
<1> DEFINE split == Len(x.turns) - KeepRecent
           y == Compact(x)
<1>1. x.turns \in Seq(Turn) /\ x.compressed \in Nat /\ Len(x.turns) \in Nat
  BY DEF IsThread
<1>2. KeepRecent \in Nat /\ KeepRecent > 0
  BY ConversationLimits
<1>3. CASE y = x
  <2>1. 0 \in 0..Len(x.turns)
    BY <1>1
  <2>2. QED
    BY <1>1, <1>3, <2>1
<1>4. CASE y # x
  <2> DEFINE small == x.summary + TotalSize(x.turns) <= Trigger
             older == SummaryOf(x.summary, SubSeq(x.turns, 1, split))
             suffix == SubSeq(x.turns, split + 1, Len(x.turns))
             rest == [turns |-> suffix, summary |-> older, compressed |-> x.compressed + split]
  <2>1. y = IF small \/ split <= 0 THEN x ELSE rest
    BY DEF Compact
  <2> HIDE DEF small, older, suffix
  <2>2. split > 0 /\ y = rest
    <3>1. ~(small \/ split <= 0) /\ y = rest
      BY <1>4, <2>1
    <3>2. ~(split <= 0)
      BY <3>1
    <3>3. QED
      BY <1>1, <1>2, <3>1, <3>2
  <2>3. /\ y.turns = SubSeq(x.turns, split + 1, Len(x.turns))
        /\ y.compressed = x.compressed + split
        /\ y = [turns |-> y.turns, summary |-> y.summary, compressed |-> y.compressed]
    <3> HIDE DEF y
    <3>1. y.turns = suffix /\ y.compressed = x.compressed + split /\ y.summary = older
      BY <2>2
    <3>2. QED
      BY <2>2, <3>1 DEF suffix
  <2>4. split \in 0..Len(x.turns) /\ split \in Nat /\ Len(x.turns) - split = KeepRecent
    BY <1>1, <1>2, <2>2
  <2> HIDE DEF y, split
  <2>5. /\ y.turns \in Seq(Turn)
        /\ Len(y.turns) = Len(x.turns) - split
        /\ \A i \in 1..Len(x.turns) - split : y.turns[i] = x.turns[i + split]
    <3> DEFINE s == x.turns
               m == split + 1
               n == Len(s)
    <3>1. m \in Int /\ n \in Int /\ n - m + 1 = n - split /\ m <= n + 1
      BY <1>1, <2>4
    <3>2. \A i \in m..n : s[i] \in Turn
      BY <1>1, <2>4
    <3>3. \A i \in 1..n - split : m + i - 1 = i + split
      BY <1>1, <2>4
    <3> HIDE DEF m, n, s
    <3>4. /\ SubSeq(s, m, n) \in Seq(Turn)
          /\ Len(SubSeq(s, m, n)) = IF m <= n THEN n - m + 1 ELSE 0
          /\ \A i \in 1..n - m + 1 : SubSeq(s, m, n)[i] = s[m + i - 1]
      BY <3>1, <3>2, SubSeqProperties
    <3>5. y.turns = SubSeq(s, m, n)
      BY <2>3 DEF m, n, s
    <3>6. Len(y.turns) = n - split
      BY <2>4, <3>1, <3>4, <3>5
    <3>7. \A i \in 1..n - split : y.turns[i] = s[i + split]
      BY <3>1, <3>3, <3>4, <3>5
    <3>8. QED
      BY <3>4, <3>5, <3>6, <3>7 DEF n, s
  <2>6. y.compressed \in Nat
    BY <1>1, <2>3, <2>4
  <2>7. IsThread(y)
    BY ZenonT(30), <2>3, <2>5, <2>6 DEF IsThread
  <2>8. TurnCount(y) = TurnCount(x)
    BY <1>1, <2>3, <2>4, <2>5 DEF TurnCount
  <2>9. QED
    BY <2>4, <2>5, <2>7, <2>8 DEF y
<1>5. QED
  BY <1>3, <1>4

\* An appended turn is the last of the file, behind the latest of the others.
LEMMA AppendTurnKeeps ==
  ASSUME NEW x, IsThread(x), NEW turn \in Turn
  PROVE  LET y == AppendTurn(x, turn)
         IN  /\ IsThread(y)
             /\ TurnCount(y) = TurnCount(x) + 1
             /\ \E k \in 0..Len(x.turns) :
                   /\ Len(y.turns) = Len(x.turns) + 1 - k
                   /\ \A i \in 1..Len(x.turns) - k : y.turns[i] = x.turns[i + k]
                   /\ y.turns[Len(y.turns)] = turn
                   /\ k = 0 \/ Len(y.turns) = KeepRecent
<1> DEFINE z == [x EXCEPT !.turns = Append(@, turn)]
           y == AppendTurn(x, turn)
<1>1. /\ x = [turns |-> x.turns, summary |-> x.summary, compressed |-> x.compressed]
      /\ x.turns \in Seq(Turn) /\ x.compressed \in Nat /\ Len(x.turns) \in Nat
  BY DEF IsThread
<1>2. KeepRecent \in Nat /\ KeepRecent > 0
  BY ConversationLimits
<1>3. y = Compact(z)
  BY DEF AppendTurn
<1>4. z = [turns |-> Append(x.turns, turn), summary |-> x.summary, compressed |-> x.compressed]
  BY <1>1
<1> HIDE DEF z, y
<1>5. /\ IsThread(z)
      /\ z.turns = Append(x.turns, turn) /\ z.compressed = x.compressed
      /\ Len(z.turns) = Len(x.turns) + 1
  BY <1>1, <1>4 DEF IsThread
<1>6. PICK k \in 0..Len(z.turns) :
         /\ Len(y.turns) = Len(z.turns) - k
         /\ \A i \in 1..Len(z.turns) - k : y.turns[i] = z.turns[i + k]
         /\ k = 0 \/ Len(z.turns) - k = KeepRecent
  BY <1>3, <1>5, CompactKeeps
<1>7. k \in 0..Len(x.turns)
  BY <1>1, <1>2, <1>5, <1>6
<1>8. \A i \in 1..Len(x.turns) - k : y.turns[i] = x.turns[i + k]
  BY <1>1, <1>5, <1>6, <1>7
<1>9. y.turns[Len(y.turns)] = turn
  <2>1. Len(z.turns) - k \in 1..Len(z.turns) - k /\ Len(z.turns) - k + k = Len(x.turns) + 1
    BY <1>1, <1>5, <1>7
  <2>2. y.turns[Len(y.turns)] = z.turns[Len(x.turns) + 1]
    BY <1>6, <2>1
  <2>3. QED
    BY <1>1, <1>5, <2>2
<1>10. IsThread(y) /\ TurnCount(y) = TurnCount(z)
  BY <1>3, <1>5, CompactKeeps
<1>11. TurnCount(z) = TurnCount(x) + 1
  BY <1>1, <1>5 DEF TurnCount
<1>12. QED
  BY <1>5, <1>6, <1>7, <1>8, <1>9, <1>10, <1>11 DEF y

-----------------------------------------------------------------------------
(* The event queues.                                                        *)

EventTypes == {"started", "progress"} \cup Settled

LEMMA EmitKeeps ==
  ASSUME NEW x \in RowType, x.events # <<>>, Consecutive(x.events), NEW type \in EventTypes
  PROVE  LET y == Emit(x, type)
         IN  /\ y \in RowType
             /\ y = [x EXCEPT !.events = y.events]
             /\ y.events # <<>> /\ Consecutive(y.events)
             /\ y.events[Len(y.events)].type = type
             /\ \A i \in 1..Len(y.events) - 1 :
                   \E j \in DOMAIN x.events : y.events[i].type = x.events[j].type
<1> DEFINE s == x.events
           e == [seq |-> Last(s).seq + 1, type |-> type]
           a == Append(s, e)
           v == LastOf(a, MaxEvents)
           y == Emit(x, type)
<1>1. s \in Seq(Event) /\ Len(s) \in Nat /\ Len(s) > 0 /\ s[Len(s)] \in Event
  BY EmptySeq DEF RowType
<1>2. e \in Event /\ e.seq = s[Len(s)].seq + 1 /\ e.type = type
  BY <1>1 DEF Event, EventTypes, Last
<1>3. y = [x EXCEPT !.events = v]
  BY DEF Emit, LastSeq
<1> HIDE DEF s, e
<1>4. /\ a \in Seq(Event) /\ a # <<>> /\ Len(a) = Len(s) + 1 /\ a[Len(s) + 1] = e
      /\ \A i \in 1..Len(s) : a[i] = s[i]
  BY <1>1, <1>2, AppendProperties
<1> HIDE DEF a
<1>5. MaxEvents \in Nat \ {0}
  BY SidecarAssumption
<1>6. PICK k \in 0..Len(a) :
         /\ v \in Seq(Event)
         /\ Len(v) = Len(a) - k
         /\ k < Len(a)
         /\ \A i \in 1..Len(a) - k : v[i] = a[i + k]
  BY <1>4, <1>5, LastOfKeeps
<1> HIDE DEF v
<1>7. y \in RowType /\ y.events = v
  BY <1>3, <1>6 DEF RowType
<1>8. Len(v) \in 1..Len(a) /\ v[Len(v)] = e
  BY <1>1, <1>4, <1>6
<1>9. Consecutive(a)
  <2>1. ASSUME NEW i \in 1..Len(a) - 1
        PROVE  a[i + 1].seq = a[i].seq + 1
    <3>1. CASE i \in 1..Len(s) - 1
      <4>1. s[i + 1].seq = s[i].seq + 1
        BY <3>1 DEF Consecutive, s
      <4>2. QED
        BY <1>1, <1>4, <3>1, <4>1
    <3>2. CASE i = Len(s)
      BY <1>1, <1>2, <1>4, <3>2
    <3>3. QED
      BY <1>1, <1>4, <2>1, <3>1, <3>2
  <2>2. QED
    BY <2>1 DEF Consecutive
<1>10. Consecutive(v)
  <2>1. ASSUME NEW i \in 1..Len(v) - 1
        PROVE  v[i + 1].seq = v[i].seq + 1
    <3>1. i + k \in 1..Len(a) - 1 /\ v[i] = a[i + k] /\ v[i + 1] = a[(i + k) + 1]
      BY <1>1, <1>4, <1>6
    <3>2. QED
      BY <1>9, <3>1 DEF Consecutive
  <2>2. QED
    BY <2>1 DEF Consecutive
<1>11. ASSUME NEW i \in 1..Len(v) - 1
       PROVE  \E j \in DOMAIN s : v[i].type = s[j].type
  <2>1. i + k \in 1..Len(s) /\ v[i] = a[i + k]
    BY <1>1, <1>4, <1>6
  <2>2. i + k \in DOMAIN s /\ v[i] = s[i + k]
    BY <1>1, <1>4, <2>1
  <2>3. QED
    BY <2>2
<1>12. v # <<>>
  BY <1>8, <1>6
<1>13. QED
  BY <1>2, <1>3, <1>7, <1>8, <1>10, <1>11, <1>12 DEF s

-----------------------------------------------------------------------------
(* The history file.                                                        *)

\* What _persist_history writes is current, names each run once and is no longer
\* than the file may be.
LEMMA RecentIsCurrent ==
  ASSUME NEW keys \in Seq(Runs), \A i, j \in DOMAIN keys : keys[i] = keys[j] => i = j,
         NEW rows \in [Runs -> RowType]
  PROVE  LET h == Recent(keys, rows)
         IN  /\ h \in Seq(EntryType)
             /\ Len(h) <= MaxHistory
             /\ \A i, j \in DOMAIN h : h[i].id = h[j].id => i = j
             /\ Current(h, keys, rows)
<1> DEFINE last == LastOf(keys, MaxHistory)
           Q == {r \in Runs : rows[r].status \in Settled}
           u == OnlyIn(last, Q)
           h == Recent(keys, rows)
<1>1. MaxHistory \in Nat \ {0}
  BY SidecarAssumption
<1>2. PICK k \in 0..Len(keys) :
         /\ last \in Seq(Runs)
         /\ Len(last) = Len(keys) - k /\ Len(last) <= MaxHistory
         /\ \A i \in 1..Len(keys) - k : last[i] = keys[i + k]
  BY <1>1, LastOfKeeps
<1>3. \A i \in DOMAIN last : i + k \in DOMAIN keys /\ last[i] = keys[i + k]
  BY <1>2
<1>4. \A i, j \in DOMAIN last : last[i] = last[j] => i = j
  <2>1. ASSUME NEW i \in DOMAIN last, NEW j \in DOMAIN last, last[i] = last[j]
        PROVE  i = j
    <3>1. i + k = j + k
      BY <1>3, <2>1
    <3>2. i \in Nat /\ j \in Nat /\ k \in Nat
      BY <1>2
    <3>3. QED
      BY <3>1, <3>2
  <2>2. QED
    BY <2>1
<1>5. h = [i \in DOMAIN u |-> Entry(u[i], rows)]
  BY DEF Recent
<1>6. last \in Seq(Runs) /\ Len(last) <= MaxHistory
  BY <1>2
<1> HIDE DEF last, h
<1>7. /\ u \in Seq(Runs) /\ Len(u) <= Len(last)
      /\ \A j \in DOMAIN u : \E i \in DOMAIN last : last[i] = u[j] /\ last[i] \in Q
      /\ \A i \in DOMAIN last : last[i] \in Q => \E j \in DOMAIN u : u[j] = last[i]
  BY <1>6, OnlyInKeeps
<1>8. \A i, j \in DOMAIN u : u[i] = u[j] => i = j
  BY <1>4, <1>6, OnlyInKeeps
<1> HIDE DEF u
<1>9. \A j \in DOMAIN u : u[j] \in Runs /\ rows[u[j]].status \in Settled
  BY <1>7
<1>10. \A j \in DOMAIN u : Entry(u[j], rows) \in EntryType
  <2>1. \A r \in Runs : rows[r].outcome \in Outcomes
    BY DEF RowType
  <2>2. QED
    BY <1>9, <2>1 DEF Entry, EntryType
<1>11. /\ DOMAIN h = DOMAIN u
       /\ \A j \in DOMAIN u : h[j] = Entry(u[j], rows) /\ h[j].id = u[j]
  BY <1>5 DEF Entry
<1>12. h \in Seq(EntryType) /\ Len(h) = Len(u)
  <2>1. DOMAIN u = 1..Len(u) /\ Len(u) \in Nat
    BY <1>7
  <2>2. h = [i \in 1..Len(u) |-> Entry(u[i], rows)]
    BY <1>5, <2>1
  <2>3. QED
    BY <1>10, <2>1, <2>2
<1>13. Len(h) <= MaxHistory
  BY <1>1, <1>6, <1>7, <1>12
<1>14. \A i, j \in DOMAIN h : h[i].id = h[j].id => i = j
  BY <1>8, <1>11
<1>15. ASSUME NEW i \in DOMAIN last, rows[last[i]].status \in Settled
       PROVE  \E j \in DOMAIN h : h[j] = Entry(last[i], rows)
  <2>1. last[i] \in Q
    BY <1>6, <1>15
  <2>2. PICK j \in DOMAIN u : u[j] = last[i]
    BY <1>7, <2>1
  <2>3. QED
    BY <1>11, <2>2
<1>16. ASSUME NEW j \in DOMAIN h
       PROVE  (\E i \in DOMAIN keys : keys[i] = h[j].id) /\ h[j] = Entry(h[j].id, rows)
  <2>1. PICK i \in DOMAIN last : last[i] = u[j]
    BY <1>7, <1>11
  <2>2. i + k \in DOMAIN keys /\ keys[i + k] = h[j].id
    BY <1>3, <1>11, <2>1
  <2>3. QED
    BY <1>11, <2>2
<1>17. Current(h, keys, rows)
  BY <1>15, <1>16 DEF Current, last
<1>18. QED
  BY <1>12, <1>13, <1>14, <1>17 DEF h

\* A change of the rows that no entry shows leaves the file current.
LEMMA CurrentKept ==
  ASSUME NEW h, NEW keys \in Seq(Runs), NEW rows, NEW rowsNext, Current(h, keys, rows),
         \A r \in Runs : /\ rowsNext[r].status = rows[r].status
                         /\ rowsNext[r].outcome = rows[r].outcome
  PROVE  Current(h, keys, rowsNext)
<1>1. MaxHistory \in Nat \ {0}
  BY SidecarAssumption
<1>2. \A r \in Runs : Entry(r, rowsNext) = Entry(r, rows)
  BY DEF Entry
<1>3. \A i \in DOMAIN LastOf(keys, MaxHistory) : LastOf(keys, MaxHistory)[i] \in Runs
  <2>1. LastOf(keys, MaxHistory) \in Seq(Runs)
    BY <1>1, LastOfKeeps
  <2>2. QED
    BY <2>1
<1>4. \A j \in DOMAIN h : h[j].id \in Runs
  BY DEF Current
<1>5. QED
  BY <1>2, <1>3, <1>4 DEF Current

\* A run that is started pushes none but the oldest out of reach.
LEMMA CurrentStarted ==
  ASSUME NEW h, NEW keys \in Seq(Runs), NEW rows \in [Runs -> RowType], Current(h, keys, rows),
         NEW r \in Runs, \A i \in DOMAIN keys : keys[i] # r
  PROVE  Current(h, Append(keys, r), [rows EXCEPT ![r] = NewRow])
<1> DEFINE more == Append(keys, r)
           rowsNext == [rows EXCEPT ![r] = NewRow]
           last == LastOf(keys, MaxHistory)
           lastNext == LastOf(more, MaxHistory)
<1>1. MaxHistory \in Nat \ {0} /\ Len(keys) \in Nat
  BY SidecarAssumption
<1>2. /\ more \in Seq(Runs) /\ Len(more) = Len(keys) + 1
      /\ more[Len(keys) + 1] = r /\ \A i \in 1..Len(keys) : more[i] = keys[i]
  BY <1>1
<1>3. rowsNext[r].status = "running" /\ \A q \in Runs : q # r => Entry(q, rowsNext) = Entry(q, rows)
  BY DEF Entry, NewRow
<1>4. \A q \in Runs : q # r => rowsNext[q].status = rows[q].status
  OBVIOUS
<1> HIDE DEF more, rowsNext
<1> DEFINE k == IF Len(keys) > MaxHistory THEN Len(keys) - MaxHistory ELSE 0
           m == IF Len(more) > MaxHistory THEN Len(more) - MaxHistory ELSE 0
<1>5. /\ last = SubSeq(keys, 1 + k, Len(keys))
      /\ lastNext = SubSeq(more, 1 + m, Len(more))
  BY DEF LastOf
<1>6. k \in 0..Len(keys) /\ m \in 0..Len(keys) /\ k <= m
  BY <1>1, <1>2
<1> HIDE DEF last, lastNext, k, m
<1>7. /\ DOMAIN last = 1..Len(keys) - k
      /\ \A i \in 1..Len(keys) - k : last[i] = keys[i + k]
  BY <1>1, <1>5, <1>6
<1>8. /\ DOMAIN lastNext = 1..Len(keys) + 1 - m
      /\ \A i \in 1..Len(keys) + 1 - m : lastNext[i] = more[i + m]
  BY <1>1, <1>2, <1>5, <1>6
<1>9. ASSUME NEW i \in DOMAIN lastNext, rowsNext[lastNext[i]].status \in Settled
      PROVE  \E j \in DOMAIN h : h[j] = Entry(lastNext[i], rowsNext)
  <2>1. i + m \in 1..Len(keys)
    <3>1. ASSUME i + m = Len(keys) + 1
          PROVE  FALSE
      <4>1. lastNext[i] = r
        BY <1>2, <1>8, <3>1
      <4>2. rowsNext[r].status \in Settled
        BY <1>9, <4>1
      <4>3. QED
        BY <1>3, <4>2 DEF Settled
    <3>2. i \in 1..Len(keys) + 1 - m
      BY <1>8
    <3>3. QED
      BY <1>1, <1>6, <3>1, <3>2
  <2> DEFINE p == i + m - k
  <2>2. p \in DOMAIN last /\ p + k = i + m
    BY <1>1, <1>6, <1>7, <1>8, <2>1
  <2>3. lastNext[i] = keys[i + m] /\ lastNext[i] = last[p]
    BY <1>2, <1>7, <1>8, <2>1, <2>2
  <2> HIDE DEF p
  <2>4. lastNext[i] \in Runs /\ lastNext[i] # r
    <3>1. i + m \in DOMAIN keys /\ keys[i + m] \in Runs
      BY <1>1, <2>1
    <3>2. QED
      BY <2>3, <3>1
  <2>5. rows[last[p]].status \in Settled
    BY <1>4, <1>9, <2>3, <2>4
  <2>6. PICK j \in DOMAIN h : h[j] = Entry(last[p], rows)
    BY <2>2, <2>5 DEF Current, last
  <2>7. QED
    BY <1>3, <2>3, <2>4, <2>6
<1>10. ASSUME NEW j \in DOMAIN h
       PROVE  (\E i \in DOMAIN more : more[i] = h[j].id) /\ h[j] = Entry(h[j].id, rowsNext)
  <2>1. PICK i \in DOMAIN keys : keys[i] = h[j].id
    BY DEF Current
  <2>2. h[j] = Entry(h[j].id, rows)
    BY DEF Current
  <2>3. h[j].id \in Runs /\ h[j].id # r /\ i \in DOMAIN more /\ more[i] = h[j].id
    BY <1>1, <1>2, <2>1
  <2>4. QED
    BY <1>3, <2>2, <2>3
<1>11. QED
  BY <1>9, <1>10 DEF Current, more, rowsNext, lastNext

\* The rows read back from the file show what the file says.
LEMMA CurrentRestored ==
  ASSUME NEW h \in Seq(EntryType), \A i, j \in DOMAIN h : h[i].id = h[j].id => i = j,
         Len(h) <= MaxHistory, NEW rows,
         \A j \in DOMAIN h : /\ rows[h[j].id].status = h[j].status
                             /\ rows[h[j].id].outcome = h[j].outcome
  PROVE  Current(h, [i \in DOMAIN h |-> h[i].id], rows)
<1> DEFINE keys == [i \in DOMAIN h |-> h[i].id]
           last == LastOf(keys, MaxHistory)
<1>1. MaxHistory \in Nat \ {0} /\ Len(h) \in Nat /\ DOMAIN h = 1..Len(h)
  BY SidecarAssumption
<1>2. \A i \in DOMAIN h : h[i] \in EntryType
  BY <1>1
<1>3. keys \in Seq(Runs) /\ Len(keys) = Len(h) /\ \A i \in DOMAIN h : keys[i] = h[i].id
  <2>1. \A i \in 1..Len(h) : h[i].id \in Runs
    BY <1>1, <1>2 DEF EntryType
  <2>2. QED
    BY <1>1, <2>1
<1>4. \A j \in DOMAIN h : h[j] = Entry(h[j].id, rows)
  BY <1>2 DEF Entry, EntryType
<1> HIDE DEF keys
<1>5. DOMAIN last = DOMAIN h /\ \A i \in DOMAIN h : last[i] = keys[i]
  BY <1>1, <1>3, LastOfKeeps
<1> HIDE DEF last
<1>6. DOMAIN keys = DOMAIN h
  BY <1>1, <1>3
<1>7. ASSUME NEW i \in DOMAIN last
      PROVE  \E j \in DOMAIN h : h[j] = Entry(last[i], rows)
  <2>1. i \in DOMAIN h /\ last[i] = h[i].id
    BY <1>3, <1>5
  <2>2. QED
    BY <1>4, <2>1
<1>8. \A j \in DOMAIN h : \E i \in DOMAIN keys : keys[i] = h[j].id
  BY <1>3, <1>6
<1>9. Current(h, keys, rows)
  BY <1>4, <1>7, <1>8 DEF Current, last
<1>10. QED
  BY <1>9 DEF keys

-----------------------------------------------------------------------------
(* The steps of a row.                                                      *)

\* A run that is not in memory, or was restored, does nothing.
LEMMA IdleIsSound ==
  /\ IdleRow \in RowType /\ RowSound(IdleRow)
  /\ IdleRow.task = "restored" /\ IdleRow.pending = 0 /\ ~Succeeds(IdleRow)
<1> DEFINE z == [NewRow EXCEPT !.task = "restored"]
<1>1. FirstEvent \in Event
  BY DEF FirstEvent, Event
<1>2. <<FirstEvent>> \in Seq(Event) /\ <<>> \in Seq(Event)
  BY <1>1
<1>3. NewRow \in RowType /\ NewRow.status = "running" /\ NewRow.pending = 0
  BY <1>2 DEF NewRow, RowType, LiveTasks, Outcomes
<1>4. z \in RowType /\ z.status = "running" /\ z.pending = 0 /\ z.task = "restored"
  BY <1>3 DEF RowType
<1>5. IdleRow = [z EXCEPT !.events = <<>>]
  BY DEF IdleRow
<1> HIDE DEF z
<1>6. /\ IdleRow \in RowType
      /\ IdleRow.status = "running" /\ IdleRow.pending = 0 /\ IdleRow.task = "restored"
  BY <1>2, <1>4, <1>5 DEF RowType
<1>7. QED
  BY <1>6 DEF RowSound, LiveTasks, Succeeds

LEMMA RestoredRow ==
  ASSUME NEW e \in EntryType
  PROVE  LET y == [IdleRow EXCEPT !.status = e.status, !.outcome = e.outcome]
         IN  /\ y \in RowType /\ RowSound(y) /\ y.task = "restored"
             /\ y.status = e.status /\ y.outcome = e.outcome
<1> DEFINE z == [IdleRow EXCEPT !.status = e.status]
           y == [IdleRow EXCEPT !.status = e.status, !.outcome = e.outcome]
<1>1. e.status \in Settled /\ e.outcome \in Outcomes
  BY DEF EntryType
<1>2. z \in RowType /\ z.status = e.status /\ z.task = "restored" /\ z.pending = 0
  BY <1>1, IdleIsSound DEF RowType
<1>3. y = [z EXCEPT !.outcome = e.outcome]
  OBVIOUS
<1> HIDE DEF y, z
<1>4. /\ y \in RowType
      /\ y.status = e.status /\ y.task = "restored" /\ y.pending = 0 /\ y.outcome = e.outcome
  BY <1>1, <1>2, <1>3 DEF RowType
<1>5. RowSound(y)
  BY <1>4 DEF RowSound, LiveTasks
<1>6. QED
  BY <1>4, <1>5 DEF y

LEMMA ReportRow ==
  ASSUME NEW x \in RowType, RowSound(x), x.task = "executing"
  PROVE  LET y == [x EXCEPT !.reported = TRUE, !.pending = @ + 1]
         IN  /\ y \in RowType /\ RowSound(y)
             /\ y.status = x.status /\ y.task = x.task /\ y.closing = x.closing
             /\ y.outcome = x.outcome
<1> DEFINE y == [x EXCEPT !.reported = TRUE, !.pending = @ + 1]
           z == [x EXCEPT !.reported = TRUE]
<1>1. y = [z EXCEPT !.pending = @ + 1]
  OBVIOUS
<1>2. z \in RowType /\ z.reported /\ z = [x EXCEPT !.reported = TRUE]
  BY DEF RowType
<1> HIDE DEF y, z
<1> DEFINE n == z.pending + 1
<1>3. n \in Nat /\ y = [z EXCEPT !.pending = n]
  BY <1>1, <1>2 DEF RowType
<1> HIDE DEF n
<1>4. y \in RowType
  BY <1>2, <1>3 DEF RowType
<1>5. /\ y.status = x.status /\ y.task = x.task /\ y.closing = x.closing /\ y.reported
      /\ y.events = x.events /\ y.outcome = x.outcome
  BY <1>1, <1>2 DEF RowType
<1>6. RowSound(y)
  BY <1>5 DEF RowSound, Story, LiveTasks
<1>7. QED
  BY <1>4, <1>6, <1>5 DEF y

\* A running row tells no end, so an event more leaves the story straight.
LEMMA EmitRow ==
  ASSUME NEW x \in RowType, RowSound(x), x.pending > 0
  PROVE  LET y == Emit([x EXCEPT !.pending = @ - 1], "progress")
         IN  /\ y \in RowType /\ RowSound(y)
             /\ y.status = x.status /\ y.task = x.task /\ y.closing = x.closing
             /\ y.outcome = x.outcome
<1> DEFINE z == [x EXCEPT !.pending = @ - 1]
           y == Emit(z, "progress")
<1>1. /\ z \in RowType /\ z.events = x.events
      /\ z.status = x.status /\ z.task = x.task /\ z.closing = x.closing
      /\ z.reported = x.reported /\ z.outcome = x.outcome
  BY DEF RowType
<1>2. x.task \in LiveTasks /\ x.reported /\ x.status = "running" /\ x.task # "restored"
  BY DEF RowSound, LiveTasks
<1>3. Story(x)
  BY <1>2 DEF RowSound
<1>4. x.events # <<>> /\ Consecutive(x.events)
      /\ \A i \in DOMAIN x.events : x.events[i].type \notin Settled
  BY <1>2, <1>3 DEF Story, Settled
<1> HIDE DEF z
<1>5. /\ y \in RowType
      /\ y = [z EXCEPT !.events = y.events]
      /\ y.events # <<>> /\ Consecutive(y.events)
      /\ y.events[Len(y.events)].type = "progress"
      /\ \A i \in 1..Len(y.events) - 1 :
            \E j \in DOMAIN z.events : y.events[i].type = z.events[j].type
  BY <1>1, <1>4, EmitKeeps DEF EventTypes
<1> HIDE DEF y
<1>6. /\ y.status = x.status /\ y.task = x.task /\ y.closing = x.closing
      /\ y.reported = x.reported /\ y.outcome = x.outcome
  BY <1>1, <1>5 DEF RowType
<1>7. y.events \in Seq(Event) /\ Len(y.events) \in Nat /\ DOMAIN y.events = 1..Len(y.events)
  BY <1>5 DEF RowType
<1>8. ASSUME NEW i \in DOMAIN y.events
      PROVE  y.events[i].type \notin Settled
  <2>1. CASE i = Len(y.events)
    BY <1>5, <2>1 DEF Settled
  <2>2. CASE i \in 1..Len(y.events) - 1
    <3>1. PICK j \in DOMAIN z.events : y.events[i].type = z.events[j].type
      BY <1>5, <2>2
    <3>2. QED
      BY <1>1, <1>4, <3>1
  <2>3. QED
    BY <1>7, <2>1, <2>2
<1>9. RowSound(y)
  BY <1>2, <1>5, <1>6, <1>8 DEF RowSound, Story, LiveTasks, Settled
<1>10. QED
  BY <1>5, <1>6, <1>9 DEF y, z

\* The end of a run is its last event.
LEMMA FinishRow ==
  ASSUME NEW x \in RowType, RowSound(x), x.task \in LiveTasks, x.pending = 0,
         NEW ending \in Settled
  PROVE  LET y == Emit([x EXCEPT !.status = ending, !.task = "done", !.closing = "none"], ending)
         IN  y \in RowType /\ RowSound(y) /\ y.status = ending /\ y.task = "done"
<1> DEFINE z == [x EXCEPT !.status = ending, !.task = "done", !.closing = "none"]
           y == Emit(z, ending)
<1>1. /\ z \in RowType /\ z.events = x.events /\ z.pending = 0
      /\ z.status = ending /\ z.task = "done"
  BY DEF RowType, Settled
<1>2. x.status = "running" /\ Story(x)
  BY DEF RowSound, LiveTasks
<1>3. x.events # <<>> /\ Consecutive(x.events)
      /\ \A i \in DOMAIN x.events : x.events[i].type \notin Settled
  BY <1>2 DEF Story, Settled
<1> HIDE DEF z
<1>4. ending \in EventTypes
  BY DEF EventTypes
<1>5. z.events # <<>> /\ Consecutive(z.events)
  BY <1>1, <1>3
<1>6. /\ y \in RowType
      /\ y = [z EXCEPT !.events = y.events]
      /\ y.events # <<>> /\ Consecutive(y.events)
      /\ y.events[Len(y.events)].type = ending
      /\ \A i \in 1..Len(y.events) - 1 :
            \E j \in DOMAIN z.events : y.events[i].type = z.events[j].type
  BY <1>1, <1>4, <1>5, EmitKeeps
<1> HIDE DEF y
<1>7. y.status = ending /\ y.task = "done" /\ y.pending = 0
  BY <1>1, <1>6 DEF RowType
<1>8. y.events \in Seq(Event) /\ Len(y.events) \in Nat /\ DOMAIN y.events = 1..Len(y.events)
  BY <1>6 DEF RowType
<1>9. ASSUME NEW i \in DOMAIN y.events, y.events[i].type \in Settled
      PROVE  i = Len(y.events) /\ y.events[i].type = ending
  <2>1. CASE i = Len(y.events)
    BY <1>6, <2>1
  <2>2. CASE i \in 1..Len(y.events) - 1
    <3>1. PICK j \in DOMAIN z.events : y.events[i].type = z.events[j].type
      BY <1>6, <2>2
    <3>2. QED
      BY <1>1, <1>3, <1>9, <3>1
  <2>3. QED
    BY <1>8, <2>1, <2>2
<1>10. Story(y)
  BY <1>6, <1>7, <1>9 DEF Story
<1>11. RowSound(y)
  BY <1>7, <1>10 DEF RowSound, LiveTasks
<1>12. QED
  BY <1>6, <1>7, <1>11 DEF y, z

LEMMA JoiningRow ==
  ASSUME NEW x \in RowType, RowSound(x), x.task \in LiveTasks, x.reported, NEW ending \in Settled
  PROVE  LET y == [x EXCEPT !.task = "joining", !.closing = ending]
         IN  /\ y \in RowType /\ RowSound(y)
             /\ y.status = x.status /\ y.outcome = x.outcome
             /\ y.task = "joining" /\ y.closing = ending
<1> DEFINE z == [x EXCEPT !.task = "joining"]
           y == [x EXCEPT !.task = "joining", !.closing = ending]
<1>1. /\ z \in RowType
      /\ z.status = x.status /\ z.outcome = x.outcome /\ z.task = "joining"
      /\ z.reported = x.reported /\ z.events = x.events
  BY DEF RowType, LiveTasks
<1>2. y = [z EXCEPT !.closing = ending]
  OBVIOUS
<1> HIDE DEF y, z
<1>3. /\ y \in RowType
      /\ y.status = x.status /\ y.outcome = x.outcome
      /\ y.task = "joining" /\ y.closing = ending
      /\ y.reported /\ y.events = x.events
  BY <1>1, <1>2 DEF RowType
<1>4. RowSound(y)
  BY <1>3 DEF RowSound, Story, LiveTasks
<1>5. QED
  BY <1>3, <1>4 DEF y

\* A cancelled run unwinds, or ends without a word when it was already being
\* joined.
LEMMA InterruptedRow ==
  ASSUME NEW x \in RowType, RowSound(x)
  PROVE  LET y == Interrupted(x)
         IN  /\ y \in RowType /\ RowSound(y)
             /\ y.status = x.status /\ y.outcome = x.outcome /\ y.task # "executing"
             /\ Succeeds(y) => Succeeds(x)
<1> DEFINE y == Interrupted(x)
<1>1. CASE x.task = "executing"
  <2>1. y = [x EXCEPT !.task = "unwinding"]
    BY <1>1 DEF Interrupted
  <2>2. /\ y \in RowType
        /\ y.status = x.status /\ y.outcome = x.outcome /\ y.task = "unwinding"
        /\ y.events = x.events /\ y.reported = x.reported /\ y.pending = x.pending
    BY <2>1 DEF RowType, LiveTasks
  <2> HIDE DEF y
  <2>3. RowSound(y) /\ (Succeeds(y) => Succeeds(x))
    BY <1>1, <2>2 DEF RowSound, Story, LiveTasks, Succeeds
  <2>4. QED
    BY <2>2, <2>3 DEF y
<1>2. CASE x.task = "joining"
  <2>1. y = [x EXCEPT !.task = "done", !.pending = 0]
    BY <1>2 DEF Interrupted
  <2>2. y = [status |-> x.status, task |-> "done", closing |-> x.closing,
             reported |-> x.reported, pending |-> 0, events |-> x.events,
             outcome |-> x.outcome]
    BY <2>1 DEF RowType
  <2> HIDE DEF y
  <2>3. /\ y \in RowType
        /\ y.status = x.status /\ y.outcome = x.outcome /\ y.task = "done"
        /\ y.events = x.events /\ y.pending = 0
    BY <2>2 DEF RowType, LiveTasks
  <2>4. RowSound(y) /\ (Succeeds(y) => Succeeds(x))
    BY <1>2, <2>3 DEF RowSound, Story, LiveTasks, Succeeds
  <2>5. QED
    BY <2>3, <2>4 DEF y
<1>3. CASE x.task \notin {"executing", "joining"}
  BY <1>3 DEF Interrupted
<1>4. QED
  BY <1>1, <1>2, <1>3

\* A judgement of its outcome is none of the run's own steps.
LEMMA OutcomeRow ==
  ASSUME NEW x \in RowType, RowSound(x), NEW o \in Outcomes
  PROVE  LET y == [x EXCEPT !.outcome = o]
         IN  /\ y \in RowType /\ RowSound(y)
             /\ y.status = x.status /\ y.task = x.task /\ y.closing = x.closing
<1> DEFINE y == [x EXCEPT !.outcome = o]
<1>1. /\ y \in RowType
      /\ y.status = x.status /\ y.task = x.task /\ y.closing = x.closing
      /\ y.reported = x.reported /\ y.pending = x.pending /\ y.events = x.events
  BY DEF RowType
<1> HIDE DEF y
<1>2. RowSound(y)
  BY <1>1 DEF RowSound, Story
<1>3. QED
  BY <1>1, <1>2 DEF y

-----------------------------------------------------------------------------
(* The steps on the conversation files.                                     *)

\* Runs that are started change nothing for those that have answered.
LEMMA ThreadKept ==
  ASSUME ThreadInv, UNCHANGED files, asked' \in [Runs -> Threads \cup {"none", "unused"}],
         \A r \in answered : asked'[r] = asked[r]
  PROVE  ThreadInv'
<1>1. TypesThreads'
  BY DEF ThreadInv, TypesThreads, files, IsThread
<1>2. CountInv'
  BY DEF ThreadInv, CountInv, files
<1>3. ThreadsBelong'
  <2>1. ASSUME NEW t \in DOMAIN thread
        PROVE  TurnsBelong(t, thread'[t].turns, answered', asked')
    <3>1. TurnsBelong(t, thread[t].turns, answered, asked)
      BY DEF ThreadInv, ThreadsBelong
    <3>2. thread' = thread /\ answered' = answered
      BY DEF files
    <3>3. QED
      BY <3>1, <3>2 DEF TurnsBelong
  <2>2. QED
    BY <2>1 DEF ThreadInv, ThreadsBelong, files
<1>4. QED
  BY <1>1, <1>2, <1>3 DEF ThreadInv

\* A missing file loads as one that counts nothing and holds nothing.
LEMMA StoredSound ==
  ASSUME ThreadInv, NEW t \in Threads
  PROVE  /\ IsThread(Stored(t)) /\ ThreadCounted(Stored(t), appended[t])
         /\ TurnsBelong(t, Stored(t).turns, answered, asked)
         /\ appended[t] \in Nat
<1>1. appended[t] \in Nat
  BY DEF ThreadInv, TypesThreads
<1>2. KeepRecent \in Nat /\ KeepRecent > 0
  BY ConversationLimits
<1>3. CASE t \in DOMAIN thread
  <2>1. Stored(t) = thread[t]
    BY <1>3 DEF Stored, Kept
  <2>2. IsThread(thread[t])
    BY <1>3 DEF ThreadInv, TypesThreads
  <2>3. ThreadCounted(thread[t], appended[t])
    BY <1>3 DEF ThreadInv, CountInv
  <2>4. TurnsBelong(t, thread[t].turns, answered, asked)
    BY <1>3 DEF ThreadInv, ThreadsBelong
  <2>5. QED
    BY <1>1, <2>1, <2>2, <2>3, <2>4
<1>4. CASE t \notin DOMAIN thread
  <2>1. Stored(t) = EmptyThread /\ appended[t] = 0
    BY <1>4 DEF Stored, Kept, ThreadInv, CountInv
  <2>2. /\ EmptyThread.turns = <<>> /\ EmptyThread.compressed = 0
        /\ EmptyThread = [turns |-> EmptyThread.turns, summary |-> EmptyThread.summary,
                          compressed |-> EmptyThread.compressed]
    BY DEF EmptyThread
  <2>3. IsThread(EmptyThread)
    BY <2>2 DEF IsThread
  <2>4. ThreadCounted(EmptyThread, 0)
    BY <1>2, <2>2 DEF ThreadCounted, TurnCount, Least
  <2>5. TurnsBelong(t, EmptyThread.turns, answered, asked)
    BY <2>2 DEF TurnsBelong
  <2>6. QED
    BY <1>1, <2>1, <2>3, <2>4, <2>5
<1>5. QED
  BY <1>3, <1>4

\* One file is written, or created, and the others stay.
LEMMA SaveKeeps ==
  ASSUME ThreadInv, NEW t \in Threads, NEW y, IsThread(y), Save(t, y),
         NEW n \in Nat, appended' = [appended EXCEPT ![t] = n], ThreadCounted(y, n),
         answered \subseteq answered', answered' \subseteq Runs,
         asked' \in [Runs -> Threads \cup {"none", "unused"}],
         \A r \in answered : asked'[r] = asked[r],
         \A r \in answered' : asked'[r] \in Threads,
         TurnsBelong(t, y.turns, answered', asked')
  PROVE  ThreadInv'
<1>1. /\ DOMAIN thread' = DOMAIN thread \cup {t}
      /\ thread'[t] = y
      /\ \A u \in DOMAIN thread : u # t => thread'[u] = thread[u]
  BY DEF Save
<1>2. /\ appended \in [Threads -> Nat] /\ DOMAIN thread \subseteq Threads
      /\ \A u \in DOMAIN thread : IsThread(thread[u])
  BY DEF ThreadInv, TypesThreads
<1>3. /\ appended' \in [Threads -> Nat] /\ appended'[t] = n
      /\ \A u \in Threads : u # t => appended'[u] = appended[u]
  BY <1>2
<1>4. TypesThreads'
  <2>1. \A u \in DOMAIN thread' : IsThread(thread'[u])
    BY <1>1, <1>2
  <2>2. QED
    BY <1>1, <1>2, <1>3, <2>1 DEF TypesThreads, IsThread
<1>5. CountInv'
  <2>1. ASSUME NEW u \in Threads
        PROVE  IF u \in DOMAIN thread' THEN ThreadCounted(thread'[u], appended'[u])
               ELSE appended'[u] = 0
    <3>1. CASE u = t
      BY <1>1, <1>3, <3>1
    <3>2. CASE u # t
      BY <1>1, <1>3, <3>2 DEF ThreadInv, CountInv
    <3>3. QED
      BY <3>1, <3>2
  <2>2. QED
    BY <2>1 DEF CountInv, ThreadCounted, TurnCount
<1>6. ThreadsBelong'
  <2>1. ASSUME NEW u \in DOMAIN thread, u # t
        PROVE  TurnsBelong(u, thread'[u].turns, answered', asked')
    <3>1. thread'[u] = thread[u] /\ TurnsBelong(u, thread[u].turns, answered, asked)
      BY <1>1, <2>1 DEF ThreadInv, ThreadsBelong
    <3>2. \A i \in DOMAIN thread[u].turns : thread[u].turns[i].role = "assistant" =>
             thread[u].turns[i].run \in answered /\ asked[thread[u].turns[i].run] = u
      BY <3>1 DEF TurnsBelong
    <3>3. QED
      BY <3>1, <3>2 DEF TurnsBelong
  <2>2. TurnsBelong(t, thread'[t].turns, answered', asked')
    BY <1>1 DEF TurnsBelong
  <2>3. \A u \in DOMAIN thread' : TurnsBelong(u, thread'[u].turns, answered', asked')
    BY <1>1, <2>1, <2>2
  <2>4. QED
    BY <2>3 DEF ThreadsBelong
<1>7. QED
  BY <1>4, <1>5, <1>6 DEF ThreadInv

\* A turn is appended to a conversation, with its file or without: an answer is
\* that of a run which had not answered.
LEMMA SaveTurnKeeps ==
  ASSUME ThreadInv, NEW t \in Threads, NEW turn \in Turn, SaveTurn(t, turn),
         answered \subseteq answered', answered' \subseteq Runs,
         asked' \in [Runs -> Threads \cup {"none", "unused"}],
         \A r \in answered : asked'[r] = asked[r],
         \A r \in answered' : asked'[r] \in Threads,
         turn.role = "assistant" =>
            turn.run \in answered' /\ turn.run \notin answered /\ asked'[turn.run] = t
  PROVE  ThreadInv'
<1> DEFINE x == Stored(t)
           y == AppendTurn(x, turn)
           n == appended[t] + 1
<1>1. /\ IsThread(x) /\ ThreadCounted(x, appended[t]) /\ TurnsBelong(t, x.turns, answered, asked)
      /\ appended[t] \in Nat
  BY StoredSound
<1>2. Save(t, y) /\ appended' = [appended EXCEPT ![t] = n] /\ n \in Nat
  BY <1>1 DEF SaveTurn
<1>3. KeepRecent \in Nat /\ KeepRecent > 0
  BY ConversationLimits
<1> HIDE DEF x
<1>4. IsThread(y) /\ TurnCount(y) = TurnCount(x) + 1
  BY <1>1, AppendTurnKeeps
<1>5. PICK k \in 0..Len(x.turns) :
         /\ Len(y.turns) = Len(x.turns) + 1 - k
         /\ \A i \in 1..Len(x.turns) - k : y.turns[i] = x.turns[i + k]
         /\ y.turns[Len(y.turns)] = turn
         /\ k = 0 \/ Len(y.turns) = KeepRecent
  BY <1>1, AppendTurnKeeps
<1> HIDE DEF y
<1>6. x.turns \in Seq(Turn) /\ y.turns \in Seq(Turn) /\ Len(x.turns) \in Nat /\ Len(y.turns) \in Nat
  BY <1>1, <1>4 DEF IsThread
<1>7. ThreadCounted(y, n)
  BY <1>1, <1>3, <1>4, <1>5, <1>6 DEF ThreadCounted, Least
<1>8. \A i \in DOMAIN x.turns : x.turns[i].role = "assistant" =>
         x.turns[i].run \in answered /\ asked[x.turns[i].run] = t
  BY <1>1 DEF TurnsBelong
<1>9. \A i, j \in DOMAIN x.turns :
         x.turns[i].role = "assistant" /\ x.turns[j].role = "assistant"
            /\ x.turns[i].run = x.turns[j].run => i = j
  BY <1>1 DEF TurnsBelong
<1>10. \A i \in DOMAIN y.turns :
          \/ i = Len(y.turns) /\ y.turns[i] = turn
          \/ i # Len(y.turns) /\ i + k \in DOMAIN x.turns /\ y.turns[i] = x.turns[i + k]
  <2>1. ASSUME NEW i \in DOMAIN y.turns, i # Len(y.turns)
        PROVE  i + k \in DOMAIN x.turns /\ y.turns[i] = x.turns[i + k]
    <3>1. i \in 1..Len(x.turns) - k
      BY <1>5, <1>6, <2>1
    <3>2. QED
      BY <1>5, <1>6, <3>1
  <2>2. QED
    BY <1>5, <2>1
<1>11. ASSUME NEW i \in DOMAIN y.turns, y.turns[i].role = "assistant"
       PROVE  y.turns[i].run \in answered' /\ asked'[y.turns[i].run] = t
  BY <1>8, <1>10, <1>11
<1>12. ASSUME NEW i \in DOMAIN y.turns, NEW j \in DOMAIN y.turns,
              y.turns[i].role = "assistant", y.turns[j].role = "assistant",
              y.turns[i].run = y.turns[j].run
       PROVE  i = j
  <2>1. CASE i = Len(y.turns) /\ j = Len(y.turns)
    BY <2>1
  <2>2. CASE i = Len(y.turns) /\ j # Len(y.turns)
    <3>1. j + k \in DOMAIN x.turns /\ y.turns[j] = x.turns[j + k]
      BY <1>10, <2>2
    <3>2. QED
      BY <1>5, <1>8, <1>12, <2>2, <3>1
  <2>3. CASE j = Len(y.turns) /\ i # Len(y.turns)
    <3>1. i + k \in DOMAIN x.turns /\ y.turns[i] = x.turns[i + k]
      BY <1>10, <2>3
    <3>2. QED
      BY <1>5, <1>8, <1>12, <2>3, <3>1
  <2>4. CASE i # Len(y.turns) /\ j # Len(y.turns)
    <3>1. /\ i + k \in DOMAIN x.turns /\ y.turns[i] = x.turns[i + k]
          /\ j + k \in DOMAIN x.turns /\ y.turns[j] = x.turns[j + k]
      BY <1>10, <2>4
    <3>2. i + k = j + k
      BY <1>9, <1>12, <3>1
    <3>3. i \in Int /\ j \in Int /\ k \in Int
      BY <1>6
    <3>4. QED
      BY <3>2, <3>3
  <2>5. QED
    BY <2>1, <2>2, <2>3, <2>4
<1>13. TurnsBelong(t, y.turns, answered', asked')
  BY <1>11, <1>12 DEF TurnsBelong
<1> HIDE DEF n
<1>14. QED
  BY <1>2, <1>4, <1>7, <1>13, SaveKeeps

-----------------------------------------------------------------------------
(* The steps of the registry and the file.                                  *)

\* A step that leaves the file, the keys and what the entries show.
LEMMA FileKept ==
  ASSUME SidecarInv, UNCHANGED <<up, order, history, asked>>, row' \in [Runs -> RowType],
         \A r \in Runs : row'[r].status = row[r].status /\ row'[r].outcome = row[r].outcome
  PROVE  TypesRuns' /\ KnownInv' /\ (up' => Current(history', order', row'))
<1>1. TypesRuns' /\ KnownInv'
  BY DEF SidecarInv, TypesRuns, KnownInv
<1>2. ASSUME up'
      PROVE  Current(history, order, row')
  <2>1. Current(history, order, row) /\ order \in Seq(Runs)
    BY <1>2 DEF SidecarInv, TypesRuns
  <2>2. QED
    BY <2>1, CurrentKept
<1>3. QED
  BY <1>1, <1>2

\* A step of one or more runs that the file does not show.
LEMMA QuietStep ==
  ASSUME SidecarInv, UNCHANGED <<up, order, history, asked, files>>,
         row' \in [Runs -> RowType],
         \A r \in Runs :
            /\ RowSound(row'[r])
            /\ row'[r].status = row[r].status /\ row'[r].outcome = row[r].outcome
            /\ row'[r].task = "executing" => row[r].task = "executing"
            /\ Succeeds(row'[r]) => Succeeds(row[r])
  PROVE  SidecarInv'
<1>1. TypesRuns' /\ KnownInv' /\ (up' => Current(history', order', row'))
  BY FileKept
<1>2. ThreadInv'
  <2>1. ThreadInv /\ asked \in [Runs -> Threads \cup {"none", "unused"}]
    BY DEF SidecarInv, ThreadInv, TypesThreads
  <2>2. QED
    BY <2>1, ThreadKept
<1>3. RowsInv'
  BY DEF RowsInv, RowSound, Story, Consecutive
<1>4. answered' = answered /\ asked' = asked /\ history' = history
  BY DEF files
<1>5. RowsAnswered'
  BY <1>4 DEF SidecarInv, RowsAnswered, Succeeds
<1>6. FileAnswered'
  BY <1>4 DEF SidecarInv, FileAnswered
<1>7. QED
  BY <1>1, <1>2, <1>3, <1>5, <1>6 DEF SidecarInv

\* A step that writes the file.
LEMMA WrittenStep ==
  ASSUME SidecarInv, asked' = asked, ThreadInv', RowsInv', RowsAnswered',
         row' \in [Runs -> RowType],
         order' \in Seq(Runs), \A i, j \in DOMAIN order' : order'[i] = order'[j] => i = j,
         \A i \in DOMAIN order' : asked[order'[i]] # "unused",
         Persist(order', row')
  PROVE  SidecarInv'
<1>1. history' = Recent(order', row')
  BY DEF Persist
<1>2. /\ history' \in Seq(EntryType)
      /\ Len(history') <= MaxHistory
      /\ \A i, j \in DOMAIN history' : history'[i].id = history'[j].id => i = j
      /\ Current(history', order', row')
  BY <1>1, RecentIsCurrent
<1>3. \A j \in DOMAIN history' :
         /\ \E i \in DOMAIN order' : order'[i] = history'[j].id
         /\ history'[j] = Entry(history'[j].id, row')
  BY <1>2 DEF Current
<1>4. TypesRuns'
  BY <1>2 DEF TypesRuns
<1>5. KnownInv'
  BY <1>2, <1>3 DEF KnownInv
<1>6. FileAnswered'
  <2>1. ASSUME NEW j \in DOMAIN history', KindOf[history'[j].id] = "agent",
               history'[j].status = "succeeded"
        PROVE  history'[j].id \in answered'
    <3>1. row'[history'[j].id].status = "succeeded" /\ history'[j].id \in Runs
      BY <1>3, <2>1 DEF Entry
    <3>2. QED
      BY <2>1, <3>1 DEF RowsAnswered, Succeeds
  <2>2. QED
    BY <2>1 DEF FileAnswered
<1>7. (up => Current(history, order, row))'
  BY <1>2 DEF Current
<1>8. QED
  BY <1>4, <1>5, <1>6, <1>7 DEF SidecarInv

\* The rows of a step that changes one of them.
LEMMA OneRow ==
  ASSUME SidecarInv, NEW r \in Runs, NEW x \in RowType, RowSound(x), row' = [row EXCEPT ![r] = x],
         asked' = asked, answered \subseteq answered', answered' \subseteq answered \cup {r},
         x.task # "executing",
         KindOf[r] = "agent" /\ Succeeds(x) => r \in answered'
  PROVE  row' \in [Runs -> RowType] /\ RowsInv' /\ RowsAnswered'
<1>1. /\ row \in [Runs -> RowType] /\ row' \in [Runs -> RowType] /\ row'[r] = x
      /\ \A q \in Runs : q # r => row'[q] = row[q]
  BY DEF SidecarInv, TypesRuns
<1>2. RowsInv'
  <2>1. \A q \in Runs : RowSound(row'[q])
    BY <1>1 DEF SidecarInv, RowsInv
  <2>2. QED
    BY <2>1 DEF RowsInv, RowSound, Story, Consecutive
<1>3. ASSUME NEW q \in Runs
      PROVE  /\ row'[q].task = "executing" =>
                  q \notin answered' /\ (KindOf[q] = "agent" => asked'[q] \in Threads)
             /\ KindOf[q] = "agent" /\ Succeeds(row'[q]) => q \in answered'
  <2>1. CASE q = r
    BY <1>1, <2>1
  <2>2. CASE q # r
    BY <1>1, <2>2 DEF SidecarInv, RowsAnswered
  <2>3. QED
    BY <2>1, <2>2
<1>4. RowsAnswered'
  BY <1>3 DEF RowsAnswered, Succeeds
<1>5. QED
  BY <1>1, <1>2, <1>4

\* The end of a run: nothing is left to emit, and the file is written.
LEMMA FinishStep ==
  ASSUME SidecarInv, NEW r \in Runs, NEW ending \in Settled, Finish(r, ending),
         row[r].task \in LiveTasks, row[r].pending = 0,
         order' = order, asked' = asked, ThreadInv',
         answered \subseteq answered', answered' \subseteq answered \cup {r},
         KindOf[r] = "agent" /\ ending = "succeeded" => r \in answered'
  PROVE  SidecarInv'
<1> DEFINE x == Emit([row[r] EXCEPT !.status = ending, !.task = "done", !.closing = "none"], ending)
<1>1. row[r] \in RowType /\ RowSound(row[r])
  BY DEF SidecarInv, TypesRuns, RowsInv
<1>2. x \in RowType /\ RowSound(x) /\ x.status = ending /\ x.task = "done"
  BY <1>1, FinishRow
<1>3. row' = [row EXCEPT ![r] = x] /\ Persist(order, row')
  BY DEF Finish
<1> HIDE DEF x
<1>4. x.task # "executing" /\ (KindOf[r] = "agent" /\ Succeeds(x) => r \in answered')
  BY <1>2 DEF Succeeds
<1>5. row' \in [Runs -> RowType] /\ RowsInv' /\ RowsAnswered'
  BY <1>2, <1>3, <1>4, OneRow
<1>6. /\ order' \in Seq(Runs) /\ \A i, j \in DOMAIN order' : order'[i] = order'[j] => i = j
      /\ \A i \in DOMAIN order' : asked[order'[i]] # "unused"
  BY DEF SidecarInv, TypesRuns, KnownInv
<1>7. Persist(order', row')
  BY <1>3 DEF Persist
<1>8. QED
  BY <1>5, <1>6, <1>7, WrittenStep

\* execute is over: the run ends, or waits for its reports with its ending in
\* hand.
LEMMA SettleStep ==
  ASSUME SidecarInv, NEW r \in Runs, NEW ending \in Settled, Settle(r, ending),
         row[r].task \in {"executing", "unwinding"},
         UNCHANGED <<up, order, asked>>, ThreadInv',
         answered \subseteq answered', answered' \subseteq answered \cup {r},
         KindOf[r] = "agent" /\ ending = "succeeded" => r \in answered'
  PROVE  SidecarInv'
<1>1. row[r] \in RowType /\ RowSound(row[r]) /\ row \in [Runs -> RowType]
  BY DEF SidecarInv, TypesRuns, RowsInv
<1>2. row[r].task \in LiveTasks /\ row[r].status = "running"
  BY <1>1 DEF RowSound, LiveTasks
<1>3. CASE ~row[r].reported
  <2>1. row[r].pending = 0
    BY <1>1, <1>3 DEF RowSound, RowType
  <2>2. Finish(r, ending)
    BY <1>3 DEF Settle
  <2>3. QED
    BY <1>2, <2>1, <2>2, FinishStep
<1>4. CASE row[r].reported
  <2> DEFINE x == [row[r] EXCEPT !.task = "joining", !.closing = ending]
  <2>1. row' = [row EXCEPT ![r] = x] /\ history' = history
    BY <1>1, <1>4 DEF Settle
  <2>2. /\ x \in RowType /\ RowSound(x)
        /\ x.status = row[r].status /\ x.outcome = row[r].outcome
        /\ x.task = "joining" /\ x.closing = ending
    BY <1>1, <1>2, <1>4, JoiningRow
  <2> HIDE DEF x
  <2>3. KindOf[r] = "agent" /\ Succeeds(x) => r \in answered'
    BY <1>2, <2>2 DEF Succeeds
  <2>4. row' \in [Runs -> RowType] /\ RowsInv' /\ RowsAnswered'
    BY <2>1, <2>2, <2>3, OneRow
  <2>5. \A q \in Runs : row'[q].status = row[q].status /\ row'[q].outcome = row[q].outcome
    BY <1>1, <2>1, <2>2
  <2>6. TypesRuns' /\ KnownInv' /\ (up' => Current(history', order', row'))
    BY <2>1, <2>4, <2>5, FileKept
  <2>7. FileAnswered'
    BY <2>1 DEF SidecarInv, FileAnswered
  <2>8. QED
    BY <2>4, <2>6, <2>7 DEF SidecarInv
<1>5. QED
  BY <1>3, <1>4

\* A run is started under an id that nothing knows yet.
LEMMA StartStep ==
  ASSUME SidecarInv, NEW r \in Runs, NEW t \in Threads \cup {"none"}, StartRow(r, t),
         KindOf[r] = "agent" => t \in Threads,
         UNCHANGED <<up, history, answered>>, ThreadInv'
  PROVE  SidecarInv'
<1>1. /\ row \in [Runs -> RowType] /\ order \in Seq(Runs) /\ history \in Seq(EntryType)
      /\ asked \in [Runs -> Threads \cup {"none", "unused"}]
      /\ Len(order) \in Nat
  BY DEF SidecarInv, TypesRuns, ThreadInv, TypesThreads
<1>2. /\ asked[r] = "unused" /\ asked' = [asked EXCEPT ![r] = t]
      /\ order' = Append(order, r) /\ row' = [row EXCEPT ![r] = NewRow]
  BY DEF StartRow
<1>3. t # "unused" /\ r \notin answered
  BY <1>2, SidecarAssumption DEF SidecarInv, ThreadInv, ThreadsBelong
<1>4. \A q \in Runs : q # r => asked'[q] = asked[q] /\ row'[q] = row[q]
  BY <1>1, <1>2
<1>5. asked'[r] = t /\ row'[r] = NewRow
  BY <1>1, <1>2
<1>6. /\ NewRow \in RowType /\ RowSound(NewRow)
      /\ NewRow.task = "executing" /\ ~Succeeds(NewRow)
  <2>1. NewRow.events = <<FirstEvent>> /\ FirstEvent \in Event /\ FirstEvent.type = "started"
    BY DEF NewRow, FirstEvent, Event
  <2>2. /\ <<FirstEvent>> \in Seq(Event) /\ <<FirstEvent>> # <<>> /\ Len(<<FirstEvent>>) = 1
        /\ DOMAIN <<FirstEvent>> = 1..1 /\ <<FirstEvent>>[1] = FirstEvent
    BY <2>1
  <2>3. NewRow \in RowType
    BY <2>2 DEF NewRow, RowType, LiveTasks, Outcomes
  <2>4. /\ NewRow.status = "running" /\ NewRow.task = "executing" /\ NewRow.pending = 0
        /\ NewRow.closing = "none"
    BY DEF NewRow
  <2>5. Story(NewRow)
    BY <2>1, <2>2, <2>4 DEF Story, Consecutive, Settled
  <2>6. QED
    BY <2>3, <2>4, <2>5 DEF RowSound, LiveTasks, Succeeds
<1>7. row' \in [Runs -> RowType]
  BY <1>1, <1>2, <1>6
<1>8. RowsInv'
  <2>1. \A q \in Runs : RowSound(row'[q])
    BY <1>4, <1>5, <1>6 DEF SidecarInv, RowsInv
  <2>2. QED
    BY <2>1 DEF RowsInv, RowSound, Story, Consecutive
<1>9. RowsAnswered'
  <2>1. ASSUME NEW q \in Runs
        PROVE  /\ row'[q].task = "executing" =>
                    q \notin answered /\ (KindOf[q] = "agent" => asked'[q] \in Threads)
               /\ KindOf[q] = "agent" /\ Succeeds(row'[q]) => q \in answered
    <3>1. CASE q = r
      BY <1>3, <1>5, <1>6, <3>1
    <3>2. CASE q # r
      BY <1>4, <3>2 DEF SidecarInv, RowsAnswered
    <3>3. QED
      BY <3>1, <3>2
  <2>2. QED
    BY <2>1 DEF RowsAnswered, Succeeds
<1>10. FileAnswered'
  BY DEF SidecarInv, FileAnswered
<1>11. /\ \A i \in DOMAIN order : order[i] \in Runs /\ order[i] # r /\ asked[order[i]] # "unused"
       /\ \A i, j \in DOMAIN order : order[i] = order[j] => i = j
       /\ \A i \in DOMAIN history : history[i].id \in Runs /\ history[i].id # r
                                    /\ asked[history[i].id] # "unused"
  <2>1. /\ \A i \in DOMAIN order : asked[order[i]] # "unused"
        /\ \A i, j \in DOMAIN order : order[i] = order[j] => i = j
        /\ \A i \in DOMAIN history : asked[history[i].id] # "unused"
    BY DEF SidecarInv, KnownInv
  <2>2. \A i \in DOMAIN order : order[i] \in Runs
    BY <1>1
  <2>3. \A i \in DOMAIN history : history[i] \in EntryType
    BY <1>1
  <2>4. \A i \in DOMAIN history : history[i].id \in Runs
    BY <2>3 DEF EntryType
  <2>5. QED
    BY <1>2, <2>1, <2>2, <2>4
<1>12. /\ order' \in Seq(Runs) /\ DOMAIN order' = 1..Len(order) + 1
       /\ order'[Len(order) + 1] = r /\ \A i \in 1..Len(order) : order'[i] = order[i]
  BY <1>1, <1>2
<1>13. KnownInv'
  <2>1. \A i \in DOMAIN order' : asked'[order'[i]] # "unused"
    <3>1. ASSUME NEW i \in 1..Len(order)
          PROVE  asked'[order'[i]] # "unused"
      BY <1>1, <1>4, <1>11, <1>12
    <3>2. asked'[order'[Len(order) + 1]] # "unused"
      BY <1>3, <1>5, <1>12
    <3>3. QED
      BY <1>1, <1>12, <3>1, <3>2
  <2>2. \A i, j \in DOMAIN order' : order'[i] = order'[j] => i = j
    <3>1. ASSUME NEW i \in DOMAIN order', NEW j \in DOMAIN order', order'[i] = order'[j]
          PROVE  i = j
      <4>1. CASE i \in 1..Len(order) /\ j \in 1..Len(order)
        BY <1>1, <1>11, <1>12, <3>1, <4>1
      <4>2. CASE i = Len(order) + 1 \/ j = Len(order) + 1
        BY <1>1, <1>11, <1>12, <3>1, <4>2
      <4>3. QED
        BY <1>1, <1>12, <4>1, <4>2
    <3>2. QED
      BY <3>1
  <2>3. \A i \in DOMAIN history' : asked'[history'[i].id] # "unused"
    BY <1>4, <1>11
  <2>4. QED
    BY <2>1, <2>2, <2>3 DEF SidecarInv, KnownInv
<1>14. ASSUME up'
       PROVE  Current(history', order', row')
  <2>1. Current(history, order, row)
    BY <1>14 DEF SidecarInv
  <2>2. Current(history, Append(order, r), [row EXCEPT ![r] = NewRow])
    BY <1>1, <1>11, <2>1, CurrentStarted
  <2>3. QED
    BY <1>2, <2>2
<1>15. TypesRuns'
  BY <1>1, <1>7, <1>12 DEF TypesRuns
<1>16. QED
  BY <1>8, <1>9, <1>10, <1>13, <1>14, <1>15 DEF SidecarInv

\* What the steps below start from.
LEMMA InvFacts ==
  ASSUME SidecarInv
  PROVE  /\ row \in [Runs -> RowType] /\ order \in Seq(Runs) /\ history \in Seq(EntryType)
         /\ asked \in [Runs -> Threads \cup {"none", "unused"}]
         /\ answered \subseteq Runs /\ \A r \in answered : asked[r] \in Threads
         /\ \A r \in Runs : row[r] \in RowType /\ RowSound(row[r])
         /\ \A i, j \in DOMAIN order : order[i] = order[j] => i = j
         /\ \A i \in DOMAIN order : asked[order[i]] # "unused"
         /\ ThreadInv
  BY DEF SidecarInv, TypesRuns, ThreadInv, TypesThreads, ThreadsBelong, RowsInv, KnownInv

\* The drive task of one run.
LEMMA RunStepInv ==
  ASSUME SidecarInv, NEW r \in Runs, RunStep(r)
  PROVE  SidecarInv'
<1>1. row[r] \in RowType /\ RowSound(row[r]) /\ row \in [Runs -> RowType]
  BY InvFacts
<1>2. {"succeeded", "failed", "cancelled"} = Settled
  BY DEF Settled
<1>3. ASSUME files' = files, asked' = asked
      PROVE  ThreadInv' /\ answered' = answered
  <2>1. UNCHANGED files /\ answered' = answered /\ asked' = asked
    BY <1>3 DEF files
  <2>2. QED
    BY <2>1, InvFacts, ThreadKept
<1>4. CASE Report(r)
  <2> DEFINE x == [row[r] EXCEPT !.reported = TRUE, !.pending = @ + 1]
  <2>1. /\ row' = [row EXCEPT ![r].reported = TRUE, ![r].pending = @ + 1]
        /\ row[r].task = "executing"
        /\ UNCHANGED <<up, order, history, asked, files>>
    BY <1>4 DEF Report, files
  <2>2. row' = [row EXCEPT ![r] = x]
    BY <1>1, <2>1
  <2>3. /\ x \in RowType /\ RowSound(x)
        /\ x.status = row[r].status /\ x.task = row[r].task /\ x.closing = row[r].closing
        /\ x.outcome = row[r].outcome
    BY <1>1, <2>1, ReportRow
  <2> HIDE DEF x
  <2>4. QED
    BY <1>1, <2>1, <2>2, <2>3, InvFacts, QuietStep DEF Succeeds
<1>5. CASE EmitReport(r)
  <2> DEFINE x == Emit([row[r] EXCEPT !.pending = @ - 1], "progress")
  <2>1. /\ row' = [row EXCEPT ![r] = x] /\ row[r].pending > 0
        /\ UNCHANGED <<up, order, history, asked, files>>
    BY <1>5 DEF EmitReport, files
  <2>2. /\ x \in RowType /\ RowSound(x)
        /\ x.status = row[r].status /\ x.task = row[r].task /\ x.closing = row[r].closing
        /\ x.outcome = row[r].outcome
    BY <1>1, <2>1, EmitRow
  <2> HIDE DEF x
  <2>3. QED
    BY <1>1, <2>1, <2>2, InvFacts, QuietStep DEF Succeeds
<1>6. CASE ReturnReport(r)
  <2>1. /\ row[r].task = "executing" /\ KindOf[r] # "agent" /\ Settle(r, "succeeded")
        /\ UNCHANGED <<up, order, asked>> /\ files' = files
    BY <1>6 DEF ReturnReport, files
  <2>2. QED
    BY <1>2, <1>3, <2>1, SettleStep
<1>7. ASSUME NEW size \in Sizes, ReturnAnswer(r, size)
      PROVE  SidecarInv'
  <2> DEFINE t == asked[r]
             turn == [role |-> "assistant", run |-> r, size |-> size]
  <2>1. /\ row[r].task = "executing" /\ KindOf[r] = "agent"
        /\ UNCHANGED <<up, order, asked>>
    BY <1>7 DEF ReturnAnswer
  <2>2. t \in Threads /\ r \notin answered
    BY <2>1 DEF SidecarInv, RowsAnswered
  <2>3. CASE Readable(Stored(t))
    <3>1. SaveTurn(t, turn) /\ answered' = answered \cup {r} /\ Settle(r, "succeeded")
      BY <1>7, <2>3 DEF ReturnAnswer
    <3>2. turn \in Turn
      BY SidecarAssumption DEF Turn
    <3>3. /\ turn.role = "assistant" => turn.run \in answered' /\ turn.run \notin answered
                                        /\ asked'[turn.run] = t
          /\ \A q \in answered' : asked'[q] \in Threads
          /\ asked' \in [Runs -> Threads \cup {"none", "unused"}]
          /\ answered' \subseteq Runs /\ answered \subseteq answered'
          /\ \A q \in answered : asked'[q] = asked[q]
      BY <2>1, <2>2, <3>1, InvFacts
    <3> HIDE DEF turn
    <3>4. ThreadInv'
      BY <2>2, <3>1, <3>2, <3>3, InvFacts, SaveTurnKeeps
    <3>5. QED
      BY <1>2, <2>1, <3>1, <3>4, SettleStep
  <2>4. CASE ~Readable(Stored(t))
    <3>1. Settle(r, "failed") /\ files' = files
      BY <1>7, <2>4 DEF ReturnAnswer
    <3>2. QED
      BY <1>2, <1>3, <2>1, <3>1, SettleStep
  <2>5. QED
    BY <2>3, <2>4
<1>8. CASE Raise(r)
  <2>1. /\ row[r].task = "executing" /\ Settle(r, "failed")
        /\ UNCHANGED <<up, order, asked>> /\ files' = files
    BY <1>8 DEF Raise, files
  <2>2. QED
    BY <1>2, <1>3, <2>1, SettleStep
<1>9. ASSUME NEW ending \in {"cancelled", "failed"}, Unwound(r, ending)
      PROVE  SidecarInv'
  <2>1. /\ row[r].task = "unwinding" /\ Settle(r, ending)
        /\ UNCHANGED <<up, order, asked>> /\ files' = files
    BY <1>9 DEF Unwound, files
  <2>2. ending \in Settled /\ ending # "succeeded"
    BY <1>2
  <2>3. QED
    BY <1>3, <2>1, <2>2, SettleStep
<1>10. CASE Joined(r)
  <2>1. /\ row[r].task = "joining" /\ row[r].pending = 0 /\ Finish(r, row[r].closing)
        /\ UNCHANGED <<up, order, asked>> /\ files' = files
    BY <1>10 DEF Joined, files
  <2>2. row[r].closing \in Settled /\ row[r].task \in LiveTasks
    BY <1>1, <2>1 DEF RowSound, LiveTasks
  <2>3. KindOf[r] = "agent" /\ row[r].closing = "succeeded" => r \in answered
    BY <2>1 DEF SidecarInv, RowsAnswered, Succeeds
  <2>4. QED
    BY <1>3, <2>1, <2>2, <2>3, FinishStep
<1>11. QED
  BY <1>4, <1>5, <1>6, <1>7, <1>8, <1>9, <1>10 DEF RunStep

\* A conversation is created, deleted, or given a turn of its user.
LEMMA UserTurnKeeps ==
  ASSUME SidecarInv, NEW t \in Threads, NEW size \in Sizes, UserTurn(t, size),
         UNCHANGED answered, asked' \in [Runs -> Threads \cup {"none", "unused"}],
         \A r \in answered : asked'[r] = asked[r]
  PROVE  ThreadInv'
<1> DEFINE turn == [role |-> "user", run |-> "none", size |-> size]
<1>1. SaveTurn(t, turn)
  BY DEF UserTurn
<1>2. turn \in Turn /\ turn.role # "assistant"
  BY SidecarAssumption DEF Turn
<1> HIDE DEF turn
<1>3. QED
  BY <1>1, <1>2, InvFacts, SaveTurnKeeps

LEMMA ThreadStepInv ==
  ASSUME SidecarInv, NEW t \in Threads, CreateThread(t) \/ DeleteThread(t)
  PROVE  SidecarInv'
<1>1. /\ UNCHANGED <<up, order, row, history, asked, answered>>
      /\ asked \in [Runs -> Threads \cup {"none", "unused"}] /\ answered \subseteq Runs
      /\ \A r \in answered : asked[r] \in Threads
      /\ ThreadInv /\ appended \in [Threads -> Nat]
  BY InvFacts DEF CreateThread, DeleteThread, ThreadInv, TypesThreads
<1>2. ASSUME CreateThread(t)
      PROVE  ThreadInv'
  <2>1. /\ Save(t, EmptyThread) /\ t \notin DOMAIN thread /\ appended[t] = 0
        /\ appended' = appended
    BY <1>2 DEF CreateThread, Kept
  <2>2. Stored(t) = EmptyThread
    BY <2>1 DEF Stored, Kept
  <2>3. /\ IsThread(EmptyThread) /\ ThreadCounted(EmptyThread, 0)
        /\ TurnsBelong(t, EmptyThread.turns, answered, asked)
    BY <1>1, <2>1, <2>2, StoredSound
  <2>4. appended' = [appended EXCEPT ![t] = 0]
    BY <1>1, <2>1
  <2>5. QED
    BY <1>1, <2>1, <2>3, <2>4, SaveKeeps
<1>3. ASSUME DeleteThread(t)
      PROVE  ThreadInv'
  <2>1. /\ DOMAIN thread' = DOMAIN thread \ {t}
        /\ \A u \in DOMAIN thread \ {t} : thread'[u] = thread[u]
        /\ appended' = [appended EXCEPT ![t] = 0]
    BY <1>3 DEF DeleteThread
  <2>2. appended' \in [Threads -> Nat] /\ appended'[t] = 0
        /\ \A u \in Threads : u # t => appended'[u] = appended[u]
    BY <1>1, <2>1
  <2>3. TypesThreads'
    BY <1>1, <2>1, <2>2 DEF ThreadInv, TypesThreads, IsThread
  <2>4. CountInv'
    <3>1. ASSUME NEW u \in Threads
          PROVE  IF u \in DOMAIN thread' THEN ThreadCounted(thread'[u], appended'[u])
                 ELSE appended'[u] = 0
      <4>1. CASE u = t
        BY <2>1, <2>2, <4>1
      <4>2. CASE u # t
        BY <1>1, <2>1, <2>2, <4>2 DEF ThreadInv, CountInv
      <4>3. QED
        BY <4>1, <4>2
    <3>2. QED
      BY <3>1 DEF CountInv, ThreadCounted, TurnCount
  <2>5. ThreadsBelong'
    <3>1. \A u \in DOMAIN thread' : TurnsBelong(u, thread'[u].turns, answered', asked')
      BY <1>1, <2>1 DEF ThreadInv, ThreadsBelong
    <3>2. QED
      BY <1>1, <3>1 DEF ThreadsBelong
  <2>6. QED
    BY <2>3, <2>4, <2>5 DEF ThreadInv
<1>4. ThreadInv'
  BY <1>2, <1>3
<1>5. TypesRuns' /\ KnownInv' /\ RowsInv'
  BY <1>1 DEF SidecarInv, TypesRuns, KnownInv, RowsInv, RowSound, Story, Consecutive
<1>6. RowsAnswered' /\ FileAnswered'
  BY <1>1 DEF SidecarInv, RowsAnswered, FileAnswered, Succeeds
<1>7. (up => Current(history, order, row))'
  BY <1>1 DEF SidecarInv
<1>8. QED
  BY <1>4, <1>5, <1>6, <1>7 DEF SidecarInv

\* A request that starts a run, or adds the user's turn and is refused.
LEMMA StartReportInv ==
  ASSUME SidecarInv, NEW r \in Runs, StartReport(r)
  PROVE  SidecarInv'
<1>1. /\ StartRow(r, "none") /\ KindOf[r] # "agent"
      /\ UNCHANGED <<up, history, answered>> /\ UNCHANGED files
  BY DEF StartReport, files
<1>2. /\ asked' = [asked EXCEPT ![r] = "none"] /\ asked[r] = "unused"
  BY <1>1 DEF StartRow
<1>3. /\ asked' \in [Runs -> Threads \cup {"none", "unused"}]
      /\ \A q \in answered : asked'[q] = asked[q]
  BY <1>2, InvFacts, SidecarAssumption
<1>4. ThreadInv'
  BY <1>1, <1>3, InvFacts, ThreadKept
<1>5. QED
  BY <1>1, <1>4, StartStep

LEMMA StartAgentInv ==
  ASSUME SidecarInv, NEW r \in Runs, NEW t \in Threads, NEW size \in Sizes,
         StartAgent(r, t, size)
  PROVE  SidecarInv'
<1>1. /\ StartRow(r, t) /\ UserTurn(t, size)
      /\ UNCHANGED <<up, history, answered>>
  BY DEF StartAgent
<1>2. /\ asked' = [asked EXCEPT ![r] = t] /\ asked[r] = "unused"
  BY <1>1 DEF StartRow
<1>3. /\ asked' \in [Runs -> Threads \cup {"none", "unused"}]
      /\ \A q \in answered : asked'[q] = asked[q]
  BY <1>2, InvFacts, SidecarAssumption
<1>4. ThreadInv'
  BY <1>1, <1>3, UserTurnKeeps
<1>5. QED
  BY <1>1, <1>4, StartStep

LEMMA StartRefusedInv ==
  ASSUME SidecarInv, NEW t \in Threads, NEW size \in Sizes, StartAgentRefused(t, size)
  PROVE  SidecarInv'
<1>1. /\ UserTurn(t, size)
      /\ UNCHANGED <<up, order, row, history, asked, answered>>
  BY DEF StartAgentRefused
<1>2. ThreadInv'
  BY <1>1, InvFacts, UserTurnKeeps
<1>3. TypesRuns' /\ KnownInv' /\ RowsInv'
  BY <1>1 DEF SidecarInv, TypesRuns, KnownInv, RowsInv, RowSound, Story, Consecutive
<1>4. RowsAnswered' /\ FileAnswered'
  BY <1>1 DEF SidecarInv, RowsAnswered, FileAnswered, Succeeds
<1>5. (up => Current(history, order, row))'
  BY <1>1 DEF SidecarInv
<1>6. QED
  BY <1>2, <1>3, <1>4, <1>5 DEF SidecarInv

\* A cancel and a shutdown interrupt runs.
LEMMA InterruptInv ==
  ASSUME SidecarInv, Shutdown \/ \E r \in Runs : CancelRun(r)
  PROVE  SidecarInv'
<1>1. UNCHANGED <<up, order, history, asked, files>>
  BY DEF Shutdown, CancelRun, files
<1>2. \A r \in Runs : row'[r] = row[r] \/ row'[r] = Interrupted(row[r])
  <2>1. ASSUME NEW q \in Runs, CancelRun(q)
        PROVE  \A r \in Runs : row'[r] = row[r] \/ row'[r] = Interrupted(row[r])
    BY <2>1, InvFacts DEF CancelRun
  <2>2. CASE Shutdown
    BY <2>2 DEF Shutdown
  <2>3. QED
    BY <2>1, <2>2
<1>3. row' = [r \in Runs |-> row'[r]]
  <2>1. ASSUME NEW q \in Runs, CancelRun(q)
        PROVE  row' = [r \in Runs |-> row'[r]]
    <3>1. row' = [row EXCEPT ![q] = Interrupted(row[q])] /\ row \in [Runs -> RowType]
      BY <2>1, InvFacts DEF CancelRun
    <3>2. QED
      BY <3>1
  <2>2. CASE Shutdown
    BY <2>2 DEF Shutdown
  <2>3. QED
    BY <2>1, <2>2
<1>4. ASSUME NEW r \in Runs
      PROVE  /\ row'[r] \in RowType /\ RowSound(row'[r])
             /\ row'[r].status = row[r].status /\ row'[r].outcome = row[r].outcome
             /\ row'[r].task = "executing" => row[r].task = "executing"
             /\ Succeeds(row'[r]) => Succeeds(row[r])
  <2>1. row[r] \in RowType /\ RowSound(row[r])
    BY InvFacts
  <2>2. QED
    BY <1>2, <2>1, InterruptedRow
<1>5. row' \in [Runs -> RowType]
  BY <1>3, <1>4
<1>6. QED
  BY <1>1, <1>4, <1>5, QuietStep

\* A run is deleted, from the registry and from the file.
LEMMA DeleteInv ==
  ASSUME SidecarInv, NEW r \in Runs, DeleteRun(r)
  PROVE  SidecarInv'
<1>1. /\ order' = OnlyIn(order, Runs \ {r}) /\ Persist(order', row)
      /\ UNCHANGED <<up, row, asked, answered>> /\ UNCHANGED files
  BY DEF DeleteRun, files
<1>2. /\ order' \in Seq(Runs)
      /\ \A j \in DOMAIN order' : \E i \in DOMAIN order : order[i] = order'[j]
      /\ \A i, j \in DOMAIN order' : order'[i] = order'[j] => i = j
  <2>1. order \in Seq(Runs) /\ \A i, j \in DOMAIN order : order[i] = order[j] => i = j
    BY InvFacts
  <2> DEFINE left == OnlyIn(order, Runs \ {r})
  <2>2. /\ left \in Seq(Runs)
        /\ \A j \in DOMAIN left : \E i \in DOMAIN order : order[i] = left[j]
        /\ \A i, j \in DOMAIN left : left[i] = left[j] => i = j
    <3>1. left \in Seq(Runs)
      BY <2>1, OnlyInKeeps
    <3>2. \A j \in DOMAIN left :
             \E i \in DOMAIN order : order[i] = left[j] /\ order[i] \in Runs \ {r}
      BY <2>1, OnlyInKeeps
    <3>3. \A i, j \in DOMAIN left : left[i] = left[j] => i = j
      BY <2>1, OnlyInKeeps
    <3> HIDE DEF left
    <3>4. QED
      BY <3>1, <3>2, <3>3
  <2> HIDE DEF left
  <2>3. order' = left
    BY <1>1 DEF left
  <2>4. QED
    BY <2>2, <2>3
<1>3. \A i \in DOMAIN order' : asked[order'[i]] # "unused"
  BY <1>2, InvFacts
<1>4. ThreadInv'
  BY <1>1, InvFacts, ThreadKept
<1>5. RowsInv' /\ RowsAnswered'
  BY <1>1 DEF SidecarInv, RowsInv, RowSound, Story, Consecutive, RowsAnswered, Succeeds
<1>6. Persist(order', row')
  BY <1>1 DEF Persist
<1>7. QED
  BY <1>1, <1>2, <1>3, <1>4, <1>5, <1>6, InvFacts, WrittenStep

\* Outcomes are given to completed research, and the file follows.
LEMMA OutcomesInv ==
  ASSUME SidecarInv, UNCHANGED <<up, order, asked, files>>,
         row' = [r \in Runs |-> row'[r]],
         \A r \in Runs : \E o \in Outcomes : row'[r] = [row[r] EXCEPT !.outcome = o],
         Persist(order, row') \/ (row' = row /\ history' = history)
  PROVE  SidecarInv'
<1>1. ASSUME NEW r \in Runs
      PROVE  /\ row'[r] \in RowType /\ RowSound(row'[r])
             /\ row'[r].status = row[r].status /\ row'[r].task = row[r].task
             /\ row'[r].closing = row[r].closing
  <2>1. row[r] \in RowType /\ RowSound(row[r])
    BY InvFacts
  <2>2. PICK o \in Outcomes : row'[r] = [row[r] EXCEPT !.outcome = o]
    OBVIOUS
  <2>3. QED
    BY <2>1, <2>2, OutcomeRow
<1>2. row' \in [Runs -> RowType]
  BY <1>1
<1>3. RowsInv'
  BY <1>1 DEF RowsInv, RowSound, Story, Consecutive
<1>4. answered' = answered /\ asked' = asked
  BY DEF files
<1>5. RowsAnswered'
  BY <1>1, <1>4 DEF SidecarInv, RowsAnswered, Succeeds
<1>6. ThreadInv'
  BY InvFacts, ThreadKept
<1>7. CASE Persist(order, row')
  <2>1. /\ Persist(order', row') /\ order' \in Seq(Runs)
        /\ \A i, j \in DOMAIN order' : order'[i] = order'[j] => i = j
        /\ \A i \in DOMAIN order' : asked[order'[i]] # "unused"
    BY <1>7, InvFacts DEF Persist
  <2>2. QED
    BY <1>2, <1>3, <1>4, <1>5, <1>6, <2>1, WrittenStep
<1>8. CASE row' = row /\ history' = history
  BY <1>1, <1>2, <1>8, QuietStep DEF Succeeds
<1>9. QED
  BY <1>7, <1>8

LEMMA ResearchInv ==
  ASSUME SidecarInv,
         \/ \E demo \in SUBSET Completed, refresh \in BOOLEAN : ResearchHistory(demo, refresh)
         \/ RefreshStep
  PROVE  SidecarInv'
<1>1. /\ row \in [Runs -> RowType]
      /\ \A r \in Runs : /\ row[r].outcome \in Outcomes
                         /\ row[r] = [row[r] EXCEPT !.outcome = row[r].outcome]
  <2>1. row \in [Runs -> RowType]
    BY InvFacts
  <2>2. ASSUME NEW r \in Runs
        PROVE  row[r].outcome \in Outcomes /\ row[r] = [row[r] EXCEPT !.outcome = row[r].outcome]
    BY <2>1 DEF RowType
  <2>3. QED
    BY <2>1, <2>2
<1>2. ASSUME NEW demo \in SUBSET Completed, NEW refresh \in BOOLEAN, ResearchHistory(demo, refresh)
      PROVE  SidecarInv'
  <2> DEFINE Initial(r) == IF row[r].outcome # "none" THEN row[r].outcome
                           ELSE IF r \in demo THEN "demo" ELSE "pending"
  <2>1. /\ row' = [r \in Runs |-> IF r \in Completed THEN [row[r] EXCEPT !.outcome = Initial(r)]
                                  ELSE row[r]]
        /\ IF row' = row THEN UNCHANGED history ELSE Persist(order, row')
        /\ UNCHANGED <<up, order, asked, files>>
    BY <1>2 DEF ResearchHistory, files
  <2>2. \A r \in Runs : Initial(r) \in Outcomes
    BY <1>1 DEF Outcomes
  <2> HIDE DEF Initial
  <2>3. row' = [r \in Runs |-> row'[r]]
    BY <2>1
  <2>4. \A r \in Runs : \E o \in Outcomes : row'[r] = [row[r] EXCEPT !.outcome = o]
    BY <1>1, <2>1, <2>2
  <2>5. Persist(order, row') \/ (row' = row /\ history' = history)
    BY <2>1
  <2>6. QED
    BY <2>1, <2>3, <2>4, <2>5, OutcomesInv
<1>3. ASSUME NEW group \in SUBSET Runs, NEW result \in {"judged", "pending", "failed"},
             Refreshed(group, result)
      PROVE  SidecarInv'
  <2> DEFINE Judged(r) == IF result = "failed" THEN Unavailable(row[r].outcome) ELSE result
  <2>1. /\ row' = [r \in Runs |-> IF r \notin group THEN row[r]
                                  ELSE [row[r] EXCEPT !.outcome = Judged(r)]]
        /\ Persist(order, row')
        /\ UNCHANGED <<up, order, asked, files>>
    BY <1>3 DEF Refreshed, files
  <2>2. \A r \in Runs : Judged(r) \in Outcomes
    BY DEF Outcomes, Unavailable
  <2> HIDE DEF Judged
  <2>3. row' = [r \in Runs |-> row'[r]]
    BY <2>1
  <2>4. \A r \in Runs : \E o \in Outcomes : row'[r] = [row[r] EXCEPT !.outcome = o]
    BY <1>1, <2>1, <2>2
  <2>5. QED
    BY <2>1, <2>3, <2>4, OutcomesInv
<1>4. QED
  BY <1>2, <1>3 DEF RefreshStep

\* The process ends: what was in memory is gone, the files are as they were.
LEMMA EndInv ==
  ASSUME SidecarInv, Exit \/ Crash
  PROVE  SidecarInv'
<1>1. /\ ~up' /\ order' = <<>> /\ row' = [r \in Runs |-> IdleRow]
      /\ UNCHANGED <<history, asked, answered>> /\ UNCHANGED files
  BY DEF Exit, Crash, files
<1>2. /\ IdleRow \in RowType /\ RowSound(IdleRow)
      /\ IdleRow.task # "executing" /\ ~Succeeds(IdleRow)
  BY IdleIsSound
<1>3. row' \in [Runs -> RowType] /\ \A r \in Runs : row'[r] = IdleRow
  BY <1>1, <1>2
<1>4. ThreadInv'
  BY <1>1, InvFacts, ThreadKept
<1>5. TypesRuns'
  BY <1>1, <1>3, InvFacts DEF TypesRuns
<1>6. RowsInv'
  <2>1. \A r \in Runs : RowSound(row'[r])
    BY <1>2, <1>3
  <2>2. QED
    BY <2>1 DEF RowsInv, RowSound, Story, Consecutive
<1>7. RowsAnswered'
  <2>1. \A r \in Runs : row'[r].task # "executing" /\ ~Succeeds(row'[r])
    BY <1>2, <1>3
  <2>2. QED
    BY <2>1 DEF RowsAnswered, Succeeds
<1>8. FileAnswered'
  BY <1>1 DEF SidecarInv, FileAnswered
<1>9. KnownInv'
  BY <1>1 DEF SidecarInv, KnownInv
<1>10. QED
  BY <1>1, <1>4, <1>5, <1>6, <1>7, <1>8, <1>9 DEF SidecarInv

\* The registry is read back from the file.
LEMMA RestartInv ==
  ASSUME SidecarInv, Restart
  PROVE  SidecarInv'
<1> DEFINE Listed(r) == \E i \in DOMAIN history : history[i].id = r
           EntryOf(r) == CHOOSE e \in Range(history) : e.id = r
<1>1. /\ order' = [i \in DOMAIN history |-> history[i].id]
      /\ row' = [r \in Runs |-> IF Listed(r)
                                THEN [IdleRow EXCEPT !.status = EntryOf(r).status,
                                                     !.outcome = EntryOf(r).outcome]
                                ELSE IdleRow]
      /\ UNCHANGED <<history, asked, answered>> /\ UNCHANGED files
  BY DEF Restart, files
<1>2. /\ history \in Seq(EntryType) /\ Len(history) \in Nat /\ DOMAIN history = 1..Len(history)
      /\ \A i \in DOMAIN history : history[i] \in EntryType
  BY InvFacts
<1>3. /\ \A i \in DOMAIN history : asked[history[i].id] # "unused"
      /\ \A i, j \in DOMAIN history : history[i].id = history[j].id => i = j
      /\ Len(history) <= MaxHistory
  BY DEF SidecarInv, KnownInv
<1>4. ASSUME NEW i \in DOMAIN history
      PROVE  EntryOf(history[i].id) = history[i] /\ Listed(history[i].id)
  <2>1. /\ history[i] \in Range(history)
        /\ \A e \in Range(history) : e.id = history[i].id => e = history[i]
    BY <1>3 DEF Range
  <2>2. QED
    BY <2>1
<1> HIDE DEF EntryOf
<1>5. ASSUME NEW i \in DOMAIN history
      PROVE  LET x == row'[history[i].id]
             IN  /\ x \in RowType /\ RowSound(x) /\ x.task = "restored"
                 /\ x.status = history[i].status /\ x.outcome = history[i].outcome
  <2>1. history[i] \in EntryType /\ history[i].id \in Runs
    BY <1>2 DEF EntryType
  <2>2. row'[history[i].id] = [IdleRow EXCEPT !.status = history[i].status,
                                              !.outcome = history[i].outcome]
    BY <1>1, <1>4, <2>1
  <2>3. QED
    BY <2>1, <2>2, RestoredRow
<1>6. ASSUME NEW r \in Runs
      PROVE  /\ row'[r] \in RowType /\ RowSound(row'[r]) /\ row'[r].task # "executing"
             /\ KindOf[r] = "agent" /\ Succeeds(row'[r]) => r \in answered
  <2>1. CASE Listed(r)
    <3>1. PICK i \in DOMAIN history : history[i].id = r
      BY <2>1
    <3>2. /\ row'[r] \in RowType /\ RowSound(row'[r]) /\ row'[r].task = "restored"
          /\ row'[r].status = history[i].status
      BY <1>5, <3>1
    <3>3. KindOf[r] = "agent" /\ history[i].status = "succeeded" => r \in answered
      BY <3>1 DEF SidecarInv, FileAnswered
    <3>4. QED
      BY <3>2, <3>3 DEF Succeeds
  <2>2. CASE ~Listed(r)
    <3>1. row'[r] = IdleRow
      BY <1>1, <2>2
    <3>2. QED
      BY <3>1, IdleIsSound
  <2>3. QED
    BY <2>1, <2>2
<1>7. row' \in [Runs -> RowType]
  <2>1. row' = [r \in Runs |-> row'[r]]
    BY <1>1
  <2>2. QED
    BY <1>6, <2>1
<1>8. /\ order' \in Seq(Runs) /\ DOMAIN order' = DOMAIN history
       /\ \A i \in DOMAIN history : order'[i] = history[i].id
  <2>1. \A i \in 1..Len(history) : history[i].id \in Runs
    BY <1>2 DEF EntryType
  <2>2. order' = [i \in 1..Len(history) |-> history[i].id]
    BY <1>1, <1>2
  <2>3. QED
    BY <1>2, <2>1, <2>2
<1>9. ThreadInv'
  BY <1>1, InvFacts, ThreadKept
<1>10. TypesRuns'
  BY <1>1, <1>2, <1>7, <1>8 DEF TypesRuns
<1>11. RowsInv'
  BY <1>6 DEF RowsInv, RowSound, Story, Consecutive
<1>12. RowsAnswered'
  BY <1>1, <1>6 DEF RowsAnswered, Succeeds
<1>13. FileAnswered'
  BY <1>1 DEF SidecarInv, FileAnswered
<1>14. KnownInv'
  BY <1>1, <1>3, <1>8 DEF KnownInv
<1>15. Current(history', order', row')
  BY <1>1, <1>2, <1>3, <1>5, CurrentRestored
<1>16. QED
  BY <1>9, <1>10, <1>11, <1>12, <1>13, <1>14, <1>15 DEF SidecarInv

-----------------------------------------------------------------------------
(* The theorems.                                                            *)

LEMMA InitInv == Init => SidecarInv
<1> SUFFICES ASSUME Init PROVE SidecarInv
  OBVIOUS
<1>1. /\ IdleRow \in RowType /\ RowSound(IdleRow)
      /\ IdleRow.task # "executing" /\ ~Succeeds(IdleRow)
  BY IdleIsSound
<1>2. \A r \in Runs : row[r] = IdleRow
  BY DEF Init
<1>3. TypesRuns
  BY <1>1 DEF Init, TypesRuns
<1>4. RowsInv /\ RowsAnswered
  BY <1>1, <1>2 DEF RowsInv, RowsAnswered
<1>5. ThreadInv
  BY DEF Init, ThreadInv, TypesThreads, CountInv, ThreadsBelong
<1>6. FileAnswered /\ KnownInv
  BY SidecarAssumption DEF Init, FileAnswered, KnownInv
<1>7. Current(history, order, row)
  <2>1. LastOf(<<>>, MaxHistory) = <<>>
    <3>1. Len(<<>>) = 0 /\ MaxHistory \in Nat \ {0}
      BY SidecarAssumption
    <3>2. LastOf(<<>>, MaxHistory) = SubSeq(<<>>, 1, 0)
      BY <3>1 DEF LastOf
    <3>3. QED
      BY <3>2, SubSeqEmpty
  <2>2. QED
    BY <2>1 DEF Init, Current
<1>8. QED
  BY <1>3, <1>4, <1>5, <1>6, <1>7 DEF SidecarInv

LEMMA NextInv == SidecarInv /\ [Next]_vars => SidecarInv'
<1> SUFFICES ASSUME SidecarInv, [Next]_vars PROVE SidecarInv'
  OBVIOUS
<1>1. CASE UNCHANGED vars \/ CancelReturns
  <2>1. /\ UNCHANGED <<up, order, history, asked, files>> /\ row' = row
    BY <1>1 DEF vars, CancelReturns, files
  <2>2. QED
    BY <2>1, InvFacts, QuietStep
<1>2. ASSUME NEW r \in Runs, RunStep(r)
      PROVE  SidecarInv'
  BY <1>2, RunStepInv
<1>3. CASE Request
  <2>1. ASSUME NEW r \in Runs, StartReport(r) \/ CancelRun(r) \/ DeleteRun(r)
        PROVE  SidecarInv'
    BY <2>1, StartReportInv, InterruptInv, DeleteInv
  <2>2. ASSUME NEW r \in Runs, NEW t \in Threads, NEW size \in Sizes, StartAgent(r, t, size)
        PROVE  SidecarInv'
    BY <2>2, StartAgentInv
  <2>3. ASSUME NEW t \in Threads, NEW size \in Sizes, StartAgentRefused(t, size)
        PROVE  SidecarInv'
    BY <2>3, StartRefusedInv
  <2>4. ASSUME NEW t \in Threads, CreateThread(t) \/ DeleteThread(t)
        PROVE  SidecarInv'
    BY <2>4, ThreadStepInv
  <2>5. ASSUME NEW demo \in SUBSET Completed, NEW refresh \in BOOLEAN,
               ResearchHistory(demo, refresh)
        PROVE  SidecarInv'
    BY <2>5, ResearchInv
  <2>6. CASE Shutdown
    BY <2>6, InterruptInv
  <2>7. QED
    BY <1>3, <2>1, <2>2, <2>3, <2>4, <2>5, <2>6 DEF Request
<1>4. CASE RefreshStep
  BY <1>4, ResearchInv
<1>5. CASE Exit \/ Crash
  BY <1>5, EndInv
<1>6. CASE Restart
  BY <1>6, RestartInv
<1>7. QED
  BY <1>1, <1>2, <1>3, <1>4, <1>5, <1>6 DEF Next

\* The state is typed, and SidecarInv holds, in every reachable state.
THEOREM SidecarIsSound == Spec => []SidecarInv
BY InitInv, NextInv, PTL DEF Spec

\* TurnsAreCounted: whatever compaction drops, deletion removes and a late answer
\* recreates, the count of a conversation is that of the turns appended to it,
\* and the latest of them are in the file.
THEOREM TurnsCounted == Spec => []TurnsAreCounted
<1>1. ThreadInv => TurnsAreCounted
  BY DEF ThreadInv, TypesThreads, CountInv, ThreadCounted, TurnsAreCounted
<1>2. SidecarInv => TurnsAreCounted
  BY <1>1 DEF SidecarInv
<1>3. QED
  BY <1>2, SidecarIsSound, PTL

\* EventsEndOnce: the queue of a run in memory is numbered without a gap, and
\* nothing follows its end.
THEOREM StoriesEndOnce == Spec => []EventsEndOnce
<1>1. SidecarInv => EventsEndOnce
  <2> SUFFICES ASSUME SidecarInv, NEW r \in Runs, row[r].task # "restored"
               PROVE  LET events == row[r].events
                      IN  /\ \A i \in 1..Len(events) - 1 : events[i + 1].seq = events[i].seq + 1
                          /\ \A i \in DOMAIN events :
                               events[i].type \in Settled
                                 => i = Len(events) /\ events[i].type = row[r].status
                          /\ row[r].status \in Settled => Last(events).type = row[r].status
    BY DEF EventsEndOnce
  <2>1. Story(row[r])
    BY InvFacts DEF RowSound
  <2>2. QED
    BY <2>1 DEF Story, Consecutive, Last
<1>2. QED
  BY <1>1, SidecarIsSound, PTL

\* AnswersBelong: the answers in a conversation are those of different runs that
\* were asked on it, and a run that reports success has answered.
THEOREM AnswersStand == Spec => []AnswersBelong
<1>1. SidecarInv => AnswersBelong
  <2> SUFFICES ASSUME SidecarInv PROVE AnswersBelong
    OBVIOUS
  <2>1. ASSUME NEW t \in DOMAIN thread
        PROVE  LET turns   == thread[t].turns
                   answers == {i \in DOMAIN turns : turns[i].role = "assistant"}
               IN  /\ \A i \in answers : turns[i].run \in answered /\ asked[turns[i].run] = t
                   /\ \A i, j \in answers : turns[i].run = turns[j].run => i = j
    <3>1. TurnsBelong(t, thread[t].turns, answered, asked)
      BY DEF SidecarInv, ThreadInv, ThreadsBelong
    <3>2. QED
      BY <3>1 DEF TurnsBelong
  <2>2. ASSUME NEW r \in Range(order), KindOf[r] = "agent", row[r].status = "succeeded"
        PROVE  r \in answered
    <3>1. r \in Runs
      BY InvFacts DEF Range
    <3>2. QED
      BY <2>2, <3>1 DEF SidecarInv, RowsAnswered, Succeeds
  <2>3. QED
    BY <2>1, <2>2 DEF AnswersBelong
<1>2. QED
  BY <1>1, SidecarIsSound, PTL

\* HistoryIsCurrent: while the process is up, the history file shows every settled
\* run among the latest as it is, and nothing else.
THEOREM FileIsCurrent == Spec => []HistoryIsCurrent
<1>1. SidecarInv => HistoryIsCurrent
  <2> SUFFICES ASSUME SidecarInv, up
               PROVE  /\ \A i \in DOMAIN Recent(order, row) :
                            Recent(order, row)[i] \in Range(history)
                      /\ \A e \in Range(history) : InOrder(e.id) /\ e = Entry(e.id, row)
    BY DEF HistoryIsCurrent
  <2>1. Current(history, order, row)
    BY DEF SidecarInv
  <2>2. ASSUME NEW e \in Range(history)
        PROVE  InOrder(e.id) /\ e = Entry(e.id, row)
    <3>1. PICK j \in DOMAIN history : history[j] = e
      BY DEF Range
    <3>2. (\E i \in DOMAIN order : order[i] = e.id) /\ e = Entry(e.id, row)
      BY <2>1, <3>1 DEF Current
    <3>3. QED
      BY <3>2 DEF InOrder, Range
  <2> DEFINE last == LastOf(order, MaxHistory)
             Q == {r \in Runs : row[r].status \in Settled}
             u == OnlyIn(last, Q)
  <2>3. last \in Seq(Runs)
    BY InvFacts, SidecarAssumption, LastOfKeeps
  <2>4. \A i \in DOMAIN last : row[last[i]].status \in Settled
                                 => \E j \in DOMAIN history : history[j] = Entry(last[i], row)
    BY <2>1 DEF Current
  <2>5. Recent(order, row) = [i \in DOMAIN u |-> Entry(u[i], row)]
    BY DEF Recent
  <2> HIDE DEF last
  <2>6. \A j \in DOMAIN u : \E i \in DOMAIN last : last[i] = u[j] /\ last[i] \in Q
    BY <2>3, OnlyInKeeps
  <2> HIDE DEF u
  <2>7. ASSUME NEW j \in DOMAIN u
        PROVE  Entry(u[j], row) \in Range(history)
    <3>1. PICK i \in DOMAIN last : last[i] = u[j] /\ last[i] \in Q
      BY <2>6
    <3>2. PICK k \in DOMAIN history : history[k] = Entry(last[i], row)
      BY <2>4, <3>1
    <3>3. QED
      BY <3>1, <3>2 DEF Range
  <2>8. QED
    BY <2>2, <2>5, <2>7
<1>2. QED
  BY <1>1, SidecarIsSound, PTL

=============================================================================
