-------------------------- MODULE ToolPipelineProofs --------------------------
(***************************************************************************)
(* Proofs about ToolPipeline, for any batch of calls and any number of     *)
(* lost writes: a tool runs after its call is allowed and on record, alone *)
(* or among safe ones, and a batch that returns has one outcome per call,  *)
(* one result per call on record, both in the order of the calls.          *)
(***************************************************************************)
EXTENDS ToolPipeline, SequenceTheorems, FiniteSetTheorems, TLAPS

-----------------------------------------------------------------------------
(* The invariant. *)

Names == {"policy/decision", "tool/call", "tool/result"}
Refs == {"none", "allow", "deny"}
Ids == {Calls[i].id : i \in Positions}
EventType == [type : Names, id : Ids, ref : Refs, num : Nat]
Stages == {"next", "preparing", "running", "stopping", "recording", "returned", "cancelled", "raised"}
Wheres == {"waiting", "allowed", "called", "refused", "running", "ended", "recorded"}
Refusals == {"invalid", "denied", "repeated", "lost"}
Results == Ids \cup {"none", "error"} \cup Refusals

BatchTypes ==
    /\ stream \in Seq(EventType) /\ pos \in Nat \ {0} /\ group \in SUBSET Positions
    /\ stage \in Stages /\ call \in [Positions -> [at : Wheres, result : Results]]
    /\ outcomes \in Seq([id : Ids, result : Results]) /\ lost \in Nat

\* the first calls of the batch have their outcomes; the others have none
Dealt == Len(outcomes)

\* what a call ended with is its own
OwnResults ==
    /\ \A i \in Positions :
         /\ call[i].at = "refused" => call[i].result \in Refusals
         /\ call[i].at = "ended" => call[i].result \in {Calls[i].id, "error"}
    /\ \A k \in DOMAIN outcomes :
         /\ k \in Positions /\ outcomes[k].id = Calls[k].id
         /\ outcomes[k].result \in {Calls[k].id, "error"} \cup Refusals

\* calls that run together are safe, and run in one stage only
Together ==
    /\ \A i, j \in group : i # j => Calls[i].safe
    /\ \A i \in Positions : call[i].at = "running" => i \in group /\ stage \in {"running", "stopping"}

\* the group follows the calls that have their outcomes, without a gap
Consecutive == \A j \in group : \A i \in Dealt + 1..j : i \in group

\* where the calls of the batch are, stage by stage
Course ==
    /\ \A i \in Positions : i <= Dealt => call[i].at = "recorded"
    /\ \A i \in Positions : i > Dealt /\ i \notin group => call[i] = Fresh
    /\ stage = "next" => pos = Dealt + 1 /\ \A i \in group : i <= Dealt
    /\ stage \in {"preparing", "running", "stopping"} =>
         /\ Dealt + 1 \in group /\ Consecutive /\ \A i \in group : i > Dealt
    /\ stage = "preparing" =>
         /\ pos > Dealt
         /\ \A i \in group : /\ i < pos => call[i].at \in {"refused", "called"}
                             /\ i = pos => call[i].at \in {"waiting", "allowed"}
                             /\ i > pos => call[i] = Fresh
    /\ stage \in {"running", "stopping"} =>
         \A i \in group : call[i].at \in {"refused", "running", "ended"}
    /\ stage = "recording" =>
         /\ pos = Dealt + 1 /\ pos \in group /\ Consecutive
         /\ \A i \in group : i > Dealt => call[i].at \in {"refused", "ended"}
    /\ stage = "returned" => Dealt = Len(Calls)

\* the calls on record that have no result yet and will get one
Live == {i \in Positions : call[i].at \in {"called", "running", "ended"}}
AllowedBefore(log, i, c) ==
    \E d \in DOMAIN log : /\ log[d].type = "policy/decision" /\ log[d].id = Calls[i].id
                             /\ log[d].ref = "allow" /\ d < c

\* the stream tells the course: one call of an id, after its decision, then its
\* result, both in the order of the batch
OnRecord ==
    /\ \A k, m \in CallsOnRecord : stream[k].id = stream[m].id => k = m
    /\ \A i \in Positions : call[i].at = "allowed" => AllowedBefore(stream, i, Len(stream) + 1)
    /\ \A i \in Live : \E c \in CallsOnRecord : stream[c].id = Calls[i].id /\ AllowedBefore(stream, i, c)
    /\ \A i, j \in Live : \A k, m \in CallsOnRecord :
         i < j /\ stream[k].id = Calls[i].id /\ stream[m].id = Calls[j].id => k < m
    /\ \A i \in Live : \A j \in ResultsOnRecord : stream[j].id # Calls[i].id
    /\ \A j \in ResultsOnRecord : \E k \in CallsOnRecord : stream[j].id = stream[k].id

InOrder ==
    /\ \A k, m \in CallsOnRecord, i, j \in ResultsOnRecord :
         stream[i].id = stream[k].id /\ stream[j].id = stream[m].id => (k < m <=> i < j)
    /\ \A i \in Live : \A k, m \in CallsOnRecord : \A j \in ResultsOnRecord :
         stream[j].id = stream[k].id /\ stream[m].id = Calls[i].id => k < m

\* a call on record has its result or will get it, unless a write failed
Accounted ==
    lost = 0 => \A k \in CallsOnRecord :
        \/ \E j \in ResultsOnRecord : stream[j].id = stream[k].id
        \/ \E i \in Live : stream[k].id = Calls[i].id

Recorded == OnRecord /\ InOrder /\ Accounted

BatchInv ==
    /\ BatchTypes /\ OwnResults /\ Together
    /\ stage \notin {"cancelled", "raised"} => Course /\ Recorded

-----------------------------------------------------------------------------
(* Helpers. *)

LEMMA CallsAre ==
  /\ Len(Calls) \in Nat /\ Positions = 1..Len(Calls)
  /\ \A i \in Positions : Calls[i].id \in Ids /\ Calls[i].safe \in BOOLEAN
<1>1. Calls \in Seq([id : STRING, safe : BOOLEAN])
  BY BatchAssumption
<1>2. Len(Calls) \in Nat /\ DOMAIN Calls = 1..Len(Calls)
  BY <1>1
<1>3. \A i \in DOMAIN Calls : Calls[i] \in [id : STRING, safe : BOOLEAN]
  BY <1>1, ElementOfSeq, <1>2
<1>4. QED
  BY <1>2, <1>3 DEF Positions, Ids

\* A step of one call leaves the others alone.
LEMMA AtIs ==
  ASSUME call \in [Positions -> [at : Wheres, result : Results]],
         NEW i \in Positions, NEW where \in Wheres, NEW result \in Results, At(i, where, result)
  PROVE  /\ call' \in [Positions -> [at : Wheres, result : Results]]
         /\ call'[i].at = where /\ call'[i].result = result
         /\ \A j \in Positions : j # i => call'[j] = call[j]
BY DEF At

\* What is on record stays there when an event is appended.
LEMMA Appended ==
  ASSUME stream \in Seq(EventType), NEW e \in EventType, stream' = Append(stream, e)
  PROVE  /\ stream' \in Seq(EventType) /\ Len(stream) \in Nat
         /\ DOMAIN stream = 1..Len(stream) /\ DOMAIN stream' = 1..Len(stream) + 1
         /\ \A k \in DOMAIN stream : k \in DOMAIN stream' /\ stream'[k] = stream[k]
         /\ Len(stream) + 1 \in DOMAIN stream' /\ stream'[Len(stream) + 1] = e
         /\ \A k \in DOMAIN stream' : k \in DOMAIN stream \/ k = Len(stream) + 1
         /\ \A k \in DOMAIN stream : k \in Nat /\ k < Len(stream) + 1
OBVIOUS

LEMMA EventTyped ==
  ASSUME NEW type \in Names, NEW i \in Positions, NEW ref \in Refs
  PROVE  /\ Event(type, Calls[i].id, ref, 0) \in EventType
         /\ Event(type, Calls[i].id, ref, 0).type = type
         /\ Event(type, Calls[i].id, ref, 0).id = Calls[i].id
         /\ Event(type, Calls[i].id, ref, 0).ref = ref
BY CallsAre DEF Event, EventType

\* A group begins with the call it is formed for, has no gap, and holds more
\* than one call only if they are safe.
LEMMA GroupIs ==
  ASSUME NEW k \in Positions
  PROVE  /\ GroupFrom(k) \in SUBSET Positions /\ k \in GroupFrom(k)
         /\ \A j \in GroupFrom(k) : j >= k /\ \A i \in k..j : i \in GroupFrom(k)
         /\ \A i, j \in GroupFrom(k) : i # j => Calls[i].safe
<1>1. CASE ~Calls[k].safe
  <2>1. GroupFrom(k) = {k}
    BY <1>1 DEF GroupFrom
  <2>2. k \in Nat /\ \A i \in k..k : i = k
    BY CallsAre
  <2>3. QED
    BY <2>1, <2>2
<1>2. CASE Calls[k].safe
  <2>1. GroupFrom(k) = {j \in k..Len(Calls) : \A i \in k..j : Calls[i].safe}
    BY <1>2 DEF GroupFrom
  <2>2. k \in Nat /\ k <= Len(Calls) /\ Len(Calls) \in Nat /\ Positions = 1..Len(Calls) /\ k >= 1
    BY CallsAre
  <2>3. \A j \in k..Len(Calls) : j \in k..j /\ j \in Positions
    BY <2>2
  <2>4. \A i \in k..k : Calls[i].safe
    BY <1>2, <2>2
  <2>5. \A j \in k..Len(Calls) : \A i \in k..j : i \in k..Len(Calls) /\ \A h \in k..i : h \in k..j
    BY <2>2
  <2>6. \A j \in GroupFrom(k) : j >= k /\ \A i \in k..j : i \in GroupFrom(k)
    BY <2>1, <2>2, <2>5
  <2>7. QED
    BY <2>1, <2>2, <2>3, <2>4, <2>6
<1>3. QED
  BY <1>1, <1>2

\* The place of a position in a set of positions is its own.
LEMMA PlaceIsOwn ==
  ASSUME NEW S \in SUBSET Positions, NEW i \in S
  PROVE  AtPlace(S, Place(S, i)) = i
<1> DEFINE Upto(d) == {e \in S : e <= d}
<1>1. IsFiniteSet(S) /\ \A d \in S : d \in Nat
  <2>1. IsFiniteSet(Positions) /\ \A d \in Positions : d \in Nat
    BY CallsAre, FS_Interval
  <2>2. QED
    BY <2>1, FS_Subset
<1>2. \A d : IsFiniteSet(Upto(d)) /\ Cardinality(Upto(d)) \in Nat
  BY <1>1, FS_Subset, FS_CardinalityType
<1>3. ASSUME NEW d \in S, NEW e \in S, d < e
      PROVE  Place(S, d) # Place(S, e)
  <2>1. \A x \in S : x <= d => x <= e
    BY <1>1, <1>3
  <2>2. e <= e /\ ~(e <= d)
    BY <1>1, <1>3
  <2>3. Upto(d) \in SUBSET Upto(e) /\ e \in Upto(e) /\ e \notin Upto(d)
    BY <2>1, <2>2, Zenon
  <2>4. Upto(d) # Upto(e)
    BY <2>3
  <2>5. Cardinality(Upto(d)) # Cardinality(Upto(e))
    BY <1>2, <2>3, <2>4, FS_Subset
  <2>6. QED
    BY <2>5 DEF Place
<1>4. \A d \in S : Place(S, d) = Place(S, i) => d = i
  <2>1. TAKE d \in S
  <2>2. d < i \/ i < d \/ d = i
    BY <1>1
  <2>3. QED
    BY <1>3, <2>2
<1>5. AtPlace(S, Place(S, i)) \in S /\ Place(S, AtPlace(S, Place(S, i))) = Place(S, i)
  BY DEF AtPlace
<1>6. QED
  BY <1>4, <1>5

-----------------------------------------------------------------------------
(* What a step does to the record. *)

\* Nothing is appended.
LEMMA RecordKept ==
  ASSUME Recorded, lost \in Nat, lost' \in Nat, lost' >= lost,
         stream' = stream, Live' \subseteq Live, Live' = Live \/ lost' # 0,
         \A i \in Positions : call'[i].at = "allowed" => call[i].at = "allowed"
  PROVE  Recorded'
<1>a. OnRecord
  BY DEF Recorded
<1>b. InOrder
  BY DEF Recorded
<1>c. Accounted
  BY DEF Recorded
<1>1. /\ CallsOnRecord' = CallsOnRecord /\ ResultsOnRecord' = ResultsOnRecord
      /\ \A i, c : AllowedBefore(stream', i, c) <=> AllowedBefore(stream, i, c)
  BY DEF CallsOnRecord, ResultsOnRecord, AllowedBefore
<1>2. \A i \in Live' : i \in Live
  OBVIOUS
<1>3. OnRecord'
  BY <1>a, <1>1, <1>2 DEF OnRecord
<1>4. InOrder'
  BY <1>b, <1>1, <1>2 DEF InOrder
<1>5. Accounted'
  BY <1>c, <1>1 DEF Accounted
<1>6. QED
  BY <1>3, <1>4, <1>5 DEF Recorded

Grows(e) == stream \in Seq(EventType) /\ e \in EventType /\ stream' = Append(stream, e)

\* An event is appended: what was on record stays, at its place.
LEMMA RecordGrows ==
  ASSUME NEW e, Grows(e)
  PROVE  /\ CallsOnRecord' = CallsOnRecord \cup
              (IF e.type = "tool/call" THEN {Len(stream) + 1} ELSE {})
         /\ ResultsOnRecord' = ResultsOnRecord \cup
              (IF e.type = "tool/result" THEN {Len(stream) + 1} ELSE {})
         /\ \A k \in CallsOnRecord \cup ResultsOnRecord :
              k \in DOMAIN stream /\ k \in Nat /\ k < Len(stream) + 1 /\ stream'[k] = stream[k]
         /\ Len(stream) + 1 \notin CallsOnRecord \cup ResultsOnRecord
         /\ stream'[Len(stream) + 1] = e /\ Len(stream') = Len(stream) + 1
         /\ Len(stream) \in Nat
         /\ \A i, c : AllowedBefore(stream, i, c) => AllowedBefore(stream', i, c)
         /\ \A i \in Positions : AllowedBefore(stream, i, Len(stream) + 1) => AllowedBefore(stream', i, Len(stream) + 1 + 1)
<1>1. /\ Len(stream) \in Nat
      /\ DOMAIN stream = 1..Len(stream) /\ DOMAIN stream' = 1..Len(stream) + 1
      /\ \A k \in DOMAIN stream : k \in DOMAIN stream' /\ stream'[k] = stream[k]
      /\ Len(stream) + 1 \in DOMAIN stream' /\ stream'[Len(stream) + 1] = e
      /\ \A k \in DOMAIN stream' : k \in DOMAIN stream \/ k = Len(stream) + 1
      /\ \A k \in DOMAIN stream : k \in Nat /\ k < Len(stream) + 1
  BY Appended DEF Grows
<1>2. CallsOnRecord' = CallsOnRecord \cup (IF e.type = "tool/call" THEN {Len(stream) + 1} ELSE {})
  BY <1>1 DEF CallsOnRecord
<1>3. ResultsOnRecord' = ResultsOnRecord \cup (IF e.type = "tool/result" THEN {Len(stream) + 1} ELSE {})
  BY <1>1 DEF ResultsOnRecord
<1>4. \A i, c : AllowedBefore(stream, i, c) => AllowedBefore(stream', i, c)
  BY <1>1 DEF AllowedBefore
<1>5. \A i \in Positions : AllowedBefore(stream, i, Len(stream) + 1) => AllowedBefore(stream', i, Len(stream) + 1 + 1)
  <2>1. \A k \in DOMAIN stream : k < Len(stream) + 1 + 1
    BY <1>1
  <2>2. QED
    BY <1>1, <2>1 DEF AllowedBefore
<1>6. \A k \in CallsOnRecord \cup ResultsOnRecord : k \in DOMAIN stream
  BY DEF CallsOnRecord, ResultsOnRecord
<1>7. Len(stream') = Len(stream) + 1
  BY DEF Grows
<1>8. Len(stream) + 1 \notin CallsOnRecord \cup ResultsOnRecord
  <2>1. ~(Len(stream) + 1 < Len(stream) + 1)
    BY <1>1
  <2>2. QED
    BY <1>1, <1>6, <2>1
<1>9. QED
  BY <1>1, <1>2, <1>3, <1>4, <1>5, <1>6, <1>7, <1>8

\* A decision is appended.
LEMMA RecordDecided ==
  ASSUME Recorded, NEW e, Grows(e), e.type = "policy/decision",
         Live' = Live, lost' = lost,
         \A i \in Positions : call'[i].at = "allowed" =>
            call[i].at = "allowed" \/ (e.id = Calls[i].id /\ e.ref = "allow")
  PROVE  Recorded'
<1>a. OnRecord
  BY DEF Recorded
<1>b. InOrder
  BY DEF Recorded
<1>c. Accounted
  BY DEF Recorded
<1>1. CallsOnRecord' = CallsOnRecord /\ ResultsOnRecord' = ResultsOnRecord
  BY RecordGrows
<1>2. \A k \in CallsOnRecord : stream'[k] = stream[k] /\ k \in Nat
  BY RecordGrows
<1>3. \A k \in ResultsOnRecord : stream'[k] = stream[k] /\ k \in Nat
  BY RecordGrows
<1>4. \A i, c : AllowedBefore(stream, i, c) => AllowedBefore(stream', i, c)
  BY RecordGrows
<1>5. ASSUME NEW i \in Positions, call'[i].at = "allowed"
      PROVE  AllowedBefore(stream', i, Len(stream') + 1)
  <2>1. Len(stream) \in Nat /\ Len(stream') = Len(stream) + 1 /\ stream'[Len(stream) + 1] = e
    BY RecordGrows
  <2>2. CASE call[i].at = "allowed"
    BY <1>a, <2>1, <2>2, RecordGrows DEF OnRecord
  <2>3. CASE e.id = Calls[i].id /\ e.ref = "allow"
    <3>1. Len(stream) + 1 \in DOMAIN stream' /\ Len(stream) + 1 < Len(stream) + 1 + 1
      BY <2>1, Appended DEF Grows
    <3>2. QED
      BY <2>1, <2>3, <3>1 DEF AllowedBefore
  <2>4. QED
    BY <1>5, <2>2, <2>3
<1>6. OnRecord'
  <2>1. \A k, m \in CallsOnRecord : stream'[k].id = stream'[m].id => k = m
    BY <1>a, <1>2 DEF OnRecord
  <2>2. \A i \in Live : \E c \in CallsOnRecord : stream'[c].id = Calls[i].id /\ AllowedBefore(stream', i, c)
    BY <1>a, <1>2, <1>4 DEF OnRecord
  <2>3. \A i, j \in Live : \A k, m \in CallsOnRecord :
          i < j /\ stream'[k].id = Calls[i].id /\ stream'[m].id = Calls[j].id => k < m
    BY <1>a, <1>2 DEF OnRecord
  <2>4. \A i \in Live : \A j \in ResultsOnRecord : stream'[j].id # Calls[i].id
    BY <1>a, <1>3 DEF OnRecord
  <2>5. \A j \in ResultsOnRecord : \E k \in CallsOnRecord : stream'[j].id = stream'[k].id
    BY <1>a, <1>2, <1>3 DEF OnRecord
  <2>6. QED
    BY <1>1, <1>5, <2>1, <2>2, <2>3, <2>4, <2>5 DEF OnRecord
<1>7. InOrder'
  BY <1>b, <1>1, <1>2, <1>3 DEF InOrder
<1>8. Accounted'
  BY <1>c, <1>1, <1>2, <1>3 DEF Accounted
<1>9. QED
  BY <1>6, <1>7, <1>8 DEF Recorded

\* A call is appended: the first of its id, and the last of the live ones.
LEMMA RecordCalled ==
  ASSUME Recorded, NEW e, Grows(e), e.type = "tool/call",
         NEW i \in Positions, e.id = Calls[i].id, call[i].at = "allowed",
         ~Has(stream, "tool/call", e.id),
         Live' = Live \cup {i}, \A j \in Live : j < i, lost' = lost,
         \A j \in Positions : call'[j].at = "allowed" => call[j].at = "allowed"
  PROVE  Recorded'
<1>a. OnRecord
  BY DEF Recorded
<1>b. InOrder
  BY DEF Recorded
<1>c. Accounted
  BY DEF Recorded
<1> DEFINE n == Len(stream) + 1
<1>1. CallsOnRecord' = CallsOnRecord \cup {n} /\ ResultsOnRecord' = ResultsOnRecord
  BY RecordGrows
<1>2. \A k \in CallsOnRecord : stream'[k] = stream[k] /\ k \in Nat /\ k < n
  BY RecordGrows
<1>3. \A k \in ResultsOnRecord : stream'[k] = stream[k] /\ k \in Nat
  BY RecordGrows
<1>4. stream'[n].id = Calls[i].id /\ n \in Nat
  BY RecordGrows
<1>5. \A j, c : AllowedBefore(stream, j, c) => AllowedBefore(stream', j, c)
  BY RecordGrows
<1>6. \A j \in Positions : call'[j].at = "allowed" => AllowedBefore(stream', j, Len(stream') + 1)
  BY <1>a, RecordGrows DEF OnRecord
<1>7. AllowedBefore(stream', i, n)
  BY <1>a, <1>5 DEF OnRecord
<1> HIDE DEF n
<1>8. \A k \in CallsOnRecord : stream[k].id # Calls[i].id
  BY DEF Has, CallsOnRecord
<1>9. \A j \in ResultsOnRecord : stream[j].id # Calls[i].id
  BY <1>a, <1>8 DEF OnRecord
<1>10. \A j \in Live : Calls[j].id # Calls[i].id
  BY <1>a, <1>8 DEF OnRecord
<1>11. ASSUME NEW h \in Live, NEW k \in CallsOnRecord', stream'[k].id = Calls[h].id
       PROVE  k \in CallsOnRecord /\ stream[k].id = Calls[h].id
  BY <1>1, <1>2, <1>4, <1>10, <1>11
<1>12. ASSUME NEW k \in CallsOnRecord', stream'[k].id = Calls[i].id
       PROVE  k = n
  BY <1>1, <1>2, <1>8, <1>12
<1>13. OnRecord'
  <2>1. ASSUME NEW k \in CallsOnRecord', NEW m \in CallsOnRecord', stream'[k].id = stream'[m].id
        PROVE  k = m
    <3>1. CASE k = n \/ m = n
      BY <1>1, <1>2, <1>4, <1>8, <2>1, <3>1
    <3>2. CASE k # n /\ m # n
      <4>1. k \in CallsOnRecord /\ m \in CallsOnRecord /\ stream[k].id = stream[m].id
        BY <1>1, <1>2, <2>1, <3>2
      <4>2. QED
        BY <1>a, <4>1 DEF OnRecord
    <3>3. QED
      BY <3>1, <3>2
  <2>2. ASSUME NEW j \in Live'
        PROVE  \E c \in CallsOnRecord' : stream'[c].id = Calls[j].id /\ AllowedBefore(stream', j, c)
    <3>1. CASE j = i
      BY <1>1, <1>4, <1>7, <3>1
    <3>2. CASE j \in Live
      BY <1>a, <1>1, <1>2, <1>5, <3>2 DEF OnRecord
    <3>3. QED
      BY <3>1, <3>2
  <2>3. ASSUME NEW h \in Live', NEW j \in Live', NEW k \in CallsOnRecord', NEW m \in CallsOnRecord',
               h < j, stream'[k].id = Calls[h].id, stream'[m].id = Calls[j].id
        PROVE  k < m
    <3>1. h \in Nat /\ j \in Nat /\ i \in Nat
      BY CallsAre DEF Live
    <3>2. h # i
      BY <2>3, <3>1
    <3>3. h \in Live /\ k \in CallsOnRecord /\ stream[k].id = Calls[h].id
      BY <1>11, <2>3, <3>2
    <3>4. CASE j = i
      BY <1>2, <1>12, <2>3, <3>3, <3>4
    <3>5. CASE j # i
      <4>1. j \in Live /\ m \in CallsOnRecord /\ stream[m].id = Calls[j].id
        BY <1>11, <2>3, <3>5
      <4>2. QED
        BY <1>a, <2>3, <3>3, <4>1 DEF OnRecord
    <3>6. QED
      BY <3>4, <3>5
  <2>4. ASSUME NEW h \in Live', NEW j \in ResultsOnRecord'
        PROVE  stream'[j].id # Calls[h].id
    <3>1. j \in ResultsOnRecord /\ stream'[j].id = stream[j].id
      BY <1>1, <1>3
    <3>2. CASE h = i
      BY <1>9, <3>1, <3>2
    <3>3. CASE h \in Live
      BY <1>a, <3>1, <3>3 DEF OnRecord
    <3>4. QED
      BY <3>2, <3>3
  <2>5. ASSUME NEW j \in ResultsOnRecord'
        PROVE  \E k \in CallsOnRecord' : stream'[j].id = stream'[k].id
    BY <1>a, <1>1, <1>2, <1>3 DEF OnRecord
  <2>6. QED
    BY <1>6, <2>1, <2>2, <2>3, <2>4, <2>5 DEF OnRecord
<1>14. ASSUME NEW j \in ResultsOnRecord', NEW k \in CallsOnRecord', stream'[j].id = stream'[k].id
       PROVE  j \in ResultsOnRecord /\ k \in CallsOnRecord /\ stream[j].id = stream[k].id
  BY <1>1, <1>2, <1>3, <1>4, <1>9, <1>14
<1>15. InOrder'
  <2>1. ASSUME NEW k \in CallsOnRecord', NEW m \in CallsOnRecord', NEW h \in ResultsOnRecord',
               NEW j \in ResultsOnRecord', stream'[h].id = stream'[k].id, stream'[j].id = stream'[m].id
        PROVE  k < m <=> h < j
    <3>1. /\ h \in ResultsOnRecord /\ k \in CallsOnRecord /\ stream[h].id = stream[k].id
          /\ j \in ResultsOnRecord /\ m \in CallsOnRecord /\ stream[j].id = stream[m].id
      BY <1>14, <2>1
    <3>2. QED
      BY <1>b, <3>1 DEF InOrder
  <2>2. ASSUME NEW h \in Live', NEW k \in CallsOnRecord', NEW m \in CallsOnRecord',
               NEW j \in ResultsOnRecord', stream'[j].id = stream'[k].id, stream'[m].id = Calls[h].id
        PROVE  k < m
    <3>1. k \in CallsOnRecord /\ j \in ResultsOnRecord /\ stream[j].id = stream[k].id
      BY <1>14, <2>2
    <3>2. CASE h = i
      BY <1>2, <1>12, <2>2, <3>1, <3>2
    <3>3. CASE h \in Live
      <4>1. m \in CallsOnRecord /\ stream[m].id = Calls[h].id
        BY <1>11, <2>2, <3>3
      <4>2. QED
        BY <1>b, <3>1, <3>3, <4>1 DEF InOrder
    <3>4. QED
      BY <3>2, <3>3
  <2>3. QED
    BY <2>1, <2>2 DEF InOrder
<1>16. Accounted'
  <2>1. ASSUME lost' = 0, NEW k \in CallsOnRecord'
        PROVE  \/ \E j \in ResultsOnRecord' : stream'[j].id = stream'[k].id
               \/ \E h \in Live' : stream'[k].id = Calls[h].id
    <3>1. CASE k = n
      BY <1>4, <3>1
    <3>2. CASE k \in CallsOnRecord
      BY <1>c, <1>1, <1>2, <1>3, <2>1, <3>2 DEF Accounted
    <3>3. QED
      BY <1>1, <3>1, <3>2
  <2>2. QED
    BY <2>1 DEF Accounted
<1>17. QED
  BY <1>13, <1>15, <1>16 DEF Recorded

\* A result is appended: that of the first of the live calls.
LEMMA RecordAnswered ==
  ASSUME Recorded, NEW e, Grows(e), e.type = "tool/result",
         NEW i \in Live, e.id = Calls[i].id,
         Live' = Live \ {i}, \A j \in Live' : i < j, lost' = lost,
         \A j \in Positions : call'[j].at = "allowed" => call[j].at = "allowed"
  PROVE  Recorded'
<1>a. OnRecord
  BY DEF Recorded
<1>b. InOrder
  BY DEF Recorded
<1>c. Accounted
  BY DEF Recorded
<1> DEFINE n == Len(stream) + 1
<1>1. CallsOnRecord' = CallsOnRecord /\ ResultsOnRecord' = ResultsOnRecord \cup {n}
  BY RecordGrows
<1>2. \A k \in CallsOnRecord : stream'[k] = stream[k] /\ k \in Nat
  BY RecordGrows
<1>3. \A k \in ResultsOnRecord : stream'[k] = stream[k] /\ k \in Nat /\ k < n
  BY RecordGrows
<1>4. stream'[n].id = Calls[i].id /\ n \in Nat
  BY RecordGrows
<1>5. \A j, c : AllowedBefore(stream, j, c) => AllowedBefore(stream', j, c)
  BY RecordGrows
<1>6. \A j \in Positions : call'[j].at = "allowed" => AllowedBefore(stream', j, Len(stream') + 1)
  BY <1>a, RecordGrows DEF OnRecord
<1> HIDE DEF n
<1>7. PICK c \in CallsOnRecord : stream[c].id = Calls[i].id
  BY <1>a DEF OnRecord
<1>8. \A k \in CallsOnRecord : stream[k].id = Calls[i].id => k = c
  BY <1>a, <1>7 DEF OnRecord
<1>9. \A h \in Live' : h \in Live /\ i < h
  OBVIOUS
<1>10. \A h \in Live' : \A m \in CallsOnRecord : stream[m].id = Calls[h].id => c < m
  BY <1>a, <1>7, <1>9 DEF OnRecord
<1>11. \A h \in Live' : Calls[h].id # Calls[i].id
  <2>1. ~(c < c)
    BY <1>2
  <2>2. QED
    BY <1>7, <1>10, <2>1
<1>12. \A j \in ResultsOnRecord, k \in CallsOnRecord : stream[j].id = stream[k].id => k < c
  BY <1>b, <1>7 DEF InOrder
<1>13. ASSUME NEW j \in ResultsOnRecord', NEW k \in CallsOnRecord', stream'[j].id = stream'[k].id
       PROVE  /\ k \in CallsOnRecord
              /\ \/ j = n /\ k = c
                 \/ j \in ResultsOnRecord /\ stream[j].id = stream[k].id /\ j < n /\ k < c
  <2>1. k \in CallsOnRecord /\ stream'[k].id = stream[k].id
    BY <1>1, <1>2
  <2>2. CASE j = n
    BY <1>4, <1>8, <1>13, <2>1, <2>2
  <2>3. CASE j \in ResultsOnRecord
    <3>1. stream[j].id = stream[k].id /\ j < n
      BY <1>3, <1>13, <2>1, <2>3
    <3>2. QED
      BY <1>12, <2>1, <2>3, <3>1
  <2>4. QED
    BY <1>1, <2>2, <2>3
<1>14. OnRecord'
  <2>1. \A k, m \in CallsOnRecord : stream'[k].id = stream'[m].id => k = m
    BY <1>a, <1>2 DEF OnRecord
  <2>2. \A j \in Live' : \E d \in CallsOnRecord : stream'[d].id = Calls[j].id /\ AllowedBefore(stream', j, d)
    BY <1>a, <1>2, <1>5, <1>9 DEF OnRecord
  <2>3. \A h, j \in Live' : \A k, m \in CallsOnRecord :
          h < j /\ stream'[k].id = Calls[h].id /\ stream'[m].id = Calls[j].id => k < m
    BY <1>a, <1>2, <1>9 DEF OnRecord
  <2>4. ASSUME NEW h \in Live', NEW j \in ResultsOnRecord'
        PROVE  stream'[j].id # Calls[h].id
    <3>1. CASE j = n
      BY <1>4, <1>11, <3>1
    <3>2. CASE j \in ResultsOnRecord
      BY <1>a, <1>3, <1>9, <3>2 DEF OnRecord
    <3>3. QED
      BY <1>1, <3>1, <3>2
  <2>5. ASSUME NEW j \in ResultsOnRecord'
        PROVE  \E k \in CallsOnRecord : stream'[j].id = stream'[k].id
    <3>1. CASE j = n
      BY <1>2, <1>4, <1>7, <3>1
    <3>2. CASE j \in ResultsOnRecord
      BY <1>a, <1>2, <1>3, <3>2 DEF OnRecord
    <3>3. QED
      BY <1>1, <3>1, <3>2
  <2>6. QED
    BY <1>1, <1>6, <2>1, <2>2, <2>3, <2>4, <2>5 DEF OnRecord
<1>15. InOrder'
  <2>1. ASSUME NEW k \in CallsOnRecord', NEW m \in CallsOnRecord', NEW h \in ResultsOnRecord',
               NEW j \in ResultsOnRecord', stream'[h].id = stream'[k].id, stream'[j].id = stream'[m].id
        PROVE  k < m <=> h < j
    <3>1. /\ k \in CallsOnRecord
          /\ \/ h = n /\ k = c
             \/ h \in ResultsOnRecord /\ stream[h].id = stream[k].id /\ h < n /\ k < c
      BY <1>13, <2>1
    <3>2. /\ m \in CallsOnRecord
          /\ \/ j = n /\ m = c
             \/ j \in ResultsOnRecord /\ stream[j].id = stream[m].id /\ j < n /\ m < c
      BY <1>13, <2>1
    <3>3. CASE h \in ResultsOnRecord /\ stream[h].id = stream[k].id /\ j \in ResultsOnRecord /\ stream[j].id = stream[m].id
      BY <1>b, <3>1, <3>2, <3>3 DEF InOrder
    <3>4. CASE (h = n /\ k = c) \/ (j = n /\ m = c)
      <4>1. /\ k \in Nat /\ m \in Nat /\ c \in Nat /\ n \in Nat
            /\ h # n => h \in Nat
            /\ j # n => j \in Nat
        BY <1>2, <1>3, <1>4, <3>1, <3>2
      <4>2. QED
        BY <3>1, <3>2, <3>4, <4>1
    <3>5. QED
      BY <3>1, <3>2, <3>3, <3>4
  <2>2. ASSUME NEW h \in Live', NEW k \in CallsOnRecord', NEW m \in CallsOnRecord',
               NEW j \in ResultsOnRecord', stream'[j].id = stream'[k].id, stream'[m].id = Calls[h].id
        PROVE  k < m
    <3>1. m \in CallsOnRecord /\ stream[m].id = Calls[h].id /\ h \in Live
      BY <1>1, <1>2, <1>9, <2>2
    <3>2. c < m /\ c \in Nat /\ m \in Nat /\ k \in Nat
      BY <1>1, <1>2, <1>10, <3>1
    <3>3. k = c \/ k < c
      BY <1>13, <2>2
    <3>4. QED
      BY <3>2, <3>3
  <2>3. QED
    BY <2>1, <2>2 DEF InOrder
<1>16. Accounted'
  <2>1. ASSUME lost' = 0, NEW k \in CallsOnRecord'
        PROVE  \/ \E j \in ResultsOnRecord' : stream'[j].id = stream'[k].id
               \/ \E h \in Live' : stream'[k].id = Calls[h].id
    <3>1. k \in CallsOnRecord /\ stream'[k].id = stream[k].id
      BY <1>1, <1>2
    <3>2. CASE \E j \in ResultsOnRecord : stream[j].id = stream[k].id
      BY <1>1, <1>3, <3>1, <3>2
    <3>3. CASE \E h \in Live : stream[k].id = Calls[h].id
      <4>1. PICK h \in Live : stream[k].id = Calls[h].id
        BY <3>3
      <4>2. CASE h = i
        BY <1>1, <1>4, <3>1, <4>1, <4>2
      <4>3. CASE h # i
        BY <3>1, <4>1, <4>3
      <4>4. QED
        BY <4>2, <4>3
    <3>4. QED
      BY <1>c, <2>1, <3>1, <3>2, <3>3 DEF Accounted
  <2>2. QED
    BY <2>1 DEF Accounted
<1>17. QED
  BY <1>14, <1>15, <1>16 DEF Recorded

-----------------------------------------------------------------------------
(* The steps. *)

\* A set of positions has the least element it says it has.
LEMMA LeastIs ==
  ASSUME NEW S \in SUBSET Positions, NEW k \in S, \A j \in S : k <= j
  PROVE  Min(S) = k
<1>1. \A j \in S : j \in Nat
  BY CallsAre
<1>2. Min(S) \in S /\ \A j \in S : Min(S) <= j
  BY DEF Min
<1>3. QED
  BY <1>1, <1>2

\* The calls that have a result to come, after a step of one call.
LEMMA LiveAt ==
  ASSUME call \in [Positions -> [at : Wheres, result : Results]],
         NEW i \in Positions, NEW where \in Wheres, NEW result \in Results, At(i, where, result)
  PROVE  /\ where \in {"called", "running", "ended"} => Live' = Live \cup {i}
         /\ where \notin {"called", "running", "ended"} => Live' = Live \ {i}
BY AtIs DEF Live

\* What the invariant says while the batch goes on.
Going == stage \notin {"cancelled", "raised"}

LEMMA WhileGoing ==
  ASSUME BatchInv, Going
  PROVE  BatchTypes /\ OwnResults /\ Together /\ Course /\ Recorded
BY DEF BatchInv, Going

LEMMA DealtIs ==
  ASSUME BatchTypes, OwnResults
  PROVE  Dealt \in Nat /\ Dealt <= Len(Calls) /\ DOMAIN outcomes = 1..Dealt
<1>1. Dealt \in Nat /\ DOMAIN outcomes = 1..Dealt
  BY DEF BatchTypes, Dealt
<1>2. CASE Dealt = 0
  BY <1>1, <1>2, CallsAre
<1>3. CASE Dealt # 0
  <2>1. Dealt \in DOMAIN outcomes
    BY <1>1, <1>3
  <2>2. Dealt \in 1..Len(Calls)
    BY <2>1, CallsAre DEF OwnResults
  <2>3. QED
    BY <1>1, <2>2, CallsAre
<1>4. QED
  BY <1>2, <1>3

LEMMA NextGroupStep ==
  ASSUME BatchInv, NextGroup
  PROVE  BatchInv'
<1>1. BatchTypes /\ OwnResults /\ Together /\ Course /\ Recorded
  BY WhileGoing DEF Going, NextGroup
<1>2. Dealt \in Nat /\ pos = Dealt + 1 /\ pos \in Positions
  BY <1>1, DealtIs, CallsAre DEF NextGroup, Course
<1>3. /\ group' \in SUBSET Positions /\ pos \in group'
      /\ \A j \in group' : j >= pos /\ \A i \in pos..j : i \in group'
      /\ \A i, j \in group' : i # j => Calls[i].safe
  BY <1>2, GroupIs DEF NextGroup
<1>4. BatchTypes'
  BY <1>1, <1>3 DEF BatchTypes, NextGroup, Stages
<1>5. OwnResults'
  BY <1>1 DEF OwnResults, NextGroup
<1>6. Together'
  BY <1>1, <1>3 DEF Together, NextGroup
<1>7. Course'
  <2>1. \A i \in Positions : i > Dealt => call[i] = Fresh
    BY <1>1, <1>2, CallsAre DEF Course, NextGroup
  <2>2. \A i \in Positions : i <= Dealt => call[i].at = "recorded"
    BY <1>1 DEF Course
  <2>3. \A i \in group' : i \in Positions /\ i \in Nat /\ i >= Dealt + 1
    BY <1>2, <1>3, CallsAre
  <2>4. Dealt' = Dealt /\ pos' = pos /\ call' = call /\ stage' = "preparing"
    BY DEF Dealt, NextGroup
  <2>5. Consecutive'
    BY <1>2, <1>3, <2>4 DEF Consecutive
  <2>6. \A i \in group' : i > Dealt /\ call[i] = Fresh
    BY <1>2, <2>1, <2>3
  <2>7. Fresh.at = "waiting"
    BY DEF Fresh
  <2>8. QED
    BY <1>2, <1>3, <2>1, <2>2, <2>4, <2>5, <2>6, <2>7 DEF Course
<1>8. Recorded'
  <2>1. Live' = Live /\ stream' = stream /\ lost' = lost /\ call' = call
    BY DEF Live, NextGroup
  <2>2. QED
    BY <1>1, <2>1, RecordKept DEF BatchTypes
<1>9. QED
  BY <1>4, <1>5, <1>6, <1>7, <1>8 DEF BatchInv

LEMMA DoneStep ==
  ASSUME BatchInv, Done
  PROVE  BatchInv'
<1>1. BatchTypes /\ OwnResults /\ Together /\ Course /\ Recorded
  BY WhileGoing DEF Going, Done
<1>2. Dealt = Len(Calls)
  BY <1>1, DealtIs, CallsAre DEF Done, Course
<1>3. BatchTypes'
  BY <1>1 DEF BatchTypes, Done, Stages
<1>4. OwnResults'
  BY <1>1 DEF OwnResults, Done
<1>5. Together'
  BY <1>1 DEF Together, Done
<1>6. Course'
  BY <1>1, <1>2 DEF Course, Done, Dealt
<1>7. Recorded'
  <2>1. Live' = Live /\ stream' = stream /\ lost' = lost /\ call' = call
    BY DEF Live, Done
  <2>2. QED
    BY <1>1, <2>1, RecordKept DEF BatchTypes
<1>8. QED
  BY <1>3, <1>4, <1>5, <1>6, <1>7 DEF BatchInv

\* The call that is being prepared is refused or put on record, and the next one
\* is taken.
LEMMA PreparedCourse ==
  ASSUME BatchTypes, OwnResults, Course, NEW i, Preparing(i),
         NEW where \in {"refused", "called"}, NEW result \in Results, At(i, where, result),
         pos' = pos + 1, group' = group, stage' = stage, outcomes' = outcomes
  PROVE  Course'
<1>1. i = pos /\ i \in group /\ i \in Positions /\ stage = "preparing" /\ where \in Wheres
  BY DEF Preparing, BatchTypes, Wheres
<1>2. call'[i].at = where /\ \A j \in Positions : j # i => call'[j] = call[j]
  BY <1>1, AtIs DEF BatchTypes
<1>3. Dealt' = Dealt /\ Dealt \in Nat /\ (Consecutive' <=> Consecutive) /\ pos \in Nat
  <2>1. Dealt' = Dealt
    BY DEF Dealt
  <2>2. Dealt \in Nat
    BY DealtIs
  <2>3. Consecutive' <=> Consecutive
    BY <2>1 DEF Consecutive
  <2>4. QED
    BY <2>1, <2>2, <2>3 DEF BatchTypes
<1>4. \A j \in group : j \in Positions /\ j \in Nat /\ j > Dealt
  <2>1. \A j \in group : j \in Positions
    BY DEF BatchTypes
  <2>2. \A j \in group : j > Dealt
    BY <1>1 DEF Course
  <2>3. QED
    BY <2>1, <2>2, CallsAre
<1>5. /\ \A j \in Positions : j <= Dealt => call'[j].at = "recorded"
      /\ \A j \in Positions : j > Dealt /\ j \notin group => call'[j] = Fresh
  BY <1>1, <1>2, <1>4 DEF Course
<1>6. \A j \in group : j < pos + 1 => call'[j].at \in {"refused", "called"}
  BY <1>1, <1>2, <1>3, <1>4 DEF Course
<1>7. \A j \in group : j > pos => call'[j] = Fresh
  BY <1>1, <1>2, <1>3, <1>4 DEF Course
<1>8. \A j \in group : /\ j = pos + 1 => call'[j].at \in {"waiting", "allowed"}
                       /\ j > pos + 1 => call'[j] = Fresh
  BY <1>3, <1>4, <1>7 DEF Fresh
<1>9. Dealt + 1 \in group /\ Consecutive /\ pos > Dealt
  BY <1>1 DEF Course
<1>10. QED
  BY <1>1, <1>3, <1>4, <1>5, <1>6, <1>8, <1>9 DEF Course

\* The call that is being prepared comes after the live ones.
LEMMA LiveBefore ==
  ASSUME BatchTypes, OwnResults, Course, NEW i, Preparing(i)
  PROVE  i \in Positions /\ i \notin Live /\ \A j \in Live : j < i
<1>1. i = pos /\ i \in group /\ i \in Positions /\ stage = "preparing" /\ pos \in Nat
  BY DEF Preparing, BatchTypes
<1>2. ASSUME NEW j \in Live
      PROVE  j < i
  <2>1. j \in Positions /\ j \in Nat /\ call[j].at \in {"called", "running", "ended"} /\ Dealt \in Nat
    BY CallsAre, DealtIs DEF Live
  <2>2. j > Dealt /\ j \in group
    BY <2>1 DEF Course, Fresh
  <2>3. ~(j = pos) /\ ~(j > pos)
    BY <1>1, <2>1, <2>2 DEF Course, Fresh
  <2>4. QED
    BY <1>1, <2>1, <2>3
<1>3. i \notin Live
  BY <1>1, <1>2
<1>4. QED
  BY <1>1, <1>2, <1>3

\* Types and results after a step of the call that is being prepared.
LEMMA PreparedTypes ==
  ASSUME BatchTypes, OwnResults, Together, NEW i, Preparing(i),
         NEW where \in {"allowed", "refused", "called"}, NEW result \in Results, At(i, where, result),
         where = "refused" => result \in Refusals,
         pos' \in {pos, pos + 1}, group' = group, stage' = stage, outcomes' = outcomes,
         stream' \in Seq(EventType), lost' \in Nat
  PROVE  BatchTypes' /\ OwnResults' /\ Together'
<1>1. i \in Positions /\ where \in Wheres /\ stage = "preparing"
  BY DEF Preparing, BatchTypes, Wheres
<1>2. /\ call' \in [Positions -> [at : Wheres, result : Results]]
      /\ call'[i].at = where /\ call'[i].result = result
      /\ \A j \in Positions : j # i => call'[j] = call[j]
  BY <1>1, AtIs DEF BatchTypes
<1>3. BatchTypes'
  BY <1>2 DEF BatchTypes
<1>4. OwnResults'
  BY <1>2 DEF OwnResults
<1>5. Together'
  BY <1>1, <1>2 DEF Together
<1>6. QED
  BY <1>3, <1>4, <1>5

\* What holds while call i is being prepared.
LEMMA WhilePreparing ==
  ASSUME BatchInv, NEW i, Preparing(i)
  PROVE  /\ BatchTypes /\ OwnResults /\ Together /\ Course /\ Recorded
         /\ i \in Positions /\ i \notin Live /\ \A j \in Live : j < i
<1>1. stage = "preparing"
  BY DEF Preparing
<1>2. BatchTypes /\ OwnResults /\ Together /\ Course /\ Recorded
  BY <1>1 DEF BatchInv
<1>3. QED
  BY <1>2, LiveBefore

\* A step of a call without a result to come: the live calls after it, and no
\* other call is allowed by it.
LEMMA Moved ==
  ASSUME BatchTypes, NEW i \in Positions, NEW where \in Wheres, NEW result \in Results, At(i, where, result)
  PROVE  /\ where \in {"called", "running", "ended"} => Live' = Live \cup {i}
         /\ where \notin {"called", "running", "ended"} => Live' = Live \ {i}
         /\ \A j \in Positions : call'[j].at = "allowed" => call[j].at = "allowed" \/ (j = i /\ where = "allowed")
<1>1. call \in [Positions -> [at : Wheres, result : Results]]
  BY DEF BatchTypes
<1>2. call'[i].at = where /\ \A j \in Positions : j # i => call'[j] = call[j]
  BY <1>1, AtIs
<1>3. QED
  BY <1>1, <1>2, LiveAt

\* A refusal that leaves no event.
LEMMA RefusedStep ==
  ASSUME BatchInv, NEW i, Preparing(i), call[i].at \in {"waiting", "allowed"},
         NEW result \in Refusals, At(i, "refused", result), pos' = pos + 1,
         stream' = stream, group' = group, stage' = stage, outcomes' = outcomes,
         lost' \in Nat, lost' >= lost
  PROVE  BatchInv'
<1>1. BatchTypes /\ OwnResults /\ Together /\ Course /\ Recorded
  BY WhilePreparing
<1>2. i \in Positions /\ i \notin Live
  BY WhilePreparing
<1>3. result \in Results /\ "refused" \in Wheres /\ stream' \in Seq(EventType) /\ lost \in Nat
  BY <1>1 DEF Results, Wheres, BatchTypes
<1>4. BatchTypes' /\ OwnResults' /\ Together'
  BY <1>1, <1>3, PreparedTypes
<1>5. Course'
  BY <1>1, <1>3, PreparedCourse
<1>6. Live' = Live \ {i} /\ \A j \in Positions : call'[j].at = "allowed" => call[j].at = "allowed"
  BY <1>1, <1>2, <1>3, Moved
<1>7. Live' = Live
  BY <1>2, <1>6
<1>8. Recorded'
  BY <1>1, <1>3, <1>6, <1>7, RecordKept
<1>9. QED
  BY <1>4, <1>5, <1>8 DEF BatchInv

LEMMA InvalidStep ==
  ASSUME BatchInv, NEW i, Invalid(i)
  PROVE  BatchInv'
<1>1. lost \in Nat /\ lost' = lost /\ "invalid" \in Refusals
  BY DEF BatchInv, BatchTypes, Invalid, Refusals
<1>2. lost' \in Nat /\ lost' >= lost
  BY <1>1
<1>3. QED
  BY <1>1, <1>2, RefusedStep DEF Invalid

LEMMA PrepareLostStep ==
  ASSUME BatchInv, NEW i, PrepareLost(i)
  PROVE  BatchInv'
<1>1. lost \in Nat /\ lost' = lost + 1 /\ "lost" \in Refusals
  BY DEF BatchInv, BatchTypes, PrepareLost, Refusals
<1>2. lost' \in Nat /\ lost' >= lost
  BY <1>1
<1>3. QED
  BY <1>1, <1>2, RefusedStep DEF PrepareLost

\* The decision on the call that is being prepared.
LEMMA DecidedRecord ==
  ASSUME BatchInv, NEW i, Preparing(i), NEW ref \in {"allow", "deny"}, NEW result \in Results,
         stream' = Append(stream, Event("policy/decision", Calls[i].id, ref, 0)),
         NEW where \in {"allowed", "refused"}, where = "allowed" => ref = "allow",
         At(i, where, result), lost' = lost
  PROVE  stream' \in Seq(EventType) /\ Recorded'
<1> DEFINE e == Event("policy/decision", Calls[i].id, ref, 0)
<1>1. BatchTypes /\ Recorded /\ i \in Positions /\ i \notin Live
  BY WhilePreparing
<1>2. "policy/decision" \in Names /\ ref \in Refs
  BY DEF Names, Refs
<1>3. e \in EventType /\ e.type = "policy/decision" /\ e.id = Calls[i].id /\ e.ref = ref
  BY <1>1, <1>2, EventTyped
<1>4. stream' = Append(stream, e)
  OBVIOUS
<1> HIDE DEF e
<1>5. Grows(e)
  BY <1>1, <1>3, <1>4 DEF Grows, BatchTypes
<1>6. stream' \in Seq(EventType)
  BY <1>5 DEF Grows
<1>7. where \in Wheres /\ where \notin {"called", "running", "ended"}
  BY DEF Wheres
<1>8. Live' = Live \ {i} /\ \A j \in Positions : call'[j].at = "allowed" => call[j].at = "allowed" \/ (j = i /\ where = "allowed")
  BY <1>1, <1>7, Moved
<1>9. Live' = Live
  BY <1>1, <1>8
<1>10. \A j \in Positions : call'[j].at = "allowed" =>
         call[j].at = "allowed" \/ (e.id = Calls[j].id /\ e.ref = "allow")
  BY <1>3, <1>8
<1>11. Recorded'
  BY <1>1, <1>3, <1>5, <1>9, <1>10, RecordDecided
<1>12. QED
  BY <1>6, <1>11

LEMMA DeniedStep ==
  ASSUME BatchInv, NEW i, Denied(i)
  PROVE  BatchInv'
<1>1. /\ Preparing(i) /\ At(i, "refused", "denied") /\ pos' = pos + 1 /\ group' = group
      /\ stage' = stage /\ outcomes' = outcomes /\ lost' = lost
      /\ stream' = Append(stream, Event("policy/decision", Calls[i].id, "deny", 0))
  BY DEF Denied
<1>2. BatchTypes /\ OwnResults /\ Together /\ Course
  BY <1>1, WhilePreparing
<1>3. "denied" \in Refusals /\ "denied" \in Results /\ lost' \in Nat
  BY <1>1, <1>2 DEF Refusals, Results, BatchTypes
<1>4. stream' \in Seq(EventType) /\ Recorded'
  BY <1>1, <1>3, DecidedRecord
<1>5. BatchTypes' /\ OwnResults' /\ Together'
  BY <1>1, <1>2, <1>3, <1>4, PreparedTypes
<1>6. Course'
  BY <1>1, <1>2, <1>3, PreparedCourse
<1>7. QED
  BY <1>4, <1>5, <1>6 DEF BatchInv

LEMMA AllowedStep ==
  ASSUME BatchInv, NEW i, Allowed(i)
  PROVE  BatchInv'
<1>1. /\ Preparing(i) /\ At(i, "allowed", "none") /\ pos' = pos /\ group' = group
      /\ stage' = stage /\ outcomes' = outcomes /\ lost' = lost
      /\ stream' = Append(stream, Event("policy/decision", Calls[i].id, "allow", 0))
  BY DEF Allowed
<1>2. BatchTypes /\ OwnResults /\ Together /\ Course
  BY <1>1, WhilePreparing
<1>3. "none" \in Results /\ lost' \in Nat
  BY <1>1, <1>2 DEF Results, BatchTypes
<1>4. stream' \in Seq(EventType) /\ Recorded'
  BY <1>1, <1>3, DecidedRecord
<1>5. BatchTypes' /\ OwnResults' /\ Together'
  BY <1>1, <1>2, <1>3, <1>4, PreparedTypes
<1>6. Course'
  <2>1. i = pos /\ i \in group /\ i \in Positions /\ stage = "preparing" /\ "allowed" \in Wheres
    BY <1>1, <1>2 DEF Preparing, BatchTypes, Wheres
  <2>2. call'[i].at = "allowed" /\ \A j \in Positions : j # i => call'[j] = call[j]
    <3>1. call \in [Positions -> [at : Wheres, result : Results]]
      BY <1>2 DEF BatchTypes
    <3>2. QED
      BY <1>1, <1>3, <2>1, <3>1, AtIs
  <2>3. Dealt' = Dealt
    BY <1>1 DEF Dealt
  <2>4. Consecutive' <=> Consecutive
    BY <1>1, <2>3 DEF Consecutive
  <2>5. \A j \in group : j \in Positions /\ j \in Nat /\ j > Dealt
    BY <1>2, <2>1, CallsAre DEF BatchTypes, Course
  <2>6. Dealt \in Nat /\ pos \in Nat
    BY <1>2, DealtIs DEF BatchTypes
  <2>7. /\ \A j \in Positions : j <= Dealt => call'[j].at = "recorded"
        /\ \A j \in Positions : j > Dealt /\ j \notin group => call'[j] = Fresh
    BY <1>2, <2>1, <2>2, <2>5, <2>6 DEF Course
  <2>8. \A j \in group : /\ j < pos => call'[j].at \in {"refused", "called"}
                         /\ j = pos => call'[j].at \in {"waiting", "allowed"}
                         /\ j > pos => call'[j] = Fresh
    BY <1>2, <2>1, <2>2, <2>5, <2>6 DEF Course
  <2>9. Dealt + 1 \in group /\ Consecutive /\ pos > Dealt
    BY <1>2, <2>1 DEF Course
  <2>10. QED
    BY <1>1, <2>1, <2>3, <2>4, <2>5, <2>7, <2>8, <2>9 DEF Course
<1>7. QED
  BY <1>4, <1>5, <1>6 DEF BatchInv

\* The call is put on record: the lifecycle check found no call of its id there.
LEMMA CalledStep ==
  ASSUME BatchInv, NEW i, Preparing(i), call[i].at = "allowed", At(i, "called", "none"),
         ~Has(stream, "tool/call", Calls[i].id),
         stream' = Append(stream, Event("tool/call", Calls[i].id, "none", 0)),
         pos' = pos + 1, group' = group, stage' = stage, outcomes' = outcomes, lost' = lost
  PROVE  BatchInv'
<1> DEFINE e == Event("tool/call", Calls[i].id, "none", 0)
<1>1. BatchTypes /\ OwnResults /\ Together /\ Course /\ Recorded
  BY WhilePreparing
<1>2. i \in Positions /\ i \notin Live /\ \A j \in Live : j < i
  BY WhilePreparing
<1>3. "tool/call" \in Names /\ "none" \in Refs /\ "none" \in Results /\ "called" \in Wheres /\ lost' \in Nat
  BY <1>1 DEF Names, Refs, Results, Wheres, BatchTypes
<1>4. e \in EventType /\ e.type = "tool/call" /\ e.id = Calls[i].id
  BY <1>2, <1>3, EventTyped
<1>5. stream' = Append(stream, e)
  OBVIOUS
<1> HIDE DEF e
<1>6. Grows(e)
  BY <1>1, <1>4, <1>5 DEF Grows, BatchTypes
<1>7. stream' \in Seq(EventType)
  BY <1>6 DEF Grows
<1>8. Live' = Live \cup {i} /\ \A j \in Positions : call'[j].at = "allowed" => call[j].at = "allowed"
  BY <1>1, <1>2, <1>3, Moved
<1>9. ~Has(stream, "tool/call", e.id)
  BY <1>4
<1>10. Recorded'
  BY <1>1, <1>2, <1>4, <1>6, <1>8, <1>9, RecordCalled
<1>11. BatchTypes' /\ OwnResults' /\ Together'
  BY <1>1, <1>3, <1>7, PreparedTypes
<1>12. Course'
  BY <1>1, <1>3, PreparedCourse
<1>13. QED
  BY <1>10, <1>11, <1>12 DEF BatchInv

LEMMA RecordStep ==
  ASSUME BatchInv, NEW i, Record(i)
  PROVE  BatchInv'
<1> DEFINE e == Event("tool/call", Calls[i].id, "none", 0)
<1>1. /\ Preparing(i) /\ call[i].at = "allowed"
      /\ pos' = pos + 1 /\ group' = group /\ stage' = stage /\ outcomes' = outcomes /\ lost' = lost
  BY DEF Record
<1>2. CASE Accepts(stream, e)
  <2>1. stream' = Append(stream, e) /\ At(i, "called", "none")
    BY <1>2 DEF Record
  <2>2. e.type = "tool/call" /\ e.id = Calls[i].id
    BY DEF Event
  <2>3. ~Has(stream, "tool/call", Calls[i].id)
    BY <1>2, <2>2 DEF Accepts, AcceptsCall
  <2>4. QED
    BY <1>1, <2>1, <2>3, CalledStep
<1>3. CASE ~Accepts(stream, e)
  <2>1. stream' = stream /\ At(i, "refused", "repeated")
    BY <1>3 DEF Record
  <2>2. "repeated" \in Refusals /\ lost \in Nat
    BY DEF Refusals, BatchInv, BatchTypes
  <2>3. lost' \in Nat /\ lost' >= lost
    BY <1>1, <2>2
  <2>4. QED
    BY <1>1, <2>1, <2>2, <2>3, RefusedStep
<1>4. QED
  BY <1>2, <1>3

\* The calls on record are invoked.
LEMMA InvokeStep ==
  ASSUME BatchInv, Invoke
  PROVE  BatchInv'
<1>1. /\ stage = "preparing" /\ pos \notin group /\ stage' = "running" /\ stream' = stream
      /\ pos' = pos /\ group' = group /\ outcomes' = outcomes /\ lost' = lost
      /\ call' = [i \in Positions |-> IF i \in Ready THEN [call[i] EXCEPT !.at = "running"] ELSE call[i]]
  BY DEF Invoke
<1>2. BatchTypes /\ OwnResults /\ Together /\ Course /\ Recorded
  BY <1>1 DEF BatchInv
<1>3. call \in [Positions -> [at : Wheres, result : Results]] /\ group \in SUBSET Positions /\ lost \in Nat
  BY <1>2 DEF BatchTypes
<1>4. \A i \in Positions : /\ call[i].at # "running"
                           /\ i \in Ready <=> i \in group /\ call[i].at = "called"
  BY <1>1, <1>2, <1>3 DEF Together, Ready
<1>5. \A i \in Positions : /\ i \in Ready => call'[i].at = "running"
                           /\ i \notin Ready => call'[i] = call[i]
  BY <1>1, <1>3
<1>6. call' \in [Positions -> [at : Wheres, result : Results]]
  BY <1>1, <1>3 DEF Wheres
<1>7. \A i \in group : i \in Positions /\ i \in Nat /\ i > Dealt /\ call[i].at \in {"refused", "called"}
  <2>1. Dealt \in Nat /\ pos \in Nat /\ pos > Dealt
    BY <1>1, <1>2, DealtIs DEF BatchTypes, Course
  <2>2. TAKE i \in group
  <2>3. i \in Positions /\ i \in Nat
    BY <1>3, CallsAre
  <2>4. i > Dealt /\ Consecutive
    BY <1>1, <1>2 DEF Course
  <2>5. i < pos
    <3>1. i # pos
      BY <1>1
    <3>2. CASE i > pos
      <4>1. pos \in Dealt + 1..i
        BY <2>1, <2>3, <3>2
      <4>2. QED
        BY <1>1, <2>4, <4>1 DEF Consecutive
    <3>3. QED
      BY <2>1, <2>3, <3>1, <3>2
  <2>6. QED
    BY <1>1, <1>2, <2>3, <2>4, <2>5 DEF Course
<1>8. BatchTypes'
  BY <1>1, <1>2, <1>6 DEF BatchTypes, Stages
<1>9. OwnResults'
  BY <1>1, <1>2, <1>5 DEF OwnResults
<1>10. Together'
  BY <1>1, <1>2, <1>4, <1>5 DEF Together
<1>11. Course'
  <2>1. Dealt' = Dealt
    BY <1>1 DEF Dealt
  <2>2. Consecutive' <=> Consecutive
    BY <1>1, <2>1 DEF Consecutive
  <2>3. /\ \A i \in Positions : i <= Dealt => call'[i].at = "recorded"
        /\ \A i \in Positions : i > Dealt /\ i \notin group => call'[i] = Fresh
    BY <1>2, <1>4, <1>5 DEF Course
  <2>4. \A i \in group : call'[i].at \in {"refused", "running", "ended"}
    BY <1>4, <1>5, <1>7
  <2>5. Dealt + 1 \in group /\ Consecutive
    BY <1>1, <1>2 DEF Course
  <2>6. QED
    BY <1>1, <1>7, <2>1, <2>2, <2>3, <2>4, <2>5 DEF Course
<1>12. Recorded'
  <2>1. Live' = Live
    BY <1>4, <1>5 DEF Live
  <2>2. \A i \in Positions : call'[i].at = "allowed" => call[i].at = "allowed"
    BY <1>5
  <2>3. lost' >= lost
    BY <1>1, <1>3
  <2>4. QED
    BY <1>1, <1>2, <1>3, <2>1, <2>2, <2>3, RecordKept
<1>13. QED
  BY <1>8, <1>9, <1>10, <1>11, <1>12 DEF BatchInv

\* A handler ends.
LEMMA EndsStep ==
  ASSUME BatchInv, NEW i \in Positions, Ends(i)
  PROVE  BatchInv'
<1>1. /\ stage \in {"running", "stopping"} /\ call[i].at = "running" /\ stream' = stream /\ stage' = stage
      /\ pos' = pos /\ group' = group /\ outcomes' = outcomes /\ lost' = lost
  BY DEF Ends
<1>2. PICK result \in {Calls[i].id, "error"} : At(i, "ended", result)
  BY DEF Ends
<1>3. BatchTypes /\ OwnResults /\ Together /\ Course /\ Recorded
  BY <1>1 DEF BatchInv
<1>4. "ended" \in Wheres /\ result \in Results /\ i \in group /\ lost \in Nat
  BY <1>1, <1>3, CallsAre DEF Wheres, Results, Together, BatchTypes
<1>5. call \in [Positions -> [at : Wheres, result : Results]]
  BY <1>3 DEF BatchTypes
<1>6. /\ call' \in [Positions -> [at : Wheres, result : Results]]
      /\ call'[i].at = "ended" /\ call'[i].result = result
      /\ \A j \in Positions : j # i => call'[j] = call[j]
  BY <1>2, <1>4, <1>5, AtIs
<1>7. BatchTypes'
  BY <1>1, <1>3, <1>6 DEF BatchTypes
<1>8. OwnResults'
  BY <1>1, <1>3, <1>6 DEF OwnResults
<1>9. Together'
  BY <1>1, <1>3, <1>6 DEF Together
<1>10. Course'
  <2>1. Dealt' = Dealt
    BY <1>1 DEF Dealt
  <2>2. Consecutive' <=> Consecutive
    BY <1>1, <2>1 DEF Consecutive
  <2>3. /\ Dealt + 1 \in group /\ Consecutive /\ \A j \in group : j > Dealt
        /\ \A j \in group : call[j].at \in {"refused", "running", "ended"}
    BY <1>1, <1>3 DEF Course
  <2>4. \A j \in Positions : j > Dealt /\ j \notin group => call'[j] = Fresh
    BY <1>3, <1>4, <1>6 DEF Course
  <2>5. \A j \in Positions : j <= Dealt => call'[j].at = "recorded"
    <3>1. i > Dealt /\ i \in Nat /\ Dealt \in Nat
      BY <1>3, <1>4, <2>3, CallsAre, DealtIs
    <3>2. ~(i <= Dealt)
      BY <3>1
    <3>3. QED
      BY <1>3, <1>6, <3>2 DEF Course
  <2>6. \A j \in group : call'[j].at \in {"refused", "running", "ended"}
    <3>1. group \subseteq Positions
      BY <1>3 DEF BatchTypes
    <3>2. QED
      BY <1>6, <2>3, <3>1
  <2>7. QED
    BY <1>1, <2>1, <2>2, <2>3, <2>4, <2>5, <2>6 DEF Course
<1>11. Recorded'
  <2>1. i \in Live
    BY <1>1 DEF Live
  <2>2. Live' = Live \cup {i} /\ \A j \in Positions : call'[j].at = "allowed" => call[j].at = "allowed"
    BY <1>2, <1>3, <1>4, Moved
  <2>3. Live' = Live /\ lost' >= lost /\ lost' \in Nat
    BY <1>1, <1>4, <2>1, <2>2
  <2>4. QED
    BY <1>1, <1>3, <1>4, <2>2, <2>3, RecordKept
<1>12. QED
  BY <1>7, <1>8, <1>9, <1>10, <1>11 DEF BatchInv

\* The results are dealt out to the calls they came from.
LEMMA CollectStep ==
  ASSUME BatchInv, Collect
  PROVE  BatchInv'
<1> DEFINE prepared == {i \in group : call[i].at = "ended"}
<1>1. /\ stage = "running" /\ stage' = "recording" /\ pos' = Min(group) /\ stream' = stream
      /\ group' = group /\ outcomes' = outcomes /\ lost' = lost
      /\ \A i \in group : call[i].at # "running"
      /\ call' = [i \in Positions |->
                    IF i \in prepared
                    THEN [call[i] EXCEPT !.result = call[AtPlace(prepared, Place(prepared, i))].result]
                    ELSE call[i]]
  BY DEF Collect
<1>2. BatchTypes /\ OwnResults /\ Together /\ Course /\ Recorded
  BY <1>1 DEF BatchInv
<1>3. call \in [Positions -> [at : Wheres, result : Results]] /\ group \in SUBSET Positions /\ lost \in Nat
  BY <1>2 DEF BatchTypes
<1>4. call' = call
  <2>1. prepared \in SUBSET Positions
    BY <1>3
  <2> HIDE DEF prepared
  <2>2. \A i \in prepared : AtPlace(prepared, Place(prepared, i)) = i
    BY <2>1, PlaceIsOwn
  <2>3. \A i \in Positions : call[i] = [call[i] EXCEPT !.result = call[i].result]
    BY <1>3
  <2>4. call' = [i \in Positions |-> call[i]]
    BY <1>1, <2>2, <2>3
  <2>5. QED
    BY <1>3, <2>4
<1>5. Dealt + 1 \in group /\ Consecutive /\ \A i \in group : i > Dealt
  BY <1>1, <1>2 DEF Course
<1>6. pos' = Dealt + 1 /\ Dealt \in Nat
  <2>1. Dealt \in Nat
    BY <1>2, DealtIs
  <2>2. \A i \in group : i \in Nat
    BY <1>3, CallsAre
  <2>3. \A i \in group : Dealt + 1 <= i
    BY <1>5, <2>1, <2>2
  <2>4. QED
    BY <1>1, <1>3, <1>5, <2>1, <2>3, LeastIs
<1>7. BatchTypes'
  BY <1>1, <1>2, <1>4, <1>6 DEF BatchTypes, Stages
<1>8. OwnResults'
  BY <1>1, <1>2, <1>4 DEF OwnResults
<1>9. Together'
  BY <1>1, <1>2, <1>4 DEF Together
<1>10. Course'
  <2>1. Dealt' = Dealt
    BY <1>1 DEF Dealt
  <2>2. Consecutive' <=> Consecutive
    BY <1>1, <2>1 DEF Consecutive
  <2>3. \A i \in group : call[i].at \in {"refused", "ended"}
    BY <1>1, <1>2 DEF Course
  <2>4. QED
    BY <1>1, <1>2, <1>4, <1>5, <1>6, <2>1, <2>2, <2>3 DEF Course
<1>11. Recorded'
  <2>1. Live' = Live /\ lost' >= lost
    BY <1>1, <1>3, <1>4 DEF Live
  <2>2. QED
    BY <1>1, <1>2, <1>3, <1>4, <2>1, RecordKept
<1>12. QED
  BY <1>7, <1>8, <1>9, <1>10, <1>11 DEF BatchInv

\* While the outcomes are handed over, one call at a time.
LEMMA WhileRecording ==
  ASSUME BatchInv, stage = "recording", pos \in group
  PROVE  /\ BatchTypes /\ OwnResults /\ Together /\ Course /\ Recorded
         /\ pos = Dealt + 1 /\ Dealt \in Nat /\ pos \in Positions /\ pos \in Nat
         /\ call[pos].at \in {"refused", "ended"} /\ \A j \in Live \ {pos} : pos < j
<1>1. BatchTypes /\ OwnResults /\ Together /\ Course /\ Recorded
  BY DEF BatchInv
<1>2. Dealt \in Nat
  BY <1>1, DealtIs
<1>3. pos = Dealt + 1 /\ \A i \in group : i > Dealt => call[i].at \in {"refused", "ended"}
  BY <1>1 DEF Course
<1>4. pos \in Positions /\ pos \in Nat /\ pos > Dealt
  BY <1>1, <1>2, <1>3 DEF BatchTypes
<1>5. call[pos].at \in {"refused", "ended"}
  BY <1>3, <1>4
<1>6. ASSUME NEW j \in Live, j # pos
      PROVE  pos < j
  <2>1. j \in Positions /\ j \in Nat /\ call[j].at # "recorded"
    BY CallsAre DEF Live
  <2>2. ~(j <= Dealt)
    BY <1>1, <2>1 DEF Course
  <2>3. QED
    BY <1>2, <1>3, <1>6, <2>1, <2>2
<1>7. QED
  BY <1>1, <1>2, <1>3, <1>4, <1>5, <1>6

\* One outcome is handed over.
LEMMA HandedOver ==
  ASSUME BatchInv, stage = "recording", pos \in group,
         NEW result \in {Calls[pos].id, "error"} \cup Refusals,
         outcomes' = Append(outcomes, Outcome(pos, result)), At(pos, "recorded", result),
         pos' = pos + 1, group' = group, stage' = IF pos + 1 \in group THEN stage ELSE "next",
         stream' \in Seq(EventType), lost' \in Nat
  PROVE  BatchTypes' /\ OwnResults' /\ Together' /\ Course'
<1>1. BatchTypes /\ OwnResults /\ Together /\ Course
  BY WhileRecording
<1>2. pos = Dealt + 1 /\ Dealt \in Nat /\ pos \in Positions /\ pos \in Nat
  BY WhileRecording
<1>3. "recorded" \in Wheres /\ result \in Results
  BY <1>2, CallsAre DEF Wheres, Results
<1>4. call \in [Positions -> [at : Wheres, result : Results]] /\ group \in SUBSET Positions
  BY <1>1 DEF BatchTypes
<1>5. /\ call' \in [Positions -> [at : Wheres, result : Results]]
      /\ call'[pos].at = "recorded" /\ \A j \in Positions : j # pos => call'[j] = call[j]
  BY <1>2, <1>3, <1>4, AtIs
<1>6. /\ Outcome(pos, result) \in [id : Ids, result : Results]
      /\ Outcome(pos, result).id = Calls[pos].id /\ Outcome(pos, result).result = result
  BY <1>2, <1>3, CallsAre DEF Outcome
<1>7. outcomes \in Seq([id : Ids, result : Results]) /\ DOMAIN outcomes = 1..Dealt
  BY <1>1, DealtIs DEF BatchTypes
<1>8. /\ outcomes' \in Seq([id : Ids, result : Results]) /\ Dealt' = Dealt + 1
      /\ \A k \in DOMAIN outcomes' : k \in DOMAIN outcomes \/ k = pos
      /\ \A k \in DOMAIN outcomes : outcomes'[k] = outcomes[k]
      /\ outcomes'[pos] = Outcome(pos, result)
  <2> DEFINE o == Outcome(pos, result)
  <2>1. o \in [id : Ids, result : Results] /\ outcomes' = Append(outcomes, o)
    BY <1>6
  <2> HIDE DEF o
  <2>2. outcomes' \in Seq([id : Ids, result : Results]) /\ Len(outcomes') = Len(outcomes) + 1
    BY <1>7, <2>1
  <2>3. DOMAIN outcomes' = 1..Dealt + 1
    BY <1>7, <2>1, <2>2 DEF Dealt
  <2>4. \A k \in 1..Dealt : outcomes'[k] = outcomes[k]
    BY <1>7, <2>1 DEF Dealt
  <2>5. outcomes'[Dealt + 1] = o
    BY <1>7, <2>1 DEF Dealt
  <2>6. Dealt' = Dealt + 1
    BY <2>2 DEF Dealt
  <2>7. \A k \in 1..Dealt + 1 : k \in 1..Dealt \/ k = Dealt + 1
    BY <1>2
  <2>8. QED
    BY <1>2, <1>7, <2>2, <2>3, <2>4, <2>5, <2>6, <2>7 DEF o
<1>9. stage' \in {"recording", "next"}
  OBVIOUS
<1>10. BatchTypes'
  BY <1>1, <1>2, <1>5, <1>8, <1>9 DEF BatchTypes, Stages
<1>11. OwnResults'
  <2>1. \A i \in Positions :
           /\ call'[i].at = "refused" => call'[i].result \in Refusals
           /\ call'[i].at = "ended" => call'[i].result \in {Calls[i].id, "error"}
    BY <1>1, <1>5 DEF OwnResults
  <2>2. \A k \in DOMAIN outcomes : /\ k \in Positions /\ outcomes[k].id = Calls[k].id
                                   /\ outcomes[k].result \in {Calls[k].id, "error"} \cup Refusals
    BY <1>1 DEF OwnResults
  <2>3. \A k \in DOMAIN outcomes' : /\ k \in Positions /\ outcomes'[k].id = Calls[k].id
                                    /\ outcomes'[k].result \in {Calls[k].id, "error"} \cup Refusals
    BY <1>2, <1>6, <1>8, <2>2
  <2>4. QED
    BY <2>1, <2>3 DEF OwnResults
<1>12. Together'
  <2>1. \A i \in Positions : call[i].at # "running"
    BY <1>1 DEF Together
  <2>2. QED
    BY <1>1, <1>5, <2>1 DEF Together
<1>13. Course'
  <2>1. Consecutive /\ \A i \in group : i > Dealt => call[i].at \in {"refused", "ended"}
    BY <1>1 DEF Course
  <2>2. \A i \in Positions : i \in Nat
    BY CallsAre
  <2>3. \A i \in Positions : i <= Dealt + 1 => call'[i].at = "recorded"
    <3>1. \A i \in Positions : i <= Dealt => call[i].at = "recorded"
      BY <1>1 DEF Course
    <3>2. ASSUME NEW i \in Positions, i <= Dealt + 1, i # pos
          PROVE  i <= Dealt
      <4>1. i \in Nat
        BY <2>2
      <4>2. QED
        BY <1>2, <3>2, <4>1
    <3>3. QED
      BY <1>5, <3>1, <3>2
  <2>4. \A i \in Positions : i > Dealt + 1 => i > Dealt /\ i # pos
    BY <1>2, <2>2
  <2>5. \A i \in Positions : i > Dealt + 1 /\ i \notin group => call'[i] = Fresh
    BY <1>1, <1>5, <2>4 DEF Course
  <2>6. \A i \in group : i > Dealt + 1 => call'[i].at \in {"refused", "ended"}
    BY <1>4, <1>5, <2>1, <2>4
  <2>7. Consecutive'
    <3>1. \A j \in group : \A i \in Dealt + 1 + 1..j : i \in Dealt + 1..j
      BY <1>2, <1>4, <2>2
    <3>2. \A j \in group : \A i \in Dealt + 1 + 1..j : i \in group
      BY <2>1, <3>1 DEF Consecutive
    <3>3. QED
      BY <1>8, <3>2 DEF Consecutive
  <2>8. pos + 1 \notin group => \A i \in group : i <= Dealt + 1
    <3>1. ASSUME NEW i \in group, ~(i <= Dealt + 1)
          PROVE  pos + 1 \in group
      <4>1. i \in Nat /\ pos + 1 \in Dealt + 1..i
        BY <1>2, <1>4, <2>2, <3>1
      <4>2. QED
        BY <2>1, <4>1 DEF Consecutive
    <3>2. QED
      BY <3>1
  <2>9. pos' = Dealt' + 1
    BY <1>2, <1>8
  <2>10. QED
    BY <1>8, <2>3, <2>5, <2>6, <2>7, <2>8, <2>9 DEF Course
<1>14. QED
  BY <1>10, <1>11, <1>12, <1>13

LEMMA DealStep ==
  ASSUME BatchInv, Deal
  PROVE  BatchInv'
<1> DEFINE e == Event("tool/result", Calls[pos].id, "none", 0)
<1>1. /\ stage = "recording" /\ pos \in group
      /\ outcomes' = Append(outcomes, Outcome(pos, call[pos].result))
      /\ At(pos, "recorded", call[pos].result) /\ pos' = pos + 1
      /\ stage' = IF pos + 1 \in group THEN stage ELSE "next"
      /\ group' = group /\ lost' = lost
  BY DEF Deal
<1>2. BatchTypes /\ OwnResults /\ Recorded
  BY <1>1, WhileRecording
<1>3. pos \in Positions /\ call[pos].at \in {"refused", "ended"} /\ \A j \in Live \ {pos} : pos < j
  BY <1>1, WhileRecording
<1>4. /\ call[pos].result \in {Calls[pos].id, "error"} \cup Refusals
      /\ call[pos].result \in Results /\ "recorded" \in Wheres /\ lost \in Nat
  <2>1. call[pos].result \in {Calls[pos].id, "error"} \cup Refusals
    BY <1>2, <1>3 DEF OwnResults
  <2>2. QED
    BY <1>2, <1>3, <2>1 DEF BatchTypes, Wheres
<1>5. Live' = Live \ {pos} /\ \A j \in Positions : call'[j].at = "allowed" => call[j].at = "allowed"
  BY <1>1, <1>2, <1>3, <1>4, Moved
<1>6. stream' \in Seq(EventType) /\ Recorded'
  <2>1. CASE call[pos].at = "ended"
    <3>1. "tool/result" \in Names /\ "none" \in Refs
      BY DEF Names, Refs
    <3>2. e \in EventType /\ e.type = "tool/result" /\ e.id = Calls[pos].id
      BY <1>3, <3>1, EventTyped
    <3>3. stream' = Append(stream, e)
      BY <2>1 DEF Deal
    <3> HIDE DEF e
    <3>4. Grows(e)
      BY <1>2, <3>2, <3>3 DEF Grows, BatchTypes
    <3>5. pos \in Live
      BY <1>3, <2>1 DEF Live
    <3>6. Recorded'
      BY <1>1, <1>2, <1>3, <1>5, <3>2, <3>4, <3>5, RecordAnswered
    <3>7. stream' \in Seq(EventType)
      BY <3>4 DEF Grows
    <3>8. QED
      BY <3>6, <3>7
  <2>2. CASE call[pos].at # "ended"
    <3>1. stream' = stream
      BY <2>2 DEF Deal
    <3>2. pos \notin Live
      BY <1>3, <2>2 DEF Live
    <3>3. Live' = Live /\ lost' >= lost
      BY <1>1, <1>4, <1>5, <3>2
    <3>4. QED
      BY <1>1, <1>2, <1>4, <1>5, <3>1, <3>3, RecordKept DEF BatchTypes
  <2>3. QED
    BY <2>1, <2>2
<1>7. BatchTypes' /\ OwnResults' /\ Together' /\ Course'
  <2> DEFINE result == call[pos].result
  <2>1. result \in {Calls[pos].id, "error"} \cup Refusals
    BY <1>4
  <2>2. outcomes' = Append(outcomes, Outcome(pos, result)) /\ At(pos, "recorded", result)
    BY <1>1
  <2>3. lost' \in Nat
    BY <1>1, <1>4
  <2> HIDE DEF result
  <2>4. QED
    BY <1>1, <1>6, <2>1, <2>2, <2>3, HandedOver
<1>8. QED
  BY <1>6, <1>7 DEF BatchInv

\* The write of a result fails: a group is given up; a call on its own is its
\* whole group, so its outcome is the last one of it.
LEMMA DealLostStep ==
  ASSUME BatchInv, DealLost
  PROVE  BatchInv'
<1>1. /\ stage = "recording" /\ pos \in group /\ call[pos].at = "ended" /\ lost' = lost + 1
      /\ stream' = stream /\ group' = group
  BY DEF DealLost
<1>2. BatchTypes /\ OwnResults /\ Together /\ Recorded
  BY <1>1, WhileRecording
<1>3. pos \in Positions /\ pos \in Nat
  BY <1>1, WhileRecording
<1>4. lost \in Nat /\ lost' \in Nat /\ lost' >= lost /\ lost' # 0 /\ stream' \in Seq(EventType)
  BY <1>1, <1>2 DEF BatchTypes
<1>5. CASE Calls[pos].safe
  <2>1. stage' = "raised" /\ pos' = pos /\ call' = call /\ outcomes' = outcomes
    BY <1>5 DEF DealLost
  <2>2. BatchTypes'
    BY <1>1, <1>2, <1>4, <2>1 DEF BatchTypes, Stages
  <2>3. OwnResults'
    BY <1>2, <2>1 DEF OwnResults
  <2>4. Together'
    BY <1>1, <1>2, <2>1 DEF Together
  <2>5. QED
    BY <2>1, <2>2, <2>3, <2>4 DEF BatchInv
<1>6. CASE ~Calls[pos].safe
  <2>1. /\ outcomes' = Append(outcomes, Outcome(pos, "error"))
        /\ At(pos, "recorded", "error") /\ pos' = pos + 1 /\ stage' = "next"
    BY <1>6 DEF DealLost
  <2>2. pos + 1 \notin group
    <3>1. pos + 1 # pos
      BY <1>3
    <3>2. QED
      BY <1>1, <1>2, <1>6, <3>1 DEF Together
  <2>3. stage' = IF pos + 1 \in group THEN stage ELSE "next"
    BY <2>1, <2>2
  <2>4. BatchTypes' /\ OwnResults' /\ Together' /\ Course'
    BY <1>1, <1>4, <2>1, <2>3, HandedOver
  <2>5. "recorded" \in Wheres /\ "error" \in Results
    BY DEF Wheres, Results
  <2>6. Live' = Live \ {pos} /\ \A j \in Positions : call'[j].at = "allowed" => call[j].at = "allowed"
    BY <1>2, <1>3, <2>1, <2>5, Moved
  <2>7. Live' \subseteq Live
    BY <2>6
  <2>8. Recorded'
    BY <1>1, <1>2, <1>4, <2>6, <2>7, RecordKept
  <2>9. QED
    BY <2>4, <2>8 DEF BatchInv
<1>7. QED
  BY <1>5, <1>6

\* Cancellation keeps the record of a batch whose handlers still run.
LEMMA CancelStep ==
  ASSUME BatchInv, CancelBatch
  PROVE  BatchInv'
<1>1. /\ stage \in {"preparing", "recording", "running"}
      /\ stage' = IF stage = "running" THEN "stopping" ELSE "cancelled"
      /\ stream' = stream /\ pos' = pos /\ group' = group /\ call' = call
      /\ outcomes' = outcomes /\ lost' = lost
  BY DEF CancelBatch
<1>2. BatchTypes /\ OwnResults /\ Together /\ Course /\ Recorded
  BY <1>1 DEF BatchInv
<1>3. BatchTypes'
  BY <1>1, <1>2 DEF BatchTypes, Stages
<1>4. OwnResults'
  BY <1>1, <1>2 DEF OwnResults
<1>5. Together'
  BY <1>1, <1>2 DEF Together
<1>6. ASSUME stage' \notin {"cancelled", "raised"}
      PROVE  Course'
  <2>1. stage = "running" /\ stage' = "stopping"
    BY <1>1, <1>6
  <2>2. Dealt' = Dealt
    BY <1>1 DEF Dealt
  <2>3. Consecutive' <=> Consecutive
    BY <1>1, <2>2 DEF Consecutive
  <2>4. QED
    BY <1>1, <1>2, <2>1, <2>2, <2>3 DEF Course
<1>7. Recorded'
  <2>1. Live' = Live /\ lost \in Nat
    BY <1>1, <1>2 DEF Live, BatchTypes
  <2>2. lost' \in Nat /\ lost' >= lost
    BY <1>1, <2>1
  <2>3. QED
    BY <1>1, <1>2, <2>1, <2>2, RecordKept
<1>8. QED
  BY <1>3, <1>4, <1>5, <1>6, <1>7 DEF BatchInv

\* The handlers of a cancelled batch have stopped; a call on its own still gets
\* its result.
LEMMA StoppedStep ==
  ASSUME BatchInv, Stopped
  PROVE  BatchInv'
<1> DEFINE alone == {i \in group : ~Calls[i].safe /\ call[i].at = "ended"}
<1>1. /\ stage = "stopping" /\ stage' = "cancelled" /\ \A i \in group : call[i].at # "running"
      /\ pos' = pos /\ group' = group /\ call' = call /\ outcomes' = outcomes /\ lost' = lost
      /\ stream' = IF alone = {} THEN stream
                   ELSE Append(stream, Event("tool/result", Calls[Min(alone)].id, "none", 0))
  BY DEF Stopped
<1>2. BatchTypes /\ OwnResults /\ Together
  BY DEF BatchInv
<1>3. stream' \in Seq(EventType)
  <2>1. CASE alone = {}
    BY <1>1, <1>2, <2>1 DEF BatchTypes
  <2>2. CASE alone # {}
    <3>1. PICK a \in alone : TRUE
      BY <2>2
    <3>2. a \in group /\ a \in Positions /\ ~Calls[a].safe
      BY <1>2, <3>1 DEF BatchTypes
    <3>3. \A j \in group : j = a
      BY <1>2, <3>2 DEF Together
    <3>4. a \in Nat /\ a <= a
      BY <3>2, CallsAre
    <3>5. alone \in SUBSET Positions /\ \A j \in alone : a <= j
      BY <1>2, <3>3, <3>4 DEF BatchTypes
    <3> HIDE DEF alone
    <3>6. Min(alone) = a
      BY <3>1, <3>5, LeastIs
    <3>7. "tool/result" \in Names /\ "none" \in Refs
      BY DEF Names, Refs
    <3>8. Event("tool/result", Calls[a].id, "none", 0) \in EventType
      BY <3>2, <3>7, EventTyped
    <3>9. stream' = Append(stream, Event("tool/result", Calls[a].id, "none", 0))
      BY <1>1, <2>2, <3>6
    <3>10. stream \in Seq(EventType)
      BY <1>2 DEF BatchTypes
    <3>11. QED
      BY <3>8, <3>9, <3>10
  <2>3. QED
    BY <2>1, <2>2
<1> HIDE DEF alone
<1>4. BatchTypes'
  BY <1>1, <1>2, <1>3 DEF BatchTypes, Stages
<1>5. OwnResults'
  BY <1>1, <1>2 DEF OwnResults
<1>6. Together'
  BY <1>1, <1>2 DEF Together
<1>7. QED
  BY <1>1, <1>4, <1>5, <1>6 DEF BatchInv

-----------------------------------------------------------------------------
(* The theorem. *)

LEMMA InitInv == InitBatch => BatchInv
<1> SUFFICES ASSUME InitBatch
             PROVE  BatchInv
  OBVIOUS
<1>1. /\ stream = <<>> /\ pos = 1 /\ group = {} /\ stage = "next"
      /\ call = [i \in Positions |-> Fresh] /\ outcomes = <<>> /\ lost = 0
  BY DEF InitBatch
<1>2. Fresh \in [at : Wheres, result : Results] /\ Fresh.at = "waiting"
  BY DEF Fresh, Wheres, Results
<1>3. \A i \in Positions : call[i] = Fresh /\ call[i].at = "waiting"
  BY <1>1, <1>2
<1>4. Dealt = 0 /\ DOMAIN outcomes = {} /\ DOMAIN stream = {}
  BY <1>1 DEF Dealt
<1>5. BatchTypes
  BY <1>1, <1>2 DEF BatchTypes, Stages
<1>6. OwnResults
  BY <1>3, <1>4 DEF OwnResults
<1>7. Together
  BY <1>1, <1>3 DEF Together
<1>8. Course
  <2>1. \A i \in Positions : ~(i <= 0)
    BY CallsAre
  <2>2. QED
    BY <1>1, <1>3, <1>4, <2>1 DEF Course
<1>9. Recorded
  <2>1. Live = {} /\ CallsOnRecord = {} /\ ResultsOnRecord = {}
    BY <1>3, <1>4 DEF Live, CallsOnRecord, ResultsOnRecord
  <2>2. OnRecord
    BY <1>3, <2>1 DEF OnRecord
  <2>3. InOrder
    BY <2>1 DEF InOrder
  <2>4. Accounted
    BY <2>1 DEF Accounted
  <2>5. QED
    BY <2>2, <2>3, <2>4 DEF Recorded
<1>10. QED
  BY <1>5, <1>6, <1>7, <1>8, <1>9 DEF BatchInv

LEMMA StutterInv ==
  ASSUME BatchInv, UNCHANGED batchVars
  PROVE  BatchInv'
<1>1. /\ stream' = stream /\ pos' = pos /\ group' = group /\ stage' = stage
      /\ call' = call /\ outcomes' = outcomes /\ lost' = lost
  BY DEF batchVars
<1>2. BatchTypes' /\ OwnResults' /\ Together'
  BY <1>1 DEF BatchInv, BatchTypes, OwnResults, Together
<1>3. ASSUME stage \notin {"cancelled", "raised"}
      PROVE  Course' /\ Recorded'
  <2>1. Course /\ Recorded /\ Live' = Live /\ lost \in Nat
    BY <1>1, <1>3 DEF BatchInv, Live, BatchTypes
  <2>2. Dealt' = Dealt
    BY <1>1 DEF Dealt
  <2>3. Consecutive' <=> Consecutive
    BY <1>1, <2>2 DEF Consecutive
  <2>4. Course'
    BY <1>1, <2>1, <2>2, <2>3 DEF Course
  <2>5. lost' \in Nat /\ lost' >= lost
    BY <1>1, <2>1
  <2>6. QED
    BY <1>1, <2>1, <2>4, <2>5, RecordKept
<1>4. QED
  BY <1>1, <1>2, <1>3 DEF BatchInv

LEMMA StepInv == BatchInv /\ [NextBatch]_batchVars => BatchInv'
<1> SUFFICES ASSUME BatchInv, [NextBatch]_batchVars
             PROVE  BatchInv'
  OBVIOUS
<1>1. CASE NextGroup
  BY <1>1, NextGroupStep
<1>2. CASE Done
  BY <1>2, DoneStep
<1>3. CASE Invoke
  BY <1>3, InvokeStep
<1>4. CASE Collect
  BY <1>4, CollectStep
<1>5. CASE Deal
  BY <1>5, DealStep
<1>6. CASE DealLost
  BY <1>6, DealLostStep
<1>7. CASE CancelBatch
  BY <1>7, CancelStep
<1>8. CASE Stopped
  BY <1>8, StoppedStep
<1>9. ASSUME NEW i \in Positions,
             Invalid(i) \/ Denied(i) \/ Allowed(i) \/ Record(i) \/ PrepareLost(i) \/ Ends(i)
      PROVE  BatchInv'
  BY <1>9, InvalidStep, DeniedStep, AllowedStep, RecordStep, PrepareLostStep, EndsStep
<1>10. CASE UNCHANGED batchVars
  BY <1>10, StutterInv
<1>11. QED
  BY <1>1, <1>2, <1>3, <1>4, <1>5, <1>6, <1>7, <1>8, <1>9, <1>10 DEF NextBatch

\* The invariant says of a batch that has returned, and of its running calls,
\* what the caller is promised.
LEMMA InvOrderly == BatchInv => BatchIsOrderly
<1> SUFFICES ASSUME BatchInv
             PROVE  BatchIsOrderly
  OBVIOUS
<1>1. BatchTypes /\ OwnResults /\ Together
  BY DEF BatchInv
<1>2. ASSUME NEW i \in Positions, call[i].at = "running"
      PROVE  /\ \E c \in Of(i, "tool/call") :
                  /\ Of(i, "tool/call") = {c}
                  /\ \E k \in Of(i, "policy/decision") : stream[k].ref = "allow" /\ k < c
             /\ Calls[i].safe \/ \A j \in Positions \ {i} : call[j].at # "running"
  <2>1. i \in group /\ stage \in {"running", "stopping"}
    BY <1>1, <1>2 DEF Together
  <2>2. OnRecord /\ i \in Live
    BY <1>2, <2>1 DEF BatchInv, Recorded, Live
  <2>3. PICK c \in CallsOnRecord : stream[c].id = Calls[i].id /\ AllowedBefore(stream, i, c)
    BY <2>2 DEF OnRecord
  <2>4. \A k \in CallsOnRecord : stream[k].id = stream[c].id => k = c
    BY <2>2, <2>3 DEF OnRecord
  <2>5. Of(i, "tool/call") = {k \in CallsOnRecord : stream[k].id = Calls[i].id}
    BY DEF Of, CallsOnRecord
  <2>6. Of(i, "tool/call") = {c}
    BY <2>3, <2>4, <2>5
  <2>7. \E k \in Of(i, "policy/decision") : stream[k].ref = "allow" /\ k < c
    BY <2>3 DEF AllowedBefore, Of
  <2>8. Calls[i].safe \/ \A j \in Positions \ {i} : call[j].at # "running"
    BY <1>1, <2>1 DEF Together
  <2>9. QED
    BY <2>6, <2>7, <2>8
<1>3. \A k \in DOMAIN outcomes :
        /\ k \in Positions /\ outcomes[k].id = Calls[k].id
        /\ outcomes[k].result \in {Calls[k].id, "error", "invalid", "denied", "repeated", "lost"}
  BY <1>1 DEF OwnResults, Refusals
<1>4. ASSUME stage = "returned"
      PROVE  /\ Len(outcomes) = Len(Calls)
             /\ OnRecord /\ InOrder /\ Accounted /\ Live = {}
  <2>1. Course /\ OnRecord /\ InOrder /\ Accounted
    BY <1>4 DEF BatchInv, Recorded
  <2>2. Dealt = Len(Calls)
    BY <1>4, <2>1 DEF Course
  <2>3. Live = {}
    BY <2>1, <2>2, CallsAre DEF Course, Live
  <2>4. QED
    BY <2>1, <2>2, <2>3 DEF Dealt
<1>5. ASSUME stage = "returned", lost = 0
      PROVE  /\ \A k \in CallsOnRecord : \E j \in ResultsOnRecord : stream[j].id = stream[k].id
             /\ \A j \in ResultsOnRecord : \E k \in CallsOnRecord : stream[j].id = stream[k].id
             /\ \A k, m \in CallsOnRecord, i, j \in ResultsOnRecord :
                  stream[i].id = stream[k].id /\ stream[j].id = stream[m].id => (k < m <=> i < j)
  <2>1. OnRecord /\ InOrder /\ Accounted /\ Live = {}
    BY <1>4, <1>5
  <2>2. \A k \in CallsOnRecord : \E j \in ResultsOnRecord : stream[j].id = stream[k].id
    BY <1>5, <2>1 DEF Accounted
  <2>3. \A j \in ResultsOnRecord : \E k \in CallsOnRecord : stream[j].id = stream[k].id
    BY <2>1 DEF OnRecord
  <2>4. \A k, m \in CallsOnRecord, i, j \in ResultsOnRecord :
          stream[i].id = stream[k].id /\ stream[j].id = stream[m].id => (k < m <=> i < j)
    BY <2>1 DEF InOrder
  <2>5. QED
    BY <2>2, <2>3, <2>4
<1>6. QED
  BY <1>2, <1>3, <1>4, <1>5 DEF BatchIsOrderly

\* For every batch of calls, every answer of hooks, approvals and handlers, every
\* cancellation and any number of failed writes: a tool runs only after its call
\* was allowed and recorded once, alone or among calls that are safe; the outcomes
\* are those of the calls, in their order; and the results on record answer the
\* calls on record one to one, in the same order (ToolPipeline.execute_batch).
THEOREM BatchesAreOrderly == SpecBatch => []BatchIsOrderly
<1>1. BatchInv /\ [NextBatch]_batchVars => BatchInv'
  BY StepInv
<1>2. InitBatch => BatchInv
  BY InitInv
<1>3. BatchInv => BatchIsOrderly
  BY InvOrderly
<1>4. QED
  BY <1>1, <1>2, <1>3, PTL DEF SpecBatch
=============================================================================
