-------------------------- MODULE AgentSessionProofs --------------------------
(***************************************************************************)
(* Proofs about AgentSession, for any number of tasks and continuable      *)
(* children at work side by side over one stream, any number of attempts,  *)
(* messages, lost appends and deaths of the process.                       *)
(***************************************************************************)
EXTENDS AgentSession, FiniteSetTheorems, TLAPS

-----------------------------------------------------------------------------
(* The stream only grows. *)

IsStream == \E S : log \in Seq(S)

Kept == \A k \in DOMAIN log : k \in DOMAIN log' /\ log'[k] = log[k]

\* A committed event is on the stream, behind all that was there.
LEMMA CommitGrows ==
  ASSUME IsStream, NEW e, Commit(e)
  PROVE  IsStream' /\ Kept /\ \E k \in DOMAIN log' : log'[k] = e
<1>1. PICK S : log \in Seq(S)
  BY DEF IsStream
<1>2. log \in Seq(S \cup {e}) /\ Len(log) \in Nat
  BY <1>1
<1>3. log' \in Seq(S \cup {e})
  BY <1>2 DEF Commit
<1>4. Len(log') = Len(log) + 1 /\ log'[Len(log) + 1] = e
      /\ \A k \in 1..Len(log) : log'[k] = log[k]
  BY <1>1 DEF Commit
<1>5. QED
  BY <1>1, <1>2, <1>3, <1>4 DEF IsStream, Kept

\* A committed event is the last one.
LEMMA CommitLast ==
  ASSUME IsStream, NEW e, Commit(e)
  PROVE  /\ Len(log) \in Nat /\ DOMAIN log = 1..Len(log)
         /\ DOMAIN log' = 1..(Len(log) + 1)
         /\ log'[Len(log) + 1] = e /\ \A k \in 1..Len(log) : log'[k] = log[k]
<1>1. PICK S : log \in Seq(S)
  BY DEF IsStream
<1>2. log \in Seq(S \cup {e}) /\ log' = Append(log, e)
  BY <1>1 DEF Commit
<1>3. QED
  BY <1>2

\* No step takes an event off the stream or changes one.
LEMMA StreamGrows ==
  ASSUME IsStream, [Next]_vars
  PROVE  IsStream' /\ Kept
<1>1. ASSUME UNCHANGED log PROVE IsStream' /\ Kept
  BY <1>1 DEF IsStream, Kept
<1>2. ASSUME NEW e, Commit(e) PROVE IsStream' /\ Kept
  BY <1>2, CommitGrows
<1>3. CASE UNCHANGED vars
  BY <1>1, <1>3 DEF vars
<1>4. CASE Execute \/ StartSession \/ StartRefused \/ Return \/ Crash \/ Boot
  BY <1>1, <1>2, <1>4 DEF Execute, StartSession, StartRefused, Return, Crash, Boot
<1>5. ASSUME NEW t \in Tasks, DelegationStep(t) PROVE IsStream' /\ Kept
  BY <1>1, <1>2, <1>5 DEF DelegationStep, Delegate, LoadSkills, StartChild, StartLost, Collect,
                          CancelDelegation, Disposed, DisposeTimesOut
<1>6. ASSUME NEW c \in OneShots, MonitorStep(c) PROVE IsStream' /\ Kept
  BY <1>1, <1>2, <1>6 DEF MonitorStep, WorkEnds, Settle, SettleFails
<1>7. ASSUME NEW c \in Children, ChildStep(c) PROVE IsStream' /\ Kept
  BY <1>1, <1>2, <1>7 DEF ChildStep, Create, Submit, Take, Follow, StartTurn, ReportTurn,
                          TurnEnds, EndTurn, SettleChild, AppendLost, Restore
<1>8. QED
  BY <1>3, <1>4, <1>5, <1>6, <1>7 DEF Next

-----------------------------------------------------------------------------
(* Delegations. *)

RunPc  == {"idle", "loading", "starting", "watching", "disposing", "done"}
RunEnd == {"none", "completed", "cancelled", "error", "stuck"}
Run    == [pc : RunPc, ended : RunEnd, left : SUBSET Nat]
WorkAt == {"none", "gated", "working", "unwinding", "ended", "settled"}
Work   == [at : WorkAt, reason : Reasons \cup {"none"}]
LedgerState == {"running", "succeeded", "cancelled", "failed", "interrupted"}
LedgerRow == [child : Tasks \X Nat, status : LedgerState]

DelegationTypes ==
  /\ ledger \in Seq(LedgerRow)
  /\ attempts \in [Tasks -> Nat]
  /\ run \in [Tasks -> Run]
  /\ work \in [OneShots -> Work]

\* The result a monitor has published is one the stream shows.
ResultCommitted(c) ==
  work[c].at = "settled" /\ work[c].reason = "completed"
    => \E k \in DOMAIN log : log[k] = Ended(c, "completed")

\* The attempt under way is a number the child ids know, and once it was started
\* it has a ledger record.
AttemptRecorded(t) ==
  /\ run[t].pc \in {"loading", "starting", "watching", "disposing"}
       => attempts[t] \in 1..MaxAttempts
  /\ run[t].pc \in {"starting", "watching"}
       => \E i \in DOMAIN ledger : ledger[i].child = ChildOf(t)

\* A work task that has not ended is the current attempt's, under delegation, or
\* one whose disposal timed out.
WorkAccounted(t, k) ==
  work[<<t, k>>].at \in {"gated", "working", "unwinding"}
    => \/ k \in run[t].left
       \/ k = attempts[t] /\ run[t].pc \in {"starting", "watching", "disposing"}

Delegations ==
  /\ DelegationTypes
  /\ \A c \in OneShots : ResultCommitted(c)
  /\ \A t \in Tasks : AttemptRecorded(t)
  /\ \A t \in Tasks, k \in 1..MaxAttempts : WorkAccounted(t, k)
  /\ LedgerIsBacked

\* What a backed record needs is kept by a growing stream.
LEMMA KeptBacking ==
  ASSUME Delegations, Kept
  PROVE  /\ \A c \in OneShots, reason \in Reasons :
              (\E k \in DOMAIN log : log[k] = Ended(c, reason))
                => \E k \in DOMAIN log' : log'[k] = Ended(c, reason)
         /\ \A i \in DOMAIN ledger : ledger[i].status = "succeeded" =>
              \E k \in DOMAIN log' : log'[k] = Ended(ledger[i].child, "completed")
BY DEF Kept, Delegations, LedgerIsBacked

\* The steps that are not about delegations.
LEMMA OtherSteps ==
  ASSUME Delegations, Kept, UNCHANGED <<ledger, attempts, run, work>>
  PROVE  Delegations'
<1>1. DelegationTypes' /\ \A t \in Tasks : AttemptRecorded(t)'
  BY DEF Delegations, DelegationTypes, AttemptRecorded, ChildOf
<1>2. \A t \in Tasks, k \in 1..MaxAttempts : WorkAccounted(t, k)'
  BY DEF Delegations, WorkAccounted
<1>3. \A c \in OneShots : ResultCommitted(c)'
  BY KeptBacking DEF Delegations, ResultCommitted, Reasons
<1>4. LedgerIsBacked'
  BY KeptBacking DEF LedgerIsBacked
<1>5. QED
  BY <1>1, <1>2, <1>3, <1>4 DEF Delegations

\* Rewriting the status of some records, none into "succeeded" unless its end is
\* on the stream.
LEMMA LedgerRewritten ==
  ASSUME Delegations, Kept, DOMAIN ledger' = DOMAIN ledger,
         \A i \in DOMAIN ledger :
           /\ ledger'[i].child = ledger[i].child
           /\ \/ ledger'[i].status \in {ledger[i].status, "interrupted", "cancelled", "failed"}
              \/ \E k \in DOMAIN log' : log'[k] = Ended(ledger[i].child, "completed")
  PROVE  LedgerIsBacked'
BY KeptBacking DEF LedgerIsBacked

\* FinishLedger writes one status, into the record of the child.
LEMMA FinishedLedger ==
  ASSUME Delegations, NEW t \in Tasks, run[t].pc = "watching",
         NEW st \in {"succeeded", "cancelled", "failed"}, FinishLedger(ChildOf(t), st)
  PROVE  /\ ledger' \in Seq(LedgerRow)
         /\ DOMAIN ledger' = DOMAIN ledger
         /\ \A i \in DOMAIN ledger :
              /\ ledger'[i].child = ledger[i].child
              /\ \/ ledger'[i].status = ledger[i].status
                 \/ ledger'[i].status = st /\ ledger[i].child = ChildOf(t)
<1> DEFINE j == LedgerOf(ChildOf(t))
<1>1. ledger \in Seq(LedgerRow)
  BY DEF Delegations, DelegationTypes
<1>2. \E i \in DOMAIN ledger : ledger[i].child = ChildOf(t)
  BY DEF Delegations, AttemptRecorded
<1>3. j \in DOMAIN ledger /\ ledger[j].child = ChildOf(t)
  BY <1>2 DEF LedgerOf
<1> HIDE DEF j
<1>4. ledger' = [ledger EXCEPT ![j] = [ledger[j] EXCEPT !.status = st]]
  BY DEF FinishLedger, j
<1>5. ledger[j] \in LedgerRow
  BY <1>1, <1>3
<1>6. /\ [ledger[j] EXCEPT !.status = st] \in LedgerRow
      /\ [ledger[j] EXCEPT !.status = st].child = ledger[j].child
      /\ [ledger[j] EXCEPT !.status = st].status = st
  BY <1>5 DEF LedgerRow, LedgerState
<1>7. /\ DOMAIN ledger' = DOMAIN ledger
      /\ ledger'[j] = [ledger[j] EXCEPT !.status = st]
      /\ \A i \in DOMAIN ledger : i # j => ledger'[i] = ledger[i]
  BY <1>1, <1>3, <1>4
<1>8. ledger' \in Seq(LedgerRow)
  BY <1>1, <1>3, <1>4, <1>6
<1>9. QED
  BY <1>3, <1>6, <1>7, <1>8

\* A step of one delegation: the others keep what they had.
LEMMA OneDelegation ==
  ASSUME Delegations, Kept, NEW t \in Tasks, DelegationTypes',
         \A u \in Tasks \ {t} : run'[u] = run[u] /\ attempts'[u] = attempts[u],
         \A d \in OneShots : d # <<t, attempts[t]>> => work'[d] = work[d],
         \A i \in DOMAIN ledger : i \in DOMAIN ledger' /\ ledger'[i].child = ledger[i].child,
         LedgerIsBacked', AttemptRecorded(t)',
         \A k \in 1..MaxAttempts : WorkAccounted(t, k)',
         \A d \in OneShots : d = <<t, attempts[t]>> => ResultCommitted(d)'
  PROVE  Delegations'
<1>1. ASSUME NEW u \in Tasks, u # t PROVE AttemptRecorded(u)'
  <2>1. AttemptRecorded(u) /\ run'[u] = run[u] /\ attempts'[u] = attempts[u]
    BY <1>1 DEF Delegations
  <2>2. QED
    BY <2>1 DEF AttemptRecorded, ChildOf
<1>2. ASSUME NEW u \in Tasks, u # t, NEW k \in 1..MaxAttempts PROVE WorkAccounted(u, k)'
  <2>1. <<u, k>> \in OneShots /\ <<u, k>> # <<t, attempts[t]>>
    BY <1>2 DEF OneShots
  <2>2. WorkAccounted(u, k) /\ run'[u] = run[u] /\ attempts'[u] = attempts[u]
        /\ work'[<<u, k>>] = work[<<u, k>>]
    BY <1>2, <2>1 DEF Delegations
  <2>3. QED
    BY <2>2 DEF WorkAccounted
<1>3. ASSUME NEW d \in OneShots, d # <<t, attempts[t]>> PROVE ResultCommitted(d)'
  <2>1. ResultCommitted(d) /\ work'[d] = work[d]
    BY <1>3 DEF Delegations
  <2>2. QED
    BY <2>1, KeptBacking DEF ResultCommitted, Reasons
<1>4. \A u \in Tasks : AttemptRecorded(u)'
  BY <1>1
<1>5. \A u \in Tasks, k \in 1..MaxAttempts : WorkAccounted(u, k)'
  BY <1>2
<1>6. \A d \in OneShots : ResultCommitted(d)'
  BY <1>3
<1>7. QED
  BY <1>4, <1>5, <1>6 DEF Delegations

\* delegated, up to the gate: the attempt, its ledger record, its work task.
LEMMA DelegateStep ==
  ASSUME Delegations, Kept, NEW t \in Tasks, Delegate(t)
  PROVE  Delegations'
<1>1. /\ run[t].pc \in {"idle", "done"} /\ attempts[t] < MaxAttempts
      /\ attempts' = [attempts EXCEPT ![t] = @ + 1]
      /\ run' = [run EXCEPT ![t].pc = "loading", ![t].ended = "none"]
      /\ UNCHANGED <<ledger, work>>
  BY DEF Delegate
<1>3. /\ run' \in [Tasks -> Run] /\ run'[t].pc = "loading" /\ run'[t].left = run[t].left
      /\ \A u \in Tasks \ {t} : run'[u] = run[u]
  BY <1>1 DEF Delegations, DelegationTypes, Run, RunPc, RunEnd
<1>4. /\ attempts' \in [Tasks -> Nat] /\ attempts'[t] \in 1..MaxAttempts
      /\ \A u \in Tasks \ {t} : attempts'[u] = attempts[u]
  BY <1>1, SessionAssumption DEF Delegations, DelegationTypes
<1>5. DelegationTypes'
  BY <1>1, <1>3, <1>4 DEF Delegations, DelegationTypes
<1>6. AttemptRecorded(t)'
  BY <1>3, <1>4 DEF AttemptRecorded
<1>7. \A k \in 1..MaxAttempts : WorkAccounted(t, k)'
  BY <1>1, <1>3 DEF WorkAccounted, Delegations
<1>8. LedgerIsBacked'
  BY <1>1, KeptBacking DEF LedgerIsBacked
<1>9. \A d \in OneShots : ResultCommitted(d)'
  BY <1>1, KeptBacking DEF Delegations, ResultCommitted, Reasons
<1>10. QED
  BY <1>1, <1>3, <1>4, <1>5, <1>6, <1>7, <1>8, <1>9, OneDelegation

\* The attempt gets its ledger record, and its work task waits at the gate.
LEMMA LoadSkillsStep ==
  ASSUME Delegations, Kept, NEW t \in Tasks, LoadSkills(t)
  PROVE  Delegations'
<1> DEFINE new == [child |-> ChildOf(t), status |-> "running"]
           c == ChildOf(t)
<1>1. /\ run[t].pc = "loading" /\ ledger' = Append(ledger, new) /\ attempts' = attempts
      /\ run' = [run EXCEPT ![t].pc = "starting"]
      /\ work' = [work EXCEPT ![c].at = "gated"]
  BY DEF LoadSkills
<1>2. attempts[t] \in 1..MaxAttempts /\ c \in OneShots /\ c = <<t, attempts[t]>>
  BY <1>1 DEF Delegations, AttemptRecorded, ChildOf, OneShots
<1>3. /\ new \in LedgerRow /\ ledger \in Seq(LedgerRow)
      /\ new.child = ChildOf(t) /\ new.status = "running"
  BY <1>2 DEF LedgerRow, LedgerState, OneShots, Delegations, DelegationTypes
<1> HIDE DEF new
<1>4. /\ ledger' \in Seq(LedgerRow)
      /\ \A i \in DOMAIN ledger : i \in DOMAIN ledger' /\ ledger'[i] = ledger[i]
      /\ \A i \in DOMAIN ledger' : i \in DOMAIN ledger \/ ledger'[i] = new
      /\ \E i \in DOMAIN ledger' : ledger'[i] = new
  <2>1. /\ Len(ledger) \in Nat /\ Len(ledger') = Len(ledger) + 1
        /\ ledger'[Len(ledger) + 1] = new
        /\ \A i \in 1..Len(ledger) : ledger'[i] = ledger[i]
    BY <1>1, <1>3
  <2>2. ledger' \in Seq(LedgerRow)
    BY <1>1, <1>3
  <2>3. QED
    BY <1>3, <2>1, <2>2
<1>5. /\ run' \in [Tasks -> Run] /\ run'[t].pc = "starting" /\ run'[t].left = run[t].left
      /\ \A u \in Tasks \ {t} : run'[u] = run[u]
  BY <1>1 DEF Delegations, DelegationTypes, Run, RunPc
<1>6. /\ work' \in [OneShots -> Work] /\ work'[c].at = "gated"
      /\ \A d \in OneShots : d # c => work'[d] = work[d]
  BY <1>1, <1>2 DEF Delegations, DelegationTypes, Work, WorkAt
<1>7. DelegationTypes'
  BY <1>1, <1>4, <1>5, <1>6 DEF Delegations, DelegationTypes
<1>8. AttemptRecorded(t)'
  <2>1. ChildOf(t)' = ChildOf(t)
    BY <1>1 DEF ChildOf
  <2>2. QED
    BY <1>1, <1>2, <1>3, <1>4, <1>5, <2>1 DEF AttemptRecorded
<1>9. ASSUME NEW k \in 1..MaxAttempts PROVE WorkAccounted(t, k)'
  <2>1. CASE k = attempts[t]
    BY <1>1, <1>5, <2>1 DEF WorkAccounted
  <2>2. CASE k # attempts[t]
    <3>1. <<t, k>> \in OneShots /\ <<t, k>> # c /\ WorkAccounted(t, k)
      BY <1>2, <2>2 DEF OneShots, Delegations
    <3>2. QED
      BY <1>1, <1>5, <1>6, <2>2, <3>1 DEF WorkAccounted
  <2>3. QED
    BY <2>1, <2>2
<1>10. LedgerIsBacked'
  <2>1. ASSUME NEW i \in DOMAIN ledger', ledger'[i].status = "succeeded"
        PROVE  \E k \in DOMAIN log' : log'[k] = Ended(ledger'[i].child, "completed")
    <3>1. i \in DOMAIN ledger /\ ledger'[i] = ledger[i]
      BY <1>3, <1>4, <2>1
    <3>2. QED
      BY <2>1, <3>1, KeptBacking
  <2>2. QED
    BY <2>1 DEF LedgerIsBacked
<1>11. \A d \in OneShots : d = <<t, attempts[t]>> => ResultCommitted(d)'
  BY <1>2, <1>6 DEF ResultCommitted
<1>12. /\ \A u \in Tasks \ {t} : run'[u] = run[u] /\ attempts'[u] = attempts[u]
       /\ \A d \in OneShots : d # <<t, attempts[t]>> => work'[d] = work[d]
       /\ \A i \in DOMAIN ledger : i \in DOMAIN ledger' /\ ledger'[i].child = ledger[i].child
  BY <1>1, <1>2, <1>4, <1>5, <1>6
<1>13. QED
  BY <1>7, <1>8, <1>9, <1>10, <1>11, <1>12, OneDelegation

\* A ledger no step touched stays backed.
LEMMA SameLedger ==
  ASSUME Delegations, Kept, ledger' = ledger
  PROVE  LedgerIsBacked'
BY KeptBacking DEF LedgerIsBacked

\* The start is on the stream: the gate opens.
LEMMA StartChildStep ==
  ASSUME Delegations, Kept, NEW t \in Tasks, StartChild(t)
  PROVE  Delegations'
<1> DEFINE c == ChildOf(t)
<1>1. /\ run[t].pc = "starting" /\ ledger' = ledger /\ attempts' = attempts
      /\ run' = [run EXCEPT ![t].pc = "watching"]
      /\ work' = [work EXCEPT ![c].at = "working"]
  BY DEF StartChild
<1>2. c \in OneShots /\ c = <<t, attempts[t]>>
  BY <1>1 DEF Delegations, AttemptRecorded, ChildOf, OneShots
<1>3. /\ run' \in [Tasks -> Run] /\ run'[t].pc = "watching" /\ run'[t].left = run[t].left
      /\ \A u \in Tasks \ {t} : run'[u] = run[u]
  BY <1>1 DEF Delegations, DelegationTypes, Run, RunPc
<1>4. /\ work' \in [OneShots -> Work] /\ work'[c].at = "working"
      /\ \A d \in OneShots : d # c => work'[d] = work[d]
  BY <1>1, <1>2 DEF Delegations, DelegationTypes, Work, WorkAt
<1>5. DelegationTypes'
  BY <1>1, <1>3, <1>4 DEF Delegations, DelegationTypes
<1>6. AttemptRecorded(t)'
  <2>1. ChildOf(t)' = ChildOf(t) /\ AttemptRecorded(t)
    BY <1>1 DEF ChildOf, Delegations
  <2>2. QED
    BY <1>1, <1>3, <2>1 DEF AttemptRecorded
<1>7. ASSUME NEW k \in 1..MaxAttempts PROVE WorkAccounted(t, k)'
  <2>1. CASE k = attempts[t]
    BY <1>1, <1>3, <2>1 DEF WorkAccounted
  <2>2. CASE k # attempts[t]
    <3>1. <<t, k>> \in OneShots /\ <<t, k>> # c /\ WorkAccounted(t, k)
      BY <1>2, <2>2 DEF OneShots, Delegations
    <3>2. QED
      BY <1>1, <1>3, <1>4, <2>2, <3>1 DEF WorkAccounted
  <2>3. QED
    BY <2>1, <2>2
<1>8. \A d \in OneShots : d = <<t, attempts[t]>> => ResultCommitted(d)'
  BY <1>2, <1>4 DEF ResultCommitted
<1>9. /\ \A u \in Tasks \ {t} : run'[u] = run[u] /\ attempts'[u] = attempts[u]
      /\ \A d \in OneShots : d # <<t, attempts[t]>> => work'[d] = work[d]
      /\ \A i \in DOMAIN ledger : i \in DOMAIN ledger' /\ ledger'[i].child = ledger[i].child
      /\ LedgerIsBacked'
  BY <1>1, <1>2, <1>3, <1>4, SameLedger
<1>10. QED
  BY <1>5, <1>6, <1>7, <1>8, <1>9, OneDelegation

\* The start is lost: the gated task is cancelled before it ran.
LEMMA StartLostStep ==
  ASSUME Delegations, Kept, NEW t \in Tasks, NEW ending \in {"cancelled", "error"},
         StartLost(t, ending)
  PROVE  Delegations'
<1> DEFINE c == ChildOf(t)
<1>1. /\ run[t].pc \in {"loading", "starting"} /\ ledger' = ledger /\ attempts' = attempts
      /\ run' = [run EXCEPT ![t].pc = "done", ![t].ended = ending]
      /\ work' = [work EXCEPT ![c] = NoWork]
  BY DEF StartLost
<1>2. c \in OneShots /\ c = <<t, attempts[t]>>
  BY <1>1 DEF Delegations, AttemptRecorded, ChildOf, OneShots
<1>3. /\ run' \in [Tasks -> Run] /\ run'[t].pc = "done" /\ run'[t].left = run[t].left
      /\ \A u \in Tasks \ {t} : run'[u] = run[u]
  BY <1>1 DEF Delegations, DelegationTypes, Run, RunPc, RunEnd
<1>4. /\ work' \in [OneShots -> Work] /\ work'[c].at = "none"
      /\ \A d \in OneShots : d # c => work'[d] = work[d]
  BY <1>1, <1>2 DEF Delegations, DelegationTypes, Work, WorkAt, NoWork
<1>5. DelegationTypes'
  BY <1>1, <1>3, <1>4 DEF Delegations, DelegationTypes
<1>6. AttemptRecorded(t)'
  BY <1>3 DEF AttemptRecorded
<1>7. ASSUME NEW k \in 1..MaxAttempts PROVE WorkAccounted(t, k)'
  <2>1. CASE k = attempts[t]
    BY <1>2, <1>4, <2>1 DEF WorkAccounted
  <2>2. CASE k # attempts[t]
    <3>1. <<t, k>> \in OneShots /\ <<t, k>> # c /\ WorkAccounted(t, k)
      BY <1>2, <2>2 DEF OneShots, Delegations
    <3>2. QED
      BY <1>1, <1>3, <1>4, <2>2, <3>1 DEF WorkAccounted
  <2>3. QED
    BY <2>1, <2>2
<1>8. \A d \in OneShots : d = <<t, attempts[t]>> => ResultCommitted(d)'
  BY <1>2, <1>4 DEF ResultCommitted
<1>9. /\ \A u \in Tasks \ {t} : run'[u] = run[u] /\ attempts'[u] = attempts[u]
      /\ \A d \in OneShots : d # <<t, attempts[t]>> => work'[d] = work[d]
      /\ \A i \in DOMAIN ledger : i \in DOMAIN ledger' /\ ledger'[i].child = ledger[i].child
      /\ LedgerIsBacked'
  BY <1>1, <1>2, <1>3, <1>4, SameLedger
<1>10. QED
  BY <1>5, <1>6, <1>7, <1>8, <1>9, OneDelegation

\* The work ends and the monitor settles it: completed only behind its event.
LEMMA MonitorStepKeeps ==
  ASSUME Delegations, IsStream, Kept, NEW c \in OneShots, MonitorStep(c)
  PROVE  Delegations'
<1>1. ledger' = ledger /\ attempts' = attempts /\ run' = run
  BY DEF MonitorStep, WorkEnds, Settle, SettleFails
<1>2. /\ work' \in [OneShots -> Work]
      /\ \A d \in OneShots : d # c => work'[d] = work[d]
      /\ work'[c].at \in {"ended", "settled"}
  <2>1. work \in [OneShots -> Work] /\ work[c].reason \in Reasons \cup {"none"}
    BY DEF Delegations, DelegationTypes, Work
  <2>2. ASSUME NEW new \in Work, work' = [work EXCEPT ![c] = new],
               new.at \in {"ended", "settled"}
        PROVE  /\ work' \in [OneShots -> Work]
               /\ \A d \in OneShots : d # c => work'[d] = work[d]
               /\ work'[c].at \in {"ended", "settled"}
    BY <2>1, <2>2
  <2>3. ASSUME NEW reason \in Reasons, WorkEnds(c, reason)
        PROVE  work' = [work EXCEPT ![c] = [at |-> "ended", reason |-> reason]]
               /\ [at |-> "ended", reason |-> reason] \in Work
    BY <2>3 DEF WorkEnds, Work, WorkAt
  <2>4. ASSUME Settle(c)
        PROVE  work' = [work EXCEPT ![c] = [work[c] EXCEPT !.at = "settled"]]
               /\ [work[c] EXCEPT !.at = "settled"] \in Work
               /\ [work[c] EXCEPT !.at = "settled"].at = "settled"
    BY <2>1, <2>4 DEF Settle, Work, WorkAt
  <2>5. ASSUME SettleFails(c)
        PROVE  work' = [work EXCEPT ![c] = [at |-> "settled", reason |-> "error"]]
               /\ [at |-> "settled", reason |-> "error"] \in Work
    BY <2>5 DEF SettleFails, Work, WorkAt, Reasons
  <2>6. QED
    BY <2>2, <2>3, <2>4, <2>5 DEF MonitorStep
<1>3. DelegationTypes'
  BY <1>1, <1>2 DEF Delegations, DelegationTypes
<1>4. ASSUME NEW t \in Tasks PROVE AttemptRecorded(t)'
  <2>1. ChildOf(t)' = ChildOf(t) /\ AttemptRecorded(t)
    BY <1>1 DEF ChildOf, Delegations
  <2>2. QED
    BY <1>1, <2>1 DEF AttemptRecorded
<1>5. ASSUME NEW t \in Tasks, NEW k \in 1..MaxAttempts PROVE WorkAccounted(t, k)'
  <2>1. WorkAccounted(t, k) /\ <<t, k>> \in OneShots
    BY DEF Delegations, OneShots
  <2>2. QED
    BY <1>1, <1>2, <2>1 DEF WorkAccounted
<1>6. ASSUME NEW d \in OneShots, d # c PROVE ResultCommitted(d)'
  <2>1. ResultCommitted(d) /\ work'[d] = work[d]
    BY <1>2, <1>6 DEF Delegations
  <2>2. QED
    BY <2>1, KeptBacking DEF ResultCommitted, Reasons
<1>7. ResultCommitted(c)'
  <2>1. ASSUME NEW reason \in Reasons, WorkEnds(c, reason) PROVE ResultCommitted(c)'
    <3>1. work'[c].at = "ended"
      BY <2>1 DEF WorkEnds, Delegations, DelegationTypes
    <3>2. QED
      BY <3>1 DEF ResultCommitted
  <2>2. CASE Settle(c)
    <3>1. Commit(Ended(c, work[c].reason)) /\ work'[c].reason = work[c].reason
      BY <2>2 DEF Settle, Delegations, DelegationTypes, Work
    <3>2. \E k \in DOMAIN log' : log'[k] = Ended(c, work[c].reason)
      BY <3>1, CommitGrows
    <3>3. QED
      BY <3>1, <3>2 DEF ResultCommitted
  <2>3. CASE SettleFails(c)
    <3>1. work'[c].reason = "error"
      BY <2>3 DEF SettleFails, Delegations, DelegationTypes
    <3>2. QED
      BY <3>1 DEF ResultCommitted
  <2>4. QED
    BY <2>1, <2>2, <2>3 DEF MonitorStep
<1>8. \A d \in OneShots : ResultCommitted(d)'
  BY <1>6, <1>7
<1>9. \A t \in Tasks : AttemptRecorded(t)'
  BY <1>4
<1>10. \A t \in Tasks, k \in 1..MaxAttempts : WorkAccounted(t, k)'
  BY <1>5
<1>11. LedgerIsBacked'
  BY <1>1, SameLedger
<1>12. QED
  BY <1>3, <1>8, <1>9, <1>10, <1>11 DEF Delegations

\* The result is collected: its work has settled, and the record says how.
LEMMA CollectStep ==
  ASSUME Delegations, Kept, NEW t \in Tasks, Collect(t)
  PROVE  Delegations'
<1> DEFINE c == ChildOf(t)
           st == LedgerStatus(work[c].reason)
<1>1. /\ run[t].pc = "watching" /\ attempts' = attempts /\ work' = work
      /\ work[c].at = "settled" /\ FinishLedger(c, st)
      /\ run' = [run EXCEPT ![t].pc = "done", ![t].ended = work[c].reason]
  BY DEF Collect
<1>2. c \in OneShots /\ c = <<t, attempts[t]>>
  BY <1>1 DEF Delegations, AttemptRecorded, ChildOf, OneShots
<1>3. /\ run' \in [Tasks -> Run] /\ run'[t].pc = "done" /\ run'[t].left = run[t].left
      /\ \A u \in Tasks \ {t} : run'[u] = run[u]
  <2>1. work[c].reason \in RunEnd
    BY <1>2 DEF Delegations, DelegationTypes, Work, Reasons, RunEnd
  <2> HIDE DEF c
  <2>2. QED
    BY <1>1, <2>1 DEF Delegations, DelegationTypes, Run, RunPc
<1>4. /\ st \in {"succeeded", "cancelled", "failed"}
      /\ st = "succeeded" => work[c].reason = "completed"
  BY DEF LedgerStatus
<1>5. /\ ledger' \in Seq(LedgerRow)
      /\ DOMAIN ledger' = DOMAIN ledger
      /\ \A i \in DOMAIN ledger :
           /\ ledger'[i].child = ledger[i].child
           /\ \/ ledger'[i].status = ledger[i].status
              \/ ledger'[i].status = st /\ ledger[i].child = c
  BY <1>1, <1>4, FinishedLedger
<1>6. st = "succeeded" => \E k \in DOMAIN log' : log'[k] = Ended(c, "completed")
  BY <1>1, <1>2, <1>4, KeptBacking DEF Delegations, ResultCommitted, Reasons
<1>7. LedgerIsBacked'
  BY <1>4, <1>5, <1>6, LedgerRewritten
<1>8. DelegationTypes'
  BY <1>1, <1>3, <1>5 DEF Delegations, DelegationTypes
<1>9. AttemptRecorded(t)'
  BY <1>3 DEF AttemptRecorded
<1>10. ASSUME NEW k \in 1..MaxAttempts PROVE WorkAccounted(t, k)'
  <2>1. WorkAccounted(t, k)
    BY DEF Delegations
  <2>2. k = attempts[t] => work[<<t, k>>].at = "settled"
    BY <1>1, <1>2
  <2>3. QED
    BY <1>1, <1>3, <2>1, <2>2 DEF WorkAccounted
<1>11. \A d \in OneShots : ResultCommitted(d)'
  BY <1>1, KeptBacking DEF Delegations, ResultCommitted, Reasons
<1>12. QED
  BY <1>1, <1>3, <1>5, <1>7, <1>8, <1>9, <1>10, <1>11, OneDelegation

\* The delegation is cancelled: its work unwinds, or had ended already.
LEMMA CancelDelegationStep ==
  ASSUME Delegations, Kept, NEW t \in Tasks, CancelDelegation(t)
  PROVE  Delegations'
<1> DEFINE c == ChildOf(t)
<1>1. /\ run[t].pc = "watching" /\ attempts' = attempts /\ FinishLedger(c, "cancelled")
      /\ work' = [work EXCEPT ![c].at = IF @ = "working" THEN "unwinding" ELSE @]
      /\ run' = [run EXCEPT ![t].pc = "disposing"]
  BY DEF CancelDelegation
<1>2. c \in OneShots /\ c = <<t, attempts[t]>> /\ attempts[t] \in 1..MaxAttempts
  BY <1>1 DEF Delegations, AttemptRecorded, ChildOf, OneShots
<1>3. /\ run' \in [Tasks -> Run] /\ run'[t].pc = "disposing" /\ run'[t].left = run[t].left
      /\ \A u \in Tasks \ {t} : run'[u] = run[u]
  BY <1>1 DEF Delegations, DelegationTypes, Run, RunPc
<1>4. /\ work' \in [OneShots -> Work] /\ work'[c].reason = work[c].reason
      /\ work'[c].at = (IF work[c].at = "working" THEN "unwinding" ELSE work[c].at)
      /\ \A d \in OneShots : d # c => work'[d] = work[d]
  BY <1>1, <1>2 DEF Delegations, DelegationTypes, Work, WorkAt
<1>5. /\ ledger' \in Seq(LedgerRow)
      /\ DOMAIN ledger' = DOMAIN ledger
      /\ \A i \in DOMAIN ledger :
           /\ ledger'[i].child = ledger[i].child
           /\ ledger'[i].status \in {ledger[i].status, "cancelled"}
  BY <1>1, FinishedLedger
<1>6. LedgerIsBacked'
  BY <1>5, LedgerRewritten
<1>7. DelegationTypes'
  BY <1>1, <1>3, <1>4, <1>5 DEF Delegations, DelegationTypes
<1>8. AttemptRecorded(t)'
  BY <1>1, <1>2, <1>3 DEF AttemptRecorded
<1>9. ASSUME NEW k \in 1..MaxAttempts PROVE WorkAccounted(t, k)'
  <2>1. CASE k = attempts[t]
    BY <1>1, <1>3, <2>1 DEF WorkAccounted
  <2>2. CASE k # attempts[t]
    <3>1. <<t, k>> \in OneShots /\ <<t, k>> # c /\ WorkAccounted(t, k)
      BY <1>2, <2>2 DEF OneShots, Delegations
    <3>2. QED
      BY <1>1, <1>3, <1>4, <2>2, <3>1 DEF WorkAccounted
  <2>3. QED
    BY <2>1, <2>2
<1>10. ASSUME NEW d \in OneShots, d = <<t, attempts[t]>> PROVE ResultCommitted(d)'
  <2>1. ResultCommitted(d)
    BY DEF Delegations
  <2>2. /\ work'[d].reason = work[d].reason
        /\ work'[d].at = "settled" => work[d].at = "settled"
    BY <1>2, <1>4, <1>10
  <2>3. QED
    BY <2>1, <2>2, KeptBacking DEF ResultCommitted, Reasons
<1>11. /\ \A u \in Tasks \ {t} : run'[u] = run[u] /\ attempts'[u] = attempts[u]
       /\ \A d \in OneShots : d # <<t, attempts[t]>> => work'[d] = work[d]
       /\ \A i \in DOMAIN ledger : i \in DOMAIN ledger' /\ ledger'[i].child = ledger[i].child
  BY <1>1, <1>2, <1>3, <1>4, <1>5
<1>12. QED
  BY <1>6, <1>7, <1>8, <1>9, <1>10, <1>11, OneDelegation

\* dispose returns, or gives up on a child that does not settle.
LEMMA DisposeSteps ==
  ASSUME Delegations, Kept, NEW t \in Tasks, Disposed(t) \/ DisposeTimesOut(t)
  PROVE  Delegations'
<1>1. /\ run[t].pc = "disposing" /\ attempts' = attempts /\ work' = work /\ ledger' = ledger
  BY DEF Disposed, DisposeTimesOut
<1>2. ChildOf(t) = <<t, attempts[t]>> /\ attempts[t] \in 1..MaxAttempts
  BY <1>1 DEF Delegations, AttemptRecorded, ChildOf
<1>3. /\ run' \in [Tasks -> Run] /\ run'[t].pc = "done"
      /\ \A u \in Tasks \ {t} : run'[u] = run[u]
      /\ \/ run'[t].left = run[t].left /\ work[ChildOf(t)].at = "settled"
         \/ run'[t].left = run[t].left \cup {attempts[t]}
  <2>1. CASE Disposed(t)
    BY <2>1 DEF Disposed, Delegations, DelegationTypes, Run, RunPc, RunEnd
  <2>2. CASE DisposeTimesOut(t)
    <3>1. run' = [run EXCEPT ![t].pc = "done", ![t].ended = "stuck",
                             ![t].left = @ \cup {attempts[t]}]
      BY <2>2 DEF DisposeTimesOut
    <3>2. run[t].left \cup {attempts[t]} \in SUBSET Nat
      BY DEF Delegations, DelegationTypes, Run
    <3>3. QED
      BY <3>1, <3>2 DEF Delegations, DelegationTypes, Run, RunPc, RunEnd
  <2>3. QED
    BY <2>1, <2>2
<1>4. DelegationTypes'
  BY <1>1, <1>3 DEF Delegations, DelegationTypes
<1>5. AttemptRecorded(t)'
  BY <1>3 DEF AttemptRecorded
<1>6. ASSUME NEW k \in 1..MaxAttempts PROVE WorkAccounted(t, k)'
  <2>1. WorkAccounted(t, k)
    BY DEF Delegations
  <2>2. QED
    BY <1>1, <1>2, <1>3, <2>1 DEF WorkAccounted
<1>7. \A d \in OneShots : ResultCommitted(d)'
  BY <1>1, KeptBacking DEF Delegations, ResultCommitted, Reasons
<1>8. QED
  BY <1>1, <1>3, <1>4, <1>5, <1>6, <1>7, SameLedger, OneDelegation

\* Every step of a delegation.
LEMMA DelegationStepKeeps ==
  ASSUME Delegations, Kept, NEW t \in Tasks, DelegationStep(t)
  PROVE  Delegations'
BY DelegateStep, LoadSkillsStep, StartChildStep, StartLostStep, CollectStep,
   CancelDelegationStep, DisposeSteps
   DEF DelegationStep

\* A session opens: what the ledger says is running is called interrupted.
LEMMA StartSessionStep ==
  ASSUME Delegations, Kept, StartSession
  PROVE  Delegations'
<1>1. UNCHANGED <<attempts, run, work>> /\ (ledger' = ledger \/ ledger' = LoadedLedger)
  BY DEF StartSession
<1>2. CASE ledger' = ledger
  BY <1>1, <1>2, OtherSteps
<1>3. CASE ledger' = LoadedLedger
  <2>1. ledger \in Seq(LedgerRow)
    BY DEF Delegations, DelegationTypes
  <2>2. DOMAIN ledger' = DOMAIN ledger
    BY <1>3 DEF LoadedLedger
  <2>3. ASSUME NEW i \in DOMAIN ledger
        PROVE  /\ ledger'[i] \in LedgerRow
               /\ ledger'[i].child = ledger[i].child
               /\ ledger'[i].status \in {ledger[i].status, "interrupted"}
    <3>1. ledger[i] \in LedgerRow
      BY <2>1
    <3>2. ledger'[i] = IF ledger[i].status = "running"
                       THEN [ledger[i] EXCEPT !.status = "interrupted"] ELSE ledger[i]
      BY <1>3 DEF LoadedLedger
    <3>3. QED
      BY <3>1, <3>2 DEF LedgerRow, LedgerState
  <2>4. ledger' = [i \in DOMAIN ledger |-> ledger'[i]]
    BY <1>3 DEF LoadedLedger
  <2>5. ledger' \in Seq(LedgerRow)
    <3> DEFINE f == ledger'
    <3>1. /\ DOMAIN f = DOMAIN ledger /\ f = [i \in DOMAIN ledger |-> f[i]]
          /\ \A i \in DOMAIN ledger : f[i] \in LedgerRow
      BY <2>2, <2>3, <2>4
    <3> HIDE DEF f
    <3>2. f \in Seq(LedgerRow)
      BY <2>1, <3>1
    <3>3. QED
      BY <3>2 DEF f
  <2>6. DelegationTypes'
    BY <1>1, <2>5 DEF Delegations, DelegationTypes
  <2>7. LedgerIsBacked'
    BY <2>2, <2>3, LedgerRewritten
  <2>8. ASSUME NEW t \in Tasks PROVE AttemptRecorded(t)'
    <3>1. ChildOf(t)' = ChildOf(t) /\ AttemptRecorded(t)
      BY <1>1 DEF ChildOf, Delegations
    <3>2. QED
      BY <1>1, <2>2, <2>3, <3>1 DEF AttemptRecorded
  <2>9. \A t \in Tasks, k \in 1..MaxAttempts : WorkAccounted(t, k)'
    BY <1>1 DEF Delegations, WorkAccounted
  <2>10. \A d \in OneShots : ResultCommitted(d)'
    BY <1>1, KeptBacking DEF Delegations, ResultCommitted, Reasons
  <2>11. QED
    BY <2>6, <2>7, <2>8, <2>9, <2>10 DEF Delegations
<1>4. QED
  BY <1>1, <1>2, <1>3

\* The process dies: no work and no delegation is left, the files stand.
LEMMA CrashStep ==
  ASSUME Delegations, Kept, Crash
  PROVE  Delegations'
<1>1. /\ ledger' = ledger /\ attempts' = attempts
      /\ run' = [t \in Tasks |-> IdleRun] /\ work' = [c \in OneShots |-> NoWork]
  BY DEF Crash
<1>2. IdleRun \in Run /\ NoWork \in Work
  BY DEF IdleRun, NoWork, Run, RunPc, RunEnd, Work, WorkAt
<1>3. /\ \A t \in Tasks : run'[t].pc = "idle"
      /\ \A c \in OneShots : work'[c].at = "none"
  BY <1>1 DEF IdleRun, NoWork
<1>4. DelegationTypes'
  BY <1>1, <1>2 DEF Delegations, DelegationTypes
<1>5. \A t \in Tasks : AttemptRecorded(t)'
  BY <1>3 DEF AttemptRecorded
<1>6. \A t \in Tasks, k \in 1..MaxAttempts : WorkAccounted(t, k)'
  BY <1>3 DEF WorkAccounted, OneShots
<1>7. \A c \in OneShots : ResultCommitted(c)'
  BY <1>3 DEF ResultCommitted
<1>8. QED
  BY <1>1, <1>4, <1>5, <1>6, <1>7, SameLedger DEF Delegations

\* Every step of the session, the lead's, the delegations', the children's.
LEMMA DelegationsStep ==
  ASSUME Delegations, IsStream, [Next]_vars
  PROVE  Delegations' /\ IsStream'
<1>1. IsStream' /\ Kept
  BY StreamGrows
<1>2. CASE UNCHANGED vars
  BY <1>1, <1>2, OtherSteps DEF vars, leadVars
<1>3. CASE Execute \/ StartRefused \/ Return \/ Boot
  BY <1>1, <1>3, OtherSteps DEF Execute, StartRefused, Return, Boot
<1>4. ASSUME NEW c \in Children, ChildStep(c) PROVE Delegations'
  <2>1. UNCHANGED <<ledger, attempts, run, work>>
    BY <1>4 DEF ChildStep, Create, Submit, Take, Follow, StartTurn, ReportTurn, TurnEnds,
                EndTurn, SettleChild, AppendLost, Restore, leadVars
  <2>2. QED
    BY <1>1, <2>1, OtherSteps
<1>5. ASSUME NEW t \in Tasks, DelegationStep(t) PROVE Delegations'
  BY <1>1, <1>5, DelegationStepKeeps
<1>6. ASSUME NEW c \in OneShots, MonitorStep(c) PROVE Delegations'
  BY <1>1, <1>6, MonitorStepKeeps
<1>7. QED
  BY <1>1, <1>2, <1>3, <1>4, <1>5, <1>6, StartSessionStep, CrashStep DEF Next

\* The session before it opens.
LEMMA DelegationsInit ==
  ASSUME Init
  PROVE  Delegations /\ IsStream
<1>1. /\ ledger = <<>> /\ log = <<>> /\ attempts = [t \in Tasks |-> 0]
      /\ run = [t \in Tasks |-> IdleRun] /\ work = [c \in OneShots |-> NoWork]
  BY DEF Init
<1>2. IdleRun \in Run /\ NoWork \in Work
  BY DEF IdleRun, NoWork, Run, RunPc, RunEnd, Work, WorkAt
<1>3. /\ \A t \in Tasks : run[t].pc = "idle"
      /\ \A c \in OneShots : work[c].at = "none"
  BY <1>1 DEF IdleRun, NoWork
<1>4. DelegationTypes
  BY <1>1, <1>2 DEF DelegationTypes
<1>5. \A t \in Tasks, k \in 1..MaxAttempts : WorkAccounted(t, k)
  BY <1>3 DEF WorkAccounted, OneShots
<1>6. LedgerIsBacked /\ IsStream
  BY <1>1 DEF LedgerIsBacked, IsStream
<1>7. QED
  BY <1>3, <1>4, <1>5, <1>6 DEF Delegations, AttemptRecorded, ResultCommitted

\* The ledger never claims a success the stream cannot show, whatever the
\* interleaving of tasks and children, the lost appends and the deaths.
THEOREM LedgerAlwaysBacked == Spec => []LedgerIsBacked
<1>1. Init => Delegations /\ IsStream
  BY DelegationsInit
<1>2. (Delegations /\ IsStream) /\ [Next]_vars => (Delegations /\ IsStream)'
  BY DelegationsStep
<1>3. Delegations => LedgerIsBacked
  BY DEF Delegations
<1>4. QED
  BY <1>1, <1>2, <1>3, PTL DEF Spec

\* Two attempts of a task are never at work together, unless the disposal of the
\* earlier one timed out.
THEOREM AttemptsNeverOverlap == Spec => []AttemptsDoNotOverlap
<1>1. Init => Delegations /\ IsStream
  BY DelegationsInit
<1>2. (Delegations /\ IsStream) /\ [Next]_vars => (Delegations /\ IsStream)'
  BY DelegationsStep
<1>3. Delegations => AttemptsDoNotOverlap
  BY DEF Delegations, WorkAccounted, AttemptsDoNotOverlap
<1>4. QED
  BY <1>1, <1>2, <1>3, PTL DEF Spec

-----------------------------------------------------------------------------
(* Follow-ups. *)

ChildPc == {"free", "settling", "following", "opening", "working", "ending"}
Child == [known : BOOLEAN, pc : ChildPc, message : Nat,
          settled : BOOLEAN, followups : Nat, turns : Nat, reports : Nat]

TurnTypes ==
  /\ child \in [Children -> Child]
  /\ queue \in [Children -> Seq(Nat)] /\ worked \in [Children -> Seq(Nat)]
  /\ sent \in [Children -> Nat]

\* What has run, what holds the lock and what waits for it, as numbers below s.
Waiting(q, s) ==
  /\ \A i \in DOMAIN q : q[i] <= s
  /\ \A i, j \in DOMAIN q : i < j /\ q[i] # 0 /\ q[j] # 0 => q[i] < q[j]
Ran(w, s) ==
  /\ \A i \in DOMAIN w : w[i] <= s
  /\ \A i, j \in DOMAIN w : i < j => w[i] < w[j]
Before(w, q) == \A i \in DOMAIN w, j \in DOMAIN q : q[j] # 0 => w[i] < q[j]
Between(m, w, q, s) ==
  /\ m <= s
  /\ \A i \in DOMAIN w : w[i] < m
  /\ \A j \in DOMAIN q : q[j] # 0 => m < q[j]

InOrder(c) ==
  /\ Waiting(queue[c], sent[c]) /\ Ran(worked[c], sent[c]) /\ Before(worked[c], queue[c])
  /\ child[c].pc \in {"following", "opening"}
       => Between(child[c].message, worked[c], queue[c], sent[c])

Turns == TurnTypes /\ \A c \in Children : InOrder(c)

\* A submission is newer than everything, or a settlement.
LEMMA Submitted ==
  ASSUME NEW q \in Seq(Nat), NEW w \in Seq(Nat), NEW s \in Nat, NEW m \in {0, s + 1},
         Waiting(q, s), Ran(w, s), Before(w, q)
  PROVE  /\ Append(q, m) \in Seq(Nat)
         /\ Waiting(Append(q, m), s + 1) /\ Ran(w, s + 1) /\ Before(w, Append(q, m))
         /\ \A h \in Nat : Between(h, w, q, s) => Between(h, w, Append(q, m), s + 1)
<1> DEFINE p == Append(q, m)
<1>1. /\ p \in Seq(Nat) /\ Len(q) \in Nat /\ Len(p) = Len(q) + 1 /\ p[Len(q) + 1] = m
      /\ DOMAIN q = 1..Len(q) /\ DOMAIN p = 1..(Len(q) + 1)
      /\ \A i \in DOMAIN q : p[i] = q[i] /\ q[i] \in Nat
      /\ \A i \in DOMAIN w : w[i] \in Nat
  OBVIOUS
<1> HIDE DEF p
<1>2. ASSUME NEW i \in DOMAIN p
      PROVE  (i \in DOMAIN q /\ p[i] = q[i]) \/ (i = Len(q) + 1 /\ p[i] = m)
  <2>1. i \in 1..Len(q) \/ i = Len(q) + 1
    BY <1>1
  <2>2. CASE i \in 1..Len(q)
    BY <1>1, <2>2
  <2>3. CASE i = Len(q) + 1
    BY <1>1, <2>3
  <2>4. QED
    BY <2>1, <2>2, <2>3
<1>3. \A i \in DOMAIN q : q[i] <= s
  BY DEF Waiting
<1>4. \A i \in DOMAIN w : w[i] <= s
  BY DEF Ran
<1>5. Waiting(p, s + 1)
  <2>1. \A i \in DOMAIN p : p[i] <= s + 1
    BY <1>1, <1>2, <1>3
  <2>2. ASSUME NEW i \in DOMAIN p, NEW j \in DOMAIN p, i < j, p[i] # 0, p[j] # 0
        PROVE  p[i] < p[j]
    <3>1. i \in DOMAIN q /\ p[i] = q[i]
      BY <1>1, <1>2, <2>2
    <3>2. CASE j \in DOMAIN q /\ p[j] = q[j]
      BY <2>2, <3>1, <3>2 DEF Waiting
    <3>3. CASE p[j] = m
      <4>1. q[i] <= s /\ q[i] \in Nat /\ p[j] = s + 1
        BY <1>1, <1>3, <2>2, <3>1, <3>3
      <4>2. QED
        BY <3>1, <4>1
    <3>4. QED
      BY <1>2, <3>2, <3>3
  <2>3. QED
    BY <2>1, <2>2 DEF Waiting
<1>6. Ran(w, s + 1)
  BY <1>1 DEF Ran
<1>7. Before(w, p)
  <2>1. ASSUME NEW i \in DOMAIN w, NEW j \in DOMAIN p, p[j] # 0 PROVE w[i] < p[j]
    <3>1. w[i] <= s /\ w[i] \in Nat
      BY <1>1, <1>4
    <3>2. CASE j \in DOMAIN q /\ p[j] = q[j]
      BY <2>1, <3>2 DEF Before
    <3>3. CASE p[j] = m
      BY <2>1, <3>1, <3>3
    <3>4. QED
      BY <1>2, <3>2, <3>3
  <2>2. QED
    BY <2>1 DEF Before
<1>8. ASSUME NEW h \in Nat, Between(h, w, q, s) PROVE Between(h, w, p, s + 1)
  <2>1. ASSUME NEW j \in DOMAIN p, p[j] # 0 PROVE h < p[j]
    <3>1. CASE j \in DOMAIN q /\ p[j] = q[j]
      BY <1>8, <2>1, <3>1 DEF Between
    <3>2. CASE p[j] = m
      BY <1>8, <2>1, <3>2 DEF Between
    <3>3. QED
      BY <1>2, <3>1, <3>2
  <2>2. QED
    BY <1>8, <2>1 DEF Between
<1>9. QED
  BY <1>1, <1>5, <1>6, <1>7, <1>8 DEF p

\* The first in line, and those behind it.
LEMMA TakenFirst ==
  ASSUME NEW q \in Seq(Nat), q # <<>>, NEW w \in Seq(Nat), NEW s \in Nat,
         Waiting(q, s), Before(w, q)
  PROVE  /\ Tail(q) \in Seq(Nat) /\ Head(q) \in Nat
         /\ Waiting(Tail(q), s) /\ Before(w, Tail(q))
         /\ Head(q) # 0 => Between(Head(q), w, Tail(q), s)
<1>1. /\ Len(q) \in Nat /\ Len(q) > 0 /\ Tail(q) \in Seq(Nat) /\ Len(Tail(q)) = Len(q) - 1
      /\ Head(q) = q[1] /\ DOMAIN q = 1..Len(q) /\ DOMAIN Tail(q) = 1..(Len(q) - 1)
      /\ \A i \in 1..(Len(q) - 1) : Tail(q)[i] = q[i + 1]
      /\ \A i \in DOMAIN q : q[i] \in Nat
  OBVIOUS
<1> DEFINE p == Tail(q)
<1>2. /\ 1 \in DOMAIN q
      /\ \A i \in DOMAIN p : i + 1 \in DOMAIN q /\ p[i] = q[i + 1] /\ i \in Nat /\ 1 < i + 1
  BY <1>1
<1> HIDE DEF p
<1>3. Waiting(p, s)
  BY <1>2 DEF Waiting
<1>4. Before(w, p)
  BY <1>2 DEF Before
<1>5. q[1] # 0 => Between(q[1], w, p, s)
  BY <1>1, <1>2 DEF Between, Waiting, Before
<1>6. QED
  BY <1>1, <1>3, <1>4, <1>5 DEF p

\* The message that held the lock runs, after all that ran before it.
LEMMA RunNext ==
  ASSUME NEW q \in Seq(Nat), NEW w \in Seq(Nat), NEW s \in Nat, NEW m \in Nat,
         Ran(w, s), Before(w, q), Between(m, w, q, s)
  PROVE  Append(w, m) \in Seq(Nat) /\ Ran(Append(w, m), s) /\ Before(Append(w, m), q)
<1> DEFINE v == Append(w, m)
<1>1. /\ v \in Seq(Nat) /\ Len(w) \in Nat /\ v[Len(w) + 1] = m
      /\ DOMAIN w = 1..Len(w) /\ DOMAIN v = 1..(Len(w) + 1)
      /\ \A i \in DOMAIN w : v[i] = w[i]
  OBVIOUS
<1> HIDE DEF v
<1>2. ASSUME NEW i \in DOMAIN v
      PROVE  (i \in DOMAIN w /\ v[i] = w[i]) \/ (i = Len(w) + 1 /\ v[i] = m)
  <2>1. i \in 1..Len(w) \/ i = Len(w) + 1
    BY <1>1
  <2>2. CASE i \in 1..Len(w)
    BY <1>1, <2>2
  <2>3. CASE i = Len(w) + 1
    BY <1>1, <2>3
  <2>4. QED
    BY <2>1, <2>2, <2>3
<1>3. Ran(v, s)
  <2>1. \A i \in DOMAIN v : v[i] <= s
    BY <1>2 DEF Ran, Between
  <2>2. ASSUME NEW i \in DOMAIN v, NEW j \in DOMAIN v, i < j PROVE v[i] < v[j]
    <3>1. i \in DOMAIN w /\ v[i] = w[i]
      BY <1>1, <1>2, <2>2
    <3>2. QED
      BY <1>2, <2>2, <3>1 DEF Ran, Between
  <2>3. QED
    BY <2>1, <2>2 DEF Ran
<1>4. Before(v, q)
  BY <1>2 DEF Before, Between
<1>5. QED
  BY <1>1, <1>3, <1>4 DEF v

\* A step of one child: the others keep their order.
LEMMA OneTurn ==
  ASSUME Turns, NEW c \in Children, TurnTypes', InOrder(c)',
         \A d \in Children \ {c} : /\ child'[d] = child[d] /\ queue'[d] = queue[d]
                                   /\ sent'[d] = sent[d] /\ worked'[d] = worked[d]
  PROVE  Turns'
<1>1. ASSUME NEW d \in Children, d # c PROVE InOrder(d)'
  BY <1>1 DEF Turns, InOrder
<1>2. QED
  BY <1>1 DEF Turns

\* A step under the lock that neither takes a message nor runs one.
LEMMA UnderLock ==
  ASSUME Turns, NEW c \in Children, NEW state \in Child, Set(c, state),
         UNCHANGED <<queue, sent, worked>>,
         state.pc \in {"following", "opening"}
           => child[c].pc \in {"following", "opening"} /\ state.message = child[c].message
  PROVE  Turns'
<1>1. /\ child' \in [Children -> Child] /\ child'[c] = state
      /\ \A d \in Children \ {c} : child'[d] = child[d]
  BY DEF Set, Turns, TurnTypes
<1>2. TurnTypes'
  BY <1>1 DEF Turns, TurnTypes
<1>3. InOrder(c)'
  BY <1>1 DEF Turns, InOrder
<1>4. QED
  BY <1>1, <1>2, <1>3, OneTurn

\* What a child's counters are set to is in their type.
LEMMA ChildStates ==
  ASSUME Turns, IsStream, NEW c \in Children
  PROVE  /\ child[c] \in Child /\ FreshChild \in Child
         /\ Freed(c) \in Child /\ Freed(c).pc = "free"
         /\ \A type : Count(type, c) \in Nat
<1>1. child[c] \in Child /\ FreshChild \in Child
  BY DEF Turns, TurnTypes, FreshChild, Child, ChildPc
<1>2. Freed(c) \in Child /\ Freed(c).pc = "free"
  BY <1>1 DEF Freed, Child, ChildPc
<1>3. ASSUME NEW type PROVE Count(type, c) \in Nat
  <2> DEFINE B == {i \in DOMAIN log : log[i].type = type /\ log[i].id = Id(c)}
  <2>1. PICK S : log \in Seq(S)
    BY DEF IsStream
  <2>2. DOMAIN log = 1..Len(log) /\ Len(log) \in Nat
    BY <2>1
  <2>3. IsFiniteSet(DOMAIN log)
    BY <2>2, FS_Interval
  <2>4. IsFiniteSet(B)
    BY <2>3, FS_Subset
  <2>5. QED
    BY <2>4, FS_CardinalityType DEF Count
<1>4. QED
  BY <1>1, <1>2, <1>3

\* The steps of followup, settle and restore that keep the line as it is.
LEMMA LockSteps ==
  ASSUME Turns, IsStream, NEW c \in Children,
         \/ Create(c) \/ Follow(c) \/ ReportTurn(c) \/ EndTurn(c) \/ SettleChild(c)
         \/ AppendLost(c) \/ Restore(c) \/ TurnEnds(c)
  PROVE  Turns'
<1>1. child[c] \in Child /\ Freed(c) \in Child /\ Freed(c).pc = "free"
  BY ChildStates
<1>2. CASE Create(c)
  <2> DEFINE new == [child[c] EXCEPT !.known = TRUE]
  <2>1. new \in Child /\ new.pc = child[c].pc /\ new.message = child[c].message
    BY <1>1 DEF Child
  <2>2. Set(c, new) /\ UNCHANGED <<queue, sent, worked>>
    BY <1>2 DEF Create
  <2> HIDE DEF new
  <2>3. QED
    BY <2>1, <2>2, UnderLock
<1>3. CASE Follow(c)
  <2> DEFINE new == [child[c] EXCEPT !.pc = "opening", !.turns = @ + 1]
  <2>1. new \in Child /\ new.message = child[c].message
    <3>1. child[c].turns + 1 \in Nat /\ "opening" \in ChildPc
      BY <1>1 DEF Child, ChildPc
    <3>2. QED
      BY <1>1, <3>1 DEF Child
  <2>2. /\ Set(c, new) \/ Set(c, Freed(c))
        /\ UNCHANGED <<queue, sent, worked>> /\ child[c].pc = "following"
    BY <1>3 DEF Follow
  <2> HIDE DEF new
  <2>3. QED
    BY <1>1, <2>1, <2>2, UnderLock
<1>4. CASE ReportTurn(c)
  <2> DEFINE new == [child[c] EXCEPT !.reports = @ + 1]
  <2>1. new \in Child /\ new.pc = child[c].pc /\ new.message = child[c].message
    BY <1>1 DEF Child
  <2>2. Set(c, new) /\ UNCHANGED <<queue, sent, worked>>
    BY <1>4 DEF ReportTurn
  <2> HIDE DEF new
  <2>3. QED
    BY <2>1, <2>2, UnderLock
<1>5. CASE EndTurn(c) \/ AppendLost(c)
  <2>1. Set(c, Freed(c)) /\ UNCHANGED <<queue, sent, worked>>
    BY <1>5 DEF EndTurn, AppendLost
  <2>2. QED
    BY <1>1, <2>1, UnderLock
<1>6. CASE SettleChild(c)
  <2> DEFINE new == [Freed(c) EXCEPT !.settled = TRUE]
  <2>1. new \in Child /\ new.pc = "free"
    BY <1>1 DEF Child
  <2>2. /\ Set(c, new) \/ Set(c, Freed(c))
        /\ UNCHANGED <<queue, sent, worked>>
    BY <1>6 DEF SettleChild
  <2> HIDE DEF new
  <2>3. QED
    BY <1>1, <2>1, <2>2, UnderLock
<1>7. CASE Restore(c)
  <2> DEFINE new == Restored(c)
  <2>1. FreshChild \in Child /\ FreshChild.pc = "free"
    BY ChildStates DEF FreshChild
  <2>2. /\ Count("subagent/followup", c) \in Nat
        /\ Count("subagent/turn-started", c) \in Nat
        /\ Count("subagent/report", c) \in Nat
    BY ChildStates
  <2>3. Has(log, "subagent/settled", Id(c)) \in BOOLEAN
    BY DEF Has
  <2>4. new \in Child /\ new.pc = "free"
    BY <2>1, <2>2, <2>3 DEF Child, Restored
  <2>5. Set(c, new) /\ UNCHANGED <<queue, sent, worked>>
    BY <1>7 DEF Restore
  <2> HIDE DEF new
  <2>6. QED
    BY <2>4, <2>5, UnderLock
<1>8. CASE TurnEnds(c)
  <2> DEFINE new == [child[c] EXCEPT !.pc = "ending"]
  <2>1. new \in Child /\ new.pc = "ending"
    BY <1>1 DEF Child, ChildPc
  <2>2. Set(c, new) /\ UNCHANGED <<queue, sent, worked>>
    BY <1>8 DEF TurnEnds
  <2> HIDE DEF new
  <2>3. QED
    BY <2>1, <2>2, UnderLock
<1>9. QED
  BY <1>2, <1>3, <1>4, <1>5, <1>6, <1>7, <1>8

\* A follow-up or settlement joins the line.
LEMMA SubmitStep ==
  ASSUME Turns, NEW c \in Children, NEW settle \in BOOLEAN, Submit(c, settle)
  PROVE  Turns'
<1> DEFINE s == sent[c]
           m == IF settle THEN 0 ELSE s + 1
<1>1. /\ queue[c] \in Seq(Nat) /\ worked[c] \in Seq(Nat) /\ s \in Nat
      /\ child[c].message \in Nat /\ m \in {0, s + 1}
  BY DEF Turns, TurnTypes, Child
<1>2. /\ sent' \in [Children -> Nat] /\ sent'[c] = s + 1
      /\ \A d \in Children \ {c} : sent'[d] = sent[d]
  BY <1>1 DEF Submit, Turns, TurnTypes
<1>3. queue' = [queue EXCEPT ![c] = Append(queue[c], m)] /\ UNCHANGED <<child, worked>>
  BY <1>2 DEF Submit
<1>4. Waiting(queue[c], s) /\ Ran(worked[c], s) /\ Before(worked[c], queue[c])
  BY DEF Turns, InOrder
<1> HIDE DEF s, m
<1>5. /\ Append(queue[c], m) \in Seq(Nat)
      /\ Waiting(Append(queue[c], m), s + 1) /\ Ran(worked[c], s + 1)
      /\ Before(worked[c], Append(queue[c], m))
      /\ Between(child[c].message, worked[c], queue[c], s)
           => Between(child[c].message, worked[c], Append(queue[c], m), s + 1)
  BY <1>1, <1>4, Submitted
<1>6. /\ queue' \in [Children -> Seq(Nat)] /\ queue'[c] = Append(queue[c], m)
      /\ \A d \in Children \ {c} : queue'[d] = queue[d]
  BY <1>3, <1>5 DEF Turns, TurnTypes
<1>7. TurnTypes'
  BY <1>2, <1>3, <1>6 DEF Turns, TurnTypes
<1>8. InOrder(c)'
  BY <1>2, <1>3, <1>5, <1>6 DEF Turns, InOrder, s
<1>9. QED
  BY <1>2, <1>3, <1>6, <1>7, <1>8, OneTurn

\* The first in line takes the lock, or passes it on when the child is settled.
LEMMA TakeStep ==
  ASSUME Turns, NEW c \in Children, Take(c)
  PROVE  Turns'
<1> DEFINE q == queue[c]
           m == Head(q)
           settling == [child[c] EXCEPT !.pc = "settling"]
           following == [child[c] EXCEPT !.pc = "following", !.message = m, !.followups = @ + 1]
<1>1. /\ q \in Seq(Nat) /\ q # <<>> /\ worked[c] \in Seq(Nat) /\ sent[c] \in Nat
      /\ child[c] \in Child /\ child[c].pc = "free"
      /\ queue' = [queue EXCEPT ![c] = Tail(q)]
      /\ UNCHANGED <<sent, worked>>
  BY DEF Take, Turns, TurnTypes
<1>2. /\ Tail(q) \in Seq(Nat) /\ m \in Nat
      /\ Waiting(Tail(q), sent[c]) /\ Before(worked[c], Tail(q))
      /\ m # 0 => Between(m, worked[c], Tail(q), sent[c])
  BY <1>1, TakenFirst DEF Turns, InOrder
<1>3. /\ settling \in Child /\ settling.pc = "settling"
      /\ following \in Child /\ following.pc = "following" /\ following.message = m
  <2>1. child[c].followups + 1 \in Nat /\ {"settling", "following"} \subseteq ChildPc
    BY <1>1 DEF Child, ChildPc
  <2> HIDE DEF m
  <2>2. QED
    BY <1>1, <1>2, <2>1 DEF Child
<1>4. \/ child' = child
      \/ Set(c, settling)
      \/ m # 0 /\ Set(c, following)
  BY DEF Take
<1> HIDE DEF q, m, settling, following
<1>5. /\ child' \in [Children -> Child]
      /\ \A d \in Children \ {c} : child'[d] = child[d]
      /\ \/ child'[c].pc \in {"free", "settling"}
         \/ child'[c].message = m /\ m # 0
  <2>1. CASE child' = child
    BY <1>1, <2>1 DEF Turns, TurnTypes
  <2>2. CASE Set(c, settling)
    BY <1>3, <2>2 DEF Set, Turns, TurnTypes
  <2>3. CASE m # 0 /\ Set(c, following)
    BY <1>3, <2>3 DEF Set, Turns, TurnTypes
  <2>4. QED
    BY <1>4, <2>1, <2>2, <2>3
<1>6. /\ queue' \in [Children -> Seq(Nat)] /\ queue'[c] = Tail(q)
      /\ \A d \in Children \ {c} : queue'[d] = queue[d]
  BY <1>1, <1>2 DEF Turns, TurnTypes
<1>7. TurnTypes'
  BY <1>1, <1>5, <1>6 DEF Turns, TurnTypes
<1>8. InOrder(c)'
  BY <1>1, <1>2, <1>5, <1>6 DEF Turns, InOrder
<1>9. QED
  BY <1>1, <1>5, <1>6, <1>7, <1>8, OneTurn

\* run_turn is called with the message that held the lock.
LEMMA StartTurnStep ==
  ASSUME Turns, IsStream, NEW c \in Children, StartTurn(c)
  PROVE  Turns'
<1> DEFINE new == [child[c] EXCEPT !.pc = "working"]
           m == child[c].message
<1>1. child[c] \in Child /\ Freed(c) \in Child /\ Freed(c).pc = "free"
  BY ChildStates
<1>2. new \in Child /\ new.pc = "working"
  BY <1>1 DEF Child, ChildPc
<1>3. /\ child[c].pc = "opening" /\ UNCHANGED <<queue, sent>>
      /\ \/ Set(c, Freed(c)) /\ worked' = worked
         \/ Set(c, new) /\ worked' = [worked EXCEPT ![c] = Append(worked[c], m)]
  BY DEF StartTurn
<1>4. CASE Set(c, Freed(c)) /\ worked' = worked
  BY <1>1, <1>3, <1>4, UnderLock
<1>5. CASE Set(c, new) /\ worked' = [worked EXCEPT ![c] = Append(worked[c], m)]
  <2>1. /\ queue[c] \in Seq(Nat) /\ worked[c] \in Seq(Nat) /\ sent[c] \in Nat /\ m \in Nat
    BY <1>1 DEF Turns, TurnTypes, Child
  <2>2. Ran(worked[c], sent[c]) /\ Before(worked[c], queue[c]) /\ Waiting(queue[c], sent[c])
        /\ Between(m, worked[c], queue[c], sent[c])
    BY <1>3 DEF Turns, InOrder
  <2> HIDE DEF m, new
  <2>3. /\ Append(worked[c], m) \in Seq(Nat) /\ Ran(Append(worked[c], m), sent[c])
        /\ Before(Append(worked[c], m), queue[c])
    BY <2>1, <2>2, RunNext
  <2>4. /\ worked' \in [Children -> Seq(Nat)] /\ worked'[c] = Append(worked[c], m)
        /\ \A d \in Children \ {c} : worked'[d] = worked[d]
    BY <1>5, <2>3 DEF Turns, TurnTypes
  <2>5. /\ child' \in [Children -> Child] /\ child'[c] = new
        /\ \A d \in Children \ {c} : child'[d] = child[d]
    BY <1>2, <1>5 DEF Set, Turns, TurnTypes
  <2>6. TurnTypes'
    BY <1>3, <2>4, <2>5 DEF Turns, TurnTypes
  <2>7. InOrder(c)'
    BY <1>2, <1>3, <2>2, <2>3, <2>4, <2>5 DEF InOrder
  <2>8. QED
    BY <1>3, <2>4, <2>5, <2>6, <2>7, OneTurn
<1>6. QED
  BY <1>3, <1>4, <1>5

\* The process dies: the line is gone, what ran stays behind what was submitted.
LEMMA LinesDropped ==
  ASSUME Turns, Crash
  PROVE  Turns'
<1>1. /\ child' = [c \in Children |-> FreshChild] /\ queue' = [c \in Children |-> <<>>]
      /\ UNCHANGED <<sent, worked>>
  BY DEF Crash
<1>2. FreshChild \in Child /\ FreshChild.pc = "free"
  BY DEF FreshChild, Child, ChildPc
<1>3. TurnTypes'
  BY <1>1, <1>2 DEF Turns, TurnTypes
<1>4. ASSUME NEW c \in Children PROVE InOrder(c)'
  <2>1. queue'[c] = <<>> /\ child'[c].pc = "free" /\ Ran(worked[c], sent[c])
    BY <1>1, <1>2 DEF Turns, InOrder
  <2>2. QED
    BY <1>1, <2>1 DEF InOrder, Waiting, Before
<1>5. QED
  BY <1>3, <1>4 DEF Turns

\* Every step of the session.
LEMMA TurnsStep ==
  ASSUME Turns, IsStream, [Next]_vars
  PROVE  Turns' /\ IsStream'
<1>1. IsStream'
  BY StreamGrows
<1>2. ASSUME child' = child /\ queue' = queue /\ sent' = sent /\ worked' = worked PROVE Turns'
  BY <1>2 DEF Turns, TurnTypes, InOrder
<1>3. CASE UNCHANGED vars
  <2>1. child' = child /\ queue' = queue /\ sent' = sent /\ worked' = worked
    BY <1>3 DEF vars, childVars
  <2>2. QED
    BY <1>1, <1>2, <2>1
<1>4. CASE Execute \/ StartSession \/ StartRefused \/ Return \/ Boot
  <2>1. child' = child /\ queue' = queue /\ sent' = sent /\ worked' = worked
    BY <1>4 DEF Execute, StartSession, StartRefused, Return, Boot, childVars
  <2>2. QED
    BY <1>1, <1>2, <2>1
<1>5. ASSUME NEW t \in Tasks, DelegationStep(t) PROVE Turns'
  BY <1>2, <1>5 DEF DelegationStep, Delegate, LoadSkills, StartChild, StartLost, Collect,
                    CancelDelegation, Disposed, DisposeTimesOut, childVars
<1>6. ASSUME NEW c \in OneShots, MonitorStep(c) PROVE Turns'
  BY <1>2, <1>6 DEF MonitorStep, WorkEnds, Settle, SettleFails, childVars
<1>7. ASSUME NEW c \in Children, ChildStep(c) PROVE Turns'
  BY <1>7, LockSteps, SubmitStep, TakeStep, StartTurnStep DEF ChildStep
<1>8. QED
  BY <1>1, <1>3, <1>4, <1>5, <1>6, <1>7, LinesDropped DEF Next

LEMMA TurnsInit ==
  ASSUME Init
  PROVE  Turns /\ IsStream
<1>1. FreshChild \in Child /\ FreshChild.pc = "free"
  BY DEF FreshChild, Child, ChildPc
<1>2. QED
  BY <1>1 DEF Init, Turns, TurnTypes, InOrder, Waiting, Ran, Before, IsStream

\* Follow-ups of a child run in the order they were submitted, each at most once.
THEOREM TurnsStayFifo == Spec => []TurnsAreFifo
<1>1. Init => Turns /\ IsStream
  BY TurnsInit
<1>2. (Turns /\ IsStream) /\ [Next]_vars => (Turns /\ IsStream)'
  BY TurnsStep
<1>3. Turns => TurnsAreFifo
  BY DEF Turns, InOrder, Ran, TurnsAreFifo
<1>4. QED
  BY <1>1, <1>2, <1>3, PTL DEF Spec

-----------------------------------------------------------------------------
(* What a restore finds on the stream. *)

TurnLaws == {"subagent/followup", "subagent/turn-started", "subagent/turn-ended"}

Closed(i) == OfTurn(log, "subagent/turn-ended", log[i].id, log[i].ref, log[i].num)

\* A child's turns follow its creation, and nothing starts or ends behind the
\* start of a turn before that very turn has ended.
TurnLog ==
  /\ \A i \in DOMAIN log :
       log[i].type \in {"subagent/followup", "subagent/turn-started"}
         => Has(log, "subagent/created", log[i].id)
  /\ \A i, j \in DOMAIN log :
       /\ i < j /\ log[i].id = log[j].id /\ log[i].type = "subagent/turn-started"
       /\ log[j].type \in {"subagent/turn-started", "subagent/turn-ended"}
       => Closed(i)

\* A step appends no event of a turn that the lifecycle check would refuse.
Checked == log' = log \/ \E e : Commit(e) /\ (e.type \in TurnLaws => AcceptsChild(log, e))

LEMMA TurnsChecked ==
  ASSUME [Next]_vars
  PROVE  Checked
<1>1. CASE UNCHANGED vars
  BY <1>1 DEF vars, Checked
<1>2. CASE Execute \/ StartRefused \/ Crash \/ Boot
  BY <1>2 DEF Execute, StartRefused, Crash, Boot, Checked
<1>3. CASE StartSession
  BY <1>3 DEF StartSession, Accepts, Checked
<1>4. ASSUME NEW type, Commit(Note(type)), type \notin TurnLaws PROVE Checked
  BY <1>4 DEF Note, Event, Checked
<1>5. CASE Return
  <2>1. "plan/status" \notin TurnLaws
    BY DEF TurnLaws
  <2>2. QED
    BY <1>4, <1>5, <2>1 DEF Return
<1>6. ASSUME NEW t \in Tasks, DelegationStep(t) PROVE Checked
  <2>1. "skill/loaded" \notin TurnLaws /\ Started(ChildOf(t)).type \notin TurnLaws
    BY DEF TurnLaws, Started, Event
  <2>2. CASE Commit(Note("skill/loaded"))
    BY <1>4, <2>1, <2>2
  <2>3. CASE Commit(Started(ChildOf(t)))
    BY <2>1, <2>3 DEF Checked
  <2>4. CASE log' = log
    BY <2>4 DEF Checked
  <2>5. QED
    BY <1>6, <2>2, <2>3, <2>4 DEF DelegationStep, Delegate, LoadSkills, StartChild, StartLost,
       Collect, CancelDelegation, Disposed, DisposeTimesOut
<1>7. ASSUME NEW c \in OneShots, MonitorStep(c) PROVE Checked
  <2>1. Ended(c, work[c].reason).type \notin TurnLaws
    BY DEF TurnLaws, Ended, Event
  <2>2. QED
    BY <1>7, <2>1 DEF MonitorStep, WorkEnds, Settle, SettleFails, Checked
<1>8. ASSUME NEW c \in Children, ChildStep(c) PROVE Checked
  <2>1. log' = log \/ \E e : Commit(e) /\ Accepts(log, e)
    BY <1>8 DEF ChildStep, Create, Submit, Take, Follow, StartTurn, ReportTurn, TurnEnds,
                EndTurn, SettleChild, AppendLost, Restore
  <2>2. QED
    BY <2>1 DEF Accepts, Checked
<1>9. QED
  BY <1>1, <1>2, <1>3, <1>5, <1>6, <1>7, <1>8 DEF Next

\* What the check accepts keeps the turns in line.
LEMMA TurnLogStep ==
  ASSUME IsStream, TurnLog, Checked
  PROVE  TurnLog'
<1> DEFINE n == Len(log)
<1>1. CASE log' = log
  BY <1>1 DEF TurnLog, Closed
<1>2. ASSUME NEW e, Commit(e), e.type \in TurnLaws => AcceptsChild(log, e)
      PROVE  TurnLog'
  <2>1. /\ n \in Nat /\ DOMAIN log = 1..n /\ DOMAIN log' = 1..(n + 1)
        /\ log'[n + 1] = e /\ \A k \in 1..n : log'[k] = log[k]
    BY <1>2, CommitLast
  <2> HIDE DEF n
  <2>2. \A type, id : Has(log, type, id) => Has(log', type, id)
    BY <2>1 DEF Has
  <2>3. ASSUME NEW i \in 1..n, Closed(i) PROVE Closed(i)'
    BY <2>1, <2>3 DEF Closed, OfTurn
  <2>4. ASSUME NEW i \in DOMAIN log',
               log'[i].type \in {"subagent/followup", "subagent/turn-started"}
        PROVE  Has(log', "subagent/created", log'[i].id)
    <3>1. CASE i \in 1..n
      BY <2>1, <2>2, <2>4, <3>1 DEF TurnLog
    <3>2. CASE i = n + 1 /\ e.type = "subagent/followup"
      BY <1>2, <2>1, <2>2, <3>2 DEF TurnLaws, AcceptsChild, Available
    <3>3. CASE i = n + 1 /\ e.type = "subagent/turn-started"
      <4>1. Nth(log, "subagent/followup", e.id, e.ref)
        BY <1>2, <3>3 DEF TurnLaws, AcceptsChild
      <4>2. Has(log, "subagent/created", e.id)
        BY <2>1, <4>1 DEF Nth, TurnLog
      <4>3. QED
        BY <2>1, <2>2, <3>3, <4>2
    <3>4. QED
      BY <2>1, <2>4, <3>1, <3>2, <3>3
  <2>5. ASSUME NEW i \in DOMAIN log', NEW j \in DOMAIN log', i < j, log'[i].id = log'[j].id,
               log'[i].type = "subagent/turn-started",
               log'[j].type \in {"subagent/turn-started", "subagent/turn-ended"}
        PROVE  Closed(i)'
    <3>1. i \in 1..n /\ log'[i] = log[i]
      BY <2>1, <2>5
    <3>2. CASE j \in 1..n
      BY <2>1, <2>3, <2>5, <3>1, <3>2 DEF TurnLog
    <3>3. CASE j = n + 1 /\ e.type = "subagent/turn-started"
      <4>1. ~InTurn(log, e.id)
        BY <1>2, <3>3 DEF TurnLaws, AcceptsChild
      <4>2. Closed(i)
        <5>1. OfTurn(log, "subagent/turn-started", log[i].id, log[i].ref, log[i].num)
          BY <2>1, <2>5, <3>1 DEF OfTurn
        <5>2. QED
          BY <2>1, <2>5, <3>1, <3>3, <4>1, <5>1 DEF InTurn, OpenChildTurn, Closed
      <4>3. QED
        BY <2>3, <3>1, <4>2
    <3>4. CASE j = n + 1 /\ e.type = "subagent/turn-ended" /\ ~Closed(i)
      <4>1. OpenChildTurn(log, e.id, e.ref, e.num)
        BY <1>2, <3>4 DEF TurnLaws, AcceptsChild
      <4>2. PICK k \in 1..n : /\ log[k].type = "subagent/turn-started" /\ log[k].id = e.id
                              /\ log[k].ref = e.ref /\ log[k].num = e.num
        BY <2>1, <4>1 DEF OpenChildTurn, OfTurn
      <4>3. ~Closed(k)
        BY <4>1, <4>2 DEF OpenChildTurn, Closed
      <4>4. k = i
        <5>1. log[i].id = log[k].id /\ log[i].type = "subagent/turn-started"
          BY <2>1, <2>5, <3>1, <3>4, <4>2
        <5>2. ~(i < k) /\ ~(k < i)
          BY <2>1, <3>1, <3>4, <4>2, <4>3, <5>1 DEF TurnLog
        <5>3. QED
          BY <2>1, <3>1, <4>2, <5>2
      <4>5. QED
        BY <2>1, <2>5, <3>1, <3>4, <4>2, <4>4 DEF Closed, OfTurn
    <3>5. QED
      BY <2>1, <2>3, <2>5, <3>1, <3>2, <3>3, <3>4
  <2>6. QED
    BY <2>4, <2>5 DEF TurnLog
<1>3. QED
  BY <1>1, <1>2 DEF Checked

\* The turn restore finds open is the one that is, so behind its end there is none.
LEMMA RestoreEnds ==
  ASSUME IsStream, TurnLog, NEW c \in Children, Restore(c)
  PROVE  ~InTurn(log', Id(c))
<1> SUFFICES ASSUME InTurn(log', Id(c)) PROVE FALSE
  OBVIOUS
<1>1. Len(log) \in Nat /\ DOMAIN log = 1..Len(log)
  BY DEF IsStream
<1>2. ASSUME NEW i \in DOMAIN log, log[i].type = "subagent/turn-started", log[i].id = Id(c),
             ~Closed(i)
      PROVE  OpenTurns(c) = {i}
  <2>1. i \in OpenTurns(c)
    <3>1. ASSUME NEW j \in DOMAIN log, j > i, log[j].id = Id(c)
          PROVE  log[j].type \notin {"subagent/turn-started", "subagent/turn-ended"}
      BY <1>1, <1>2, <3>1 DEF TurnLog
    <3>2. QED
      BY <1>2, <3>1 DEF OpenTurns
  <2>2. ASSUME NEW j \in OpenTurns(c) PROVE j = i
    BY <1>1, <1>2, <2>1 DEF OpenTurns
  <2>3. QED
    BY <2>1, <2>2
<1>3. CASE log' = log /\ OpenTurns(c) = {}
  <2>1. PICK i \in DOMAIN log : /\ log[i].type = "subagent/turn-started" /\ log[i].id = Id(c)
                                /\ OpenChildTurn(log, Id(c), log[i].ref, log[i].num)
    BY <1>3 DEF InTurn
  <2>2. ~Closed(i)
    BY <2>1 DEF OpenChildTurn, Closed
  <2>3. QED
    BY <1>2, <1>3, <2>1, <2>2
<1>4. ASSUME NEW k \in OpenTurns(c), NEW e, Commit(e),
             e = ChildEvent("subagent/turn-ended", c, log[k].ref, log[k].num)
      PROVE  FALSE
  <2>1. /\ e.type = "subagent/turn-ended" /\ e.id = Id(c)
        /\ e.ref = log[k].ref /\ e.num = log[k].num
    BY <1>4 DEF ChildEvent, Event
  <2>2. /\ DOMAIN log' = 1..(Len(log) + 1) /\ log'[Len(log) + 1] = e
        /\ \A j \in 1..Len(log) : log'[j] = log[j]
    BY <1>4, CommitLast
  <2>3. PICK i \in DOMAIN log' : /\ log'[i].type = "subagent/turn-started"
                                 /\ log'[i].id = Id(c)
                                 /\ ~OfTurn(log', "subagent/turn-ended", Id(c), log'[i].ref, log'[i].num)
    BY DEF InTurn, OpenChildTurn
  <2>4. i \in DOMAIN log /\ log'[i] = log[i]
    BY <1>1, <2>1, <2>2, <2>3
  <2>5. ~Closed(i)
    BY <1>1, <2>2, <2>3, <2>4 DEF Closed, OfTurn
  <2>6. k = i
    BY <1>2, <1>4, <2>3, <2>4, <2>5
  <2>7. OfTurn(log', "subagent/turn-ended", Id(c), log[i].ref, log[i].num)
    BY <1>1, <2>1, <2>2, <2>6 DEF OfTurn
  <2>8. QED
    BY <2>3, <2>4, <2>7
<1>5. QED
  BY <1>3, <1>4 DEF Restore

\* A child becomes known by its creation or by a restore.
LEMMA Known ==
  ASSUME Turns, [Next]_vars, NEW c \in Children, ~child[c].known, child'[c].known
  PROVE  Create(c) \/ Restore(c)
<1>1. child \in [Children -> Child]
  BY DEF Turns, TurnTypes
<1>2. child' # child
  OBVIOUS
<1>3. ~Crash
  <2>1. Crash => child'[c] = FreshChild /\ ~FreshChild.known
    BY DEF Crash, FreshChild
  <2>2. QED
    BY <2>1
<1>4. PICK d \in Children : ChildStep(d)
  BY <1>2, <1>3 DEF Next, vars, childVars, Execute, StartSession, StartRefused, Return, Boot,
     DelegationStep, Delegate, LoadSkills, StartChild, StartLost, Collect, CancelDelegation,
     Disposed, DisposeTimesOut, MonitorStep, WorkEnds, Settle, SettleFails
<1>5. ASSUME NEW state, Set(d, state) PROVE d = c /\ state.known
  BY <1>1, <1>5 DEF Set
<1>6. ASSUME NEW state, Set(d, state), state.known = child[d].known PROVE FALSE
  BY <1>5, <1>6
<1>7. child[d] \in Child
  BY <1>1
<1>8. Create(d) \/ Restore(d)
  <2> SUFFICES ASSUME ~Create(d), ~Restore(d) PROVE FALSE
    OBVIOUS
  <2>1. \E state : Set(d, state) /\ state.known = child[d].known
    <3>1. /\ child[d].followups + 1 \in Nat /\ child[d].turns + 1 \in Nat
          /\ child[d].reports + 1 \in Nat
      BY <1>7 DEF Child
    <3>2. Freed(d) \in Child /\ Freed(d).known = child[d].known
          /\ [Freed(d) EXCEPT !.settled = TRUE] \in Child
          /\ [Freed(d) EXCEPT !.settled = TRUE].known = child[d].known
      BY <1>7 DEF Freed, Child, ChildPc
    <3>3. CASE Take(d)
      <4>1. queue[d] \in Seq(Nat) /\ queue[d] # <<>>
        BY <3>3 DEF Take, Turns, TurnTypes
      <4>2. Head(queue[d]) \in Nat
        BY <4>1
      <4> DEFINE a == [child[d] EXCEPT !.pc = "settling"]
                 b == [child[d] EXCEPT !.pc = "following", !.message = Head(queue[d]),
                                        !.followups = @ + 1]
      <4>3. a \in Child /\ a.known = child[d].known
        BY <1>7 DEF Child, ChildPc
      <4>4. b \in Child /\ b.known = child[d].known
        BY <1>7, <3>1, <4>2 DEF Child, ChildPc
      <4>5. Set(d, a) \/ Set(d, b)
        BY <1>2, <3>3 DEF Take
      <4> HIDE DEF a, b
      <4>6. QED
        BY <4>3, <4>4, <4>5
    <3>4. CASE Follow(d)
      <4> DEFINE a == [child[d] EXCEPT !.pc = "opening", !.turns = @ + 1]
      <4>1. a \in Child /\ a.known = child[d].known
        BY <1>7, <3>1 DEF Child, ChildPc
      <4>2. Set(d, a) \/ Set(d, Freed(d))
        BY <3>4 DEF Follow
      <4> HIDE DEF a
      <4>3. QED
        BY <3>2, <4>1, <4>2
    <3>5. CASE StartTurn(d) \/ TurnEnds(d)
      <4> DEFINE a == [child[d] EXCEPT !.pc = "working"]
                 b == [child[d] EXCEPT !.pc = "ending"]
      <4>1. a \in Child /\ a.known = child[d].known /\ b \in Child /\ b.known = child[d].known
        BY <1>7 DEF Child, ChildPc
      <4>2. Set(d, a) \/ Set(d, b) \/ Set(d, Freed(d))
        BY <3>5 DEF StartTurn, TurnEnds
      <4> HIDE DEF a, b
      <4>3. QED
        BY <3>2, <4>1, <4>2
    <3>6. CASE ReportTurn(d)
      <4> DEFINE a == [child[d] EXCEPT !.reports = @ + 1]
      <4>1. a \in Child /\ a.known = child[d].known
        BY <1>7, <3>1 DEF Child
      <4>2. Set(d, a)
        BY <3>6 DEF ReportTurn
      <4> HIDE DEF a
      <4>3. QED
        BY <4>1, <4>2
    <3>7. CASE EndTurn(d) \/ SettleChild(d) \/ AppendLost(d)
      BY <3>2, <3>7 DEF EndTurn, SettleChild, AppendLost
    <3>8. ~(\E settle \in BOOLEAN : Submit(d, settle))
      BY <1>2 DEF Submit
    <3>9. QED
      BY <1>4, <3>3, <3>4, <3>5, <3>6, <3>7, <3>8 DEF ChildStep
  <2>2. QED
    BY <1>6, <2>1
<1>9. d = c
  BY <1>5, <1>8 DEF Create, Restore
<1>10. QED
  BY <1>8, <1>9

\* A restore leaves its child in no turn, whatever appends were lost before the
\* process died and however often it dies.
THEOREM RestoresEndTurns == Spec => RestoreEndsTurns
<1>1. Init => Turns /\ IsStream /\ TurnLog
  BY TurnsInit DEF Init, TurnLog
<1>2. (Turns /\ IsStream /\ TurnLog) /\ [Next]_vars => (Turns /\ IsStream /\ TurnLog)'
  BY TurnsStep, TurnsChecked, TurnLogStep
<1>3. Turns /\ IsStream /\ TurnLog /\ [Next]_vars
        => [\A c \in Children : ~child[c].known /\ child'[c].known => ~InTurn(log', Id(c))]_vars
  <2> SUFFICES ASSUME Turns, IsStream, TurnLog, [Next]_vars,
                      NEW c \in Children, ~child[c].known, child'[c].known
               PROVE  ~InTurn(log', Id(c))
    OBVIOUS
  <2>1. CASE Restore(c)
    BY <2>1, RestoreEnds
  <2>2. CASE Create(c)
    <3> DEFINE e == ChildEvent("subagent/created", c, "none", 0)
    <3>1. e.id = Id(c) /\ e.type = "subagent/created"
      BY DEF ChildEvent, Event
    <3>2. Accepts(log, e) /\ Commit(e)
      BY <2>2 DEF Create
    <3> HIDE DEF e
    <3>3. ~Has(log, "subagent/created", Id(c))
      BY <3>1, <3>2 DEF Accepts, AcceptsChild
    <3>4. \A i \in DOMAIN log' : (i \in DOMAIN log /\ log'[i] = log[i]) \/ log'[i] = e
      BY <3>2, CommitLast
    <3>5. QED
      BY <3>1, <3>3, <3>4 DEF InTurn, TurnLog
  <2>3. QED
    BY <2>1, <2>2, Known
<1>4. QED
  BY <1>1, <1>2, <1>3, PTL DEF Spec, RestoreEndsTurns

-----------------------------------------------------------------------------
(* Resuming. *)

ChildIds == {Id(c) : c \in Children}

\* Before execute has opened the session nothing is delegated: what was, died
\* with its process.
Quiet == lead \in {"ready", "starting", "down"} =>
  /\ \A t \in Tasks : run[t].pc = "idle"
  /\ \A c \in OneShots : work[c].at = "none"

\* The life of a one-shot child: it starts once, and ends after that.
Lives ==
  \A i \in DOMAIN log : log[i].type \in StatusEvents /\ log[i].id \notin ChildIds =>
    \/ /\ log[i].type = "subagent/started"
       /\ \A j \in DOMAIN log :
            log[j].type = "subagent/started" /\ log[j].id = log[i].id => j = i
    \/ /\ log[i].type = "subagent/ended" /\ log[i].ref # "running"
       /\ \E j \in DOMAIN log :
            j < i /\ log[j].type = "subagent/started" /\ log[j].id = log[i].id

Notes == {"session/header", "plan/created", "skill/catalog", "session/resumed"}

\* What the opening has still to append is accepted: it is a note, or the end of
\* a one-shot child that is open.
Awaited(e) ==
  \/ e.type \in Notes
  \/ /\ e.type = "subagent/ended" /\ e.ref = "interrupted"
     /\ e.id \in ChildIds \/ OpenChild(log, e.id)

Pending ==
  /\ \E S : todo \in Seq(S)
  /\ lead = "starting" =>
       /\ \A i \in DOMAIN todo : Awaited(todo[i])
       /\ \A i, j \in DOMAIN todo :
            i # j /\ todo[i].type = "subagent/ended" /\ todo[j].type = "subagent/ended"
              => todo[i].id # todo[j].id

ResumeInv == IsStream /\ Quiet /\ Lives /\ Pending

\* The events that may be committed keep the lives in order.
LEMMA LivesCommit ==
  ASSUME IsStream, Lives, NEW e, Commit(e),
         \/ e.id \in ChildIds
         \/ e.type \notin StatusEvents
         \/ e.type = "subagent/started" /\ ~Has(log, "subagent/started", e.id)
         \/ e.type = "subagent/ended" /\ e.ref # "running" /\ OpenChild(log, e.id)
  PROVE  Lives'
<1> DEFINE n == Len(log)
           Life(l, i) ==
             \/ /\ l[i].type = "subagent/started"
                /\ \A j \in DOMAIN l :
                     l[j].type = "subagent/started" /\ l[j].id = l[i].id => j = i
             \/ /\ l[i].type = "subagent/ended" /\ l[i].ref # "running"
                /\ \E j \in DOMAIN l :
                     j < i /\ l[j].type = "subagent/started" /\ l[j].id = l[i].id
<1>1. /\ n \in Nat /\ DOMAIN log = 1..n /\ DOMAIN log' = 1..(n + 1)
      /\ log'[n + 1] = e /\ \A k \in 1..n : log'[k] = log[k]
  BY CommitLast
<1> HIDE DEF n
<1>2. ASSUME NEW i \in DOMAIN log', log'[i].type \in StatusEvents, log'[i].id \notin ChildIds
      PROVE  Life(log', i)
  <2>1. CASE i \in 1..n
    <3>1. Life(log, i) /\ log'[i] = log[i]
      BY <1>1, <1>2, <2>1 DEF Lives
    <3>2. CASE log[i].type = "subagent/ended"
      BY <1>1, <2>1, <3>1, <3>2
    <3>3. CASE log[i].type = "subagent/started"
      <4>1. Has(log, "subagent/started", log[i].id)
        BY <1>1, <2>1, <3>3 DEF Has
      <4>2. ~(e.type = "subagent/started" /\ e.id = log[i].id)
        BY <1>2, <3>1, <4>1 DEF StatusEvents
      <4>3. QED
        BY <1>1, <2>1, <3>1, <3>3, <4>2
    <3>4. QED
      BY <3>1, <3>2, <3>3
  <2>2. CASE i = n + 1 /\ e.type = "subagent/started" /\ ~Has(log, "subagent/started", e.id)
    <3>1. \A j \in 1..n : ~(log[j].type = "subagent/started" /\ log[j].id = e.id)
      BY <1>1, <2>2 DEF Has
    <3>2. QED
      BY <1>1, <2>2, <3>1
  <2>3. CASE /\ i = n + 1 /\ e.type = "subagent/ended" /\ e.ref # "running"
             /\ OpenChild(log, e.id)
    <3>1. PICK j \in 1..n : log[j].type = "subagent/started" /\ log[j].id = e.id
      BY <1>1, <2>3 DEF OpenChild, Open, Has
    <3>2. QED
      BY <1>1, <2>3, <3>1
  <2>4. i \in 1..n \/ (i = n + 1 /\ log'[i] = e)
    BY <1>1
  <2>5. QED
    BY <1>2, <2>1, <2>2, <2>3, <2>4
<1>3. QED
  BY <1>2 DEF Lives

\* A child stays open until its own end.
LEMMA OpenKept ==
  ASSUME IsStream, NEW e, Commit(e), NEW c, OpenChild(log, c),
         e.type = "subagent/ended" => e.id # c
  PROVE  OpenChild(log', c)
BY CommitLast DEF OpenChild, Open, Has

LEMMA SameStream ==
  ASSUME log' = log
  PROVE  /\ IsStream => IsStream'
         /\ Lives => Lives'
BY DEF IsStream, Lives

\* Whoever else writes meanwhile: only the continuable children.
LEMMA PendingKept ==
  ASSUME IsStream, Pending, todo' = todo, lead' = lead,
         lead = "starting" =>
           log' = log \/ \E e : Commit(e) /\ e.id \in ChildIds
  PROVE  Pending'
<1>1. ASSUME lead = "starting", NEW i \in DOMAIN todo
      PROVE  Awaited(todo[i])'
  <2>1. Awaited(todo[i])
    BY <1>1 DEF Pending
  <2>2. CASE log' = log
    BY <2>1, <2>2 DEF Awaited
  <2>3. ASSUME NEW e, Commit(e), e.id \in ChildIds
        PROVE  Awaited(todo[i])'
    BY <2>1, <2>3, OpenKept DEF Awaited
  <2>4. QED
    BY <1>1, <2>2, <2>3
<1>2. QED
  BY <1>1 DEF Pending

-----------------------------------------------------------------------------

\* A set of numbers from an interval has a greatest one.
LEMMA MaxOfInterval ==
  ASSUME NEW n \in Nat, NEW S \in SUBSET (1..n), S # {}
  PROVE  Max(S) \in S /\ \A y \in S : Max(S) >= y
<1> DEFINE T == {k \in Nat : n - k \in S}
<1>1. T \subseteq Nat /\ T # {}
  <2>1. PICK s \in S : TRUE
    OBVIOUS
  <2>2. n - s \in Nat /\ n - (n - s) = s
    OBVIOUS
  <2>3. QED
    BY <2>2
<1>2. PICK k \in T : \A y \in T : ~(<<y, k>> \in OpToRel(<, Nat))
  BY <1>1, NatLessThanWellFounded, WFMin
<1>3. \A y \in T : ~(y < k)
  BY <1>1, <1>2 DEF OpToRel
<1>4. n - k \in S /\ \A y \in S : n - k >= y
  <2>1. ASSUME NEW y \in S
        PROVE  n - k >= y
    <3>1. n - y \in Nat /\ n - (n - y) = y
      OBVIOUS
    <3>2. n - y \in T
      BY <3>1
    <3>3. QED
      BY <1>3, <3>1, <3>2
  <2>2. QED
    BY <2>1
<1>5. QED
  BY <1>4 DEF Max

\* A one-shot child the projection calls running is open.
LEMMA RunningIsOpen ==
  ASSUME IsStream, Lives, NEW x \in ChildrenOf(log), x \notin ChildIds,
         ChildStatus(log, x) = "running"
  PROVE  OpenChild(log, x)
<1> DEFINE own == {i \in DOMAIN log : log[i].id = x /\ log[i].type \in StatusEvents}
           m == Max(own)
<1>1. own # {}
  BY DEF ChildrenOf
<1>2. Len(log) \in Nat /\ DOMAIN log = 1..Len(log)
  BY DEF IsStream
<1>3. m \in own /\ \A y \in own : m >= y
  BY <1>1, <1>2, MaxOfInterval
<1>4. ChildStatus(log, x) =
        CASE log[m].type \in {"subagent/started", "subagent/turn-started"} -> "running"
          [] log[m].type \in {"subagent/created", "subagent/turn-ended"}   -> "idle"
          [] OTHER -> log[m].ref
  BY <1>1 DEF ChildStatus
<1> HIDE DEF m
<1>5. log[m].id = x /\ log[m].type = "subagent/started"
      /\ \A j \in DOMAIN log : log[j].type = "subagent/started" /\ log[j].id = x => j = m
  BY <1>3, <1>4 DEF Lives
<1>6. ASSUME NEW j \in DOMAIN log, log[j].type = "subagent/ended", log[j].id = x
      PROVE  FALSE
  <2>1. j \in own
    BY <1>6 DEF StatusEvents
  <2>2. m < j
    BY <1>5, <1>6, <2>1 DEF Lives
  <2>3. QED
    BY <1>2, <1>3, <2>1, <2>2
<1>7. QED
  BY <1>3, <1>5, <1>6 DEF OpenChild, Open, Has

\* A finite set as a sequence, which names each element once.
LEMMA SetToSeqNames ==
  ASSUME NEW S, IsFiniteSet(S)
  PROVE  /\ SetToSeq(S) \in Seq(S)
         /\ \A i, j \in DOMAIN SetToSeq(S) : SetToSeq(S)[i] = SetToSeq(S)[j] => i = j
<1> DEFINE n == Cardinality(S)
<1>1. n \in Nat /\ ExistsBijection(1..n, S)
  BY FS_CardinalityType
<1>2. \E f \in [1..n -> S] : IsInjective(f)
  BY <1>1 DEF ExistsBijection, Bijection, Injection
<1>3. SetToSeq(S) \in [1..n -> S] /\ IsInjective(SetToSeq(S))
  BY <1>2 DEF SetToSeq
<1>4. QED
  BY <1>1, <1>3 DEF IsInjective

\* A resume ends the children the projection calls running, each once.
LEMMA ResumingAwaited ==
  ASSUME IsStream, Lives
  PROVE  /\ \E S : Resuming \in Seq(S)
         /\ \A i \in DOMAIN Resuming : Awaited(Resuming[i])
         /\ \A i, j \in DOMAIN Resuming :
              /\ i # j /\ Resuming[i].type = "subagent/ended"
              /\ Resuming[j].type = "subagent/ended"
              => Resuming[i].id # Resuming[j].id
<1> DEFINE R == {x \in ChildrenOf(log) : ChildStatus(log, x) = "running"}
           D == {j \in DOMAIN log : log[j].type \in StatusEvents}
           E == {Ended(c, "interrupted") : c \in R}
           f == SetToSeq(E)
           n == Len(f)
           last == Note("session/resumed")
<1>1. IsFiniteSet(D)
  <2>1. Len(log) \in Nat /\ DOMAIN log = 1..Len(log)
    BY DEF IsStream
  <2>2. IsFiniteSet(1..Len(log))
    BY <2>1, FS_Interval
  <2>3. D \subseteq 1..Len(log)
    BY <2>1
  <2>4. QED
    BY <2>2, <2>3, FS_Subset
<1>2. IsFiniteSet(E)
  <2> DEFINE A == {j \in D : log[j].id \in R}
             g == [j \in A |-> Ended(log[j].id, "interrupted")]
  <2>1. IsFiniteSet(A)
    BY <1>1, FS_Subset
  <2>2. g \in Surjection(A, E)
    <3>1. g \in [A -> E]
      OBVIOUS
    <3>2. ASSUME NEW e \in E
          PROVE  \E j \in A : g[j] = e
      <4>1. PICK c \in R : e = Ended(c, "interrupted")
        OBVIOUS
      <4>2. PICK j \in D : log[j].id = c
        BY DEF ChildrenOf
      <4>3. QED
        BY <4>1, <4>2
    <3>3. QED
      BY <3>1, <3>2 DEF Surjection
  <2>3. QED
    BY <2>1, <2>2, FS_Surjection
<1>3. /\ f \in Seq(E)
      /\ \A i, j \in DOMAIN f : f[i] = f[j] => i = j
  BY <1>2, SetToSeqNames
<1>4. Resuming = f \o <<last>>
  BY DEF Resuming
<1>5. \A e \in E : \E c \in R : e = Ended(c, "interrupted")
  OBVIOUS
<1>6. \A c \in R : c \in ChildIds \/ OpenChild(log, c)
  BY RunningIsOpen
<1> HIDE DEF E, R, D, f
<1>7. n \in Nat /\ DOMAIN f = 1..n /\ \A i \in 1..n : f[i] \in E
  BY <1>3
<1>8. /\ f \o <<last>> \in Seq(E \cup {last}) /\ DOMAIN (f \o <<last>>) = 1..(n + 1)
      /\ (f \o <<last>>)[n + 1] = last
      /\ \A i \in 1..n : (f \o <<last>>)[i] = f[i]
  <2>1. f \in Seq(E \cup {last}) /\ <<last>> \in Seq(E \cup {last})
    BY <1>3
  <2> HIDE DEF last
  <2>2. QED
    BY <1>7, <2>1
<1>9. /\ \E S : Resuming \in Seq(S)
      /\ DOMAIN Resuming = 1..(n + 1) /\ Resuming[n + 1] = last
      /\ \A i \in 1..n : Resuming[i] = f[i]
  BY <1>4, <1>8
<1>10. last.type = "session/resumed"
  BY DEF Note, Event
<1>11. ASSUME NEW i \in 1..n
       PROVE  \E c \in R : /\ Resuming[i] = Ended(c, "interrupted")
                           /\ Resuming[i].type = "subagent/ended" /\ Resuming[i].id = c
                           /\ Resuming[i].ref = "interrupted"
  BY <1>5, <1>7, <1>9 DEF Ended, Event
<1> HIDE DEF last, n
<1>12. ASSUME NEW i \in DOMAIN Resuming
       PROVE  Awaited(Resuming[i])
  <2>1. CASE i \in 1..n
    BY <1>6, <1>11, <2>1 DEF Awaited
  <2>2. CASE i = n + 1
    BY <1>9, <1>10, <2>2 DEF Awaited, Notes
  <2>3. QED
    BY <1>7, <1>9, <2>1, <2>2
<1>13. ASSUME NEW i \in DOMAIN Resuming, NEW j \in DOMAIN Resuming, i # j,
              Resuming[i].type = "subagent/ended", Resuming[j].type = "subagent/ended"
       PROVE  Resuming[i].id # Resuming[j].id
  <2>1. i \in 1..n /\ j \in 1..n
    BY <1>7, <1>9, <1>10, <1>13
  <2>2. Resuming[i] # Resuming[j]
    BY <1>3, <1>7, <1>9, <1>13, <2>1
  <2>3. QED
    BY <1>11, <2>1, <2>2
<1>14. QED
  BY <1>9, <1>12, <1>13

\* A new stream is opened with three notes.
LEMMA OpeningAwaited ==
  /\ \E S : Opening \in Seq(S)
  /\ \A i \in DOMAIN Opening : Opening[i].type \in Notes
<1> DEFINE a == Note("session/header")
           b == Note("plan/created")
           c == Note("skill/catalog")
<1>1. a.type \in Notes /\ b.type \in Notes /\ c.type \in Notes
  BY DEF Note, Event, Notes
<1>2. Opening = <<a, b, c>>
  BY DEF Opening
<1> HIDE DEF a, b, c
<1>3. /\ <<a, b, c>> \in Seq({a, b, c})
      /\ \A i \in DOMAIN <<a, b, c>> : <<a, b, c>>[i] \in {a, b, c}
  OBVIOUS
<1>4. QED
  BY <1>1, <1>2, <1>3

LEMMA ExecuteResume ==
  ASSUME ResumeInv, Execute
  PROVE  ResumeInv'
<1>1. /\ lead = "ready" /\ lead' = "starting" /\ UNCHANGED <<log, run, work>>
      /\ todo' = Opening \/ todo' = Resuming
  BY DEF Execute
<1>2. IsStream' /\ Lives' /\ Quiet'
  BY <1>1, SameStream DEF ResumeInv, Quiet
<1>3. CASE todo' = Opening
  <2>1. \A i \in DOMAIN todo' : todo'[i].type \in Notes
    BY <1>3, OpeningAwaited
  <2>2. \A i \in DOMAIN todo' : todo'[i].type # "subagent/ended" /\ Awaited(todo[i])'
    BY <2>1 DEF Notes, Awaited
  <2>3. Pending'
    BY <1>3, <2>2, OpeningAwaited DEF Pending
  <2>4. QED
    BY <1>2, <2>3 DEF ResumeInv
<1>4. CASE todo' = Resuming
  <2>1. \A i \in DOMAIN todo' : Awaited(todo[i])'
    BY <1>1, <1>4, ResumingAwaited DEF Awaited, ResumeInv
  <2>2. Pending'
    BY <1>4, <2>1, ResumingAwaited DEF Pending, ResumeInv
  <2>3. QED
    BY <1>2, <2>2 DEF ResumeInv
<1>5. QED
  BY <1>1, <1>3, <1>4

\* One event of the opening is appended; the others do not mind.
LEMMA StartSessionResume ==
  ASSUME ResumeInv, StartSession
  PROVE  ResumeInv'
<1> DEFINE e == Head(todo)
<1>1. /\ lead = "starting" /\ todo # <<>> /\ Commit(e) /\ todo' = Tail(todo)
      /\ UNCHANGED <<run, work>> /\ lead' \in {"starting", "executing"}
      /\ Accepts(log, e)
  BY DEF StartSession
<1>2. PICK S : todo \in Seq(S)
  BY DEF ResumeInv, Pending
<1>3. /\ 1 \in DOMAIN todo /\ e = todo[1]
      /\ Tail(todo) \in Seq(S)
      /\ \A i \in DOMAIN Tail(todo) :
           i + 1 \in DOMAIN todo /\ Tail(todo)[i] = todo[i + 1] /\ i \in Nat /\ i + 1 # 1
  BY <1>1, <1>2
<1>4. Awaited(e)
  BY <1>1, <1>3 DEF ResumeInv, Pending
<1> HIDE DEF e
<1>5. Quiet'
  BY <1>1 DEF ResumeInv, Quiet
<1>6. IsStream'
  BY <1>1, CommitGrows DEF ResumeInv
<1>7. Lives'
  <2>1. e.type \in Notes => e.type \notin StatusEvents
    BY DEF Notes, StatusEvents
  <2>2. CASE e.type \in Notes \/ e.id \in ChildIds
    BY <1>1, <2>1, <2>2, LivesCommit DEF ResumeInv
  <2>3. CASE e.type = "subagent/ended" /\ OpenChild(log, e.id)
    <3>1. e.ref # "running"
      BY <1>4, <2>3 DEF Awaited, Notes
    <3>2. QED
      BY <1>1, <2>3, <3>1, LivesCommit DEF ResumeInv
  <2>4. QED
    BY <1>4, <2>2, <2>3 DEF Awaited
<1>8. ASSUME NEW i \in DOMAIN todo'
      PROVE  Awaited(todo[i])'
  <2> DEFINE x == todo[i + 1]
  <2>1. todo'[i] = x /\ Awaited(x)
    BY <1>1, <1>3, <1>8 DEF ResumeInv, Pending
  <2>2. e.type = "subagent/ended" /\ x.type = "subagent/ended" => e.id # x.id
    BY <1>1, <1>3, <1>8 DEF ResumeInv, Pending
  <2> HIDE DEF x
  <2>3. CASE x.type \in Notes
    BY <2>1, <2>3 DEF Awaited
  <2>4. CASE x.type = "subagent/ended" /\ x.ref = "interrupted" /\ x.id \in ChildIds
    BY <2>1, <2>4 DEF Awaited
  <2>5. CASE x.type = "subagent/ended" /\ x.ref = "interrupted" /\ OpenChild(log, x.id)
    <3>1. OpenChild(log', x.id)
      BY <1>1, <2>2, <2>5, OpenKept DEF ResumeInv
    <3>2. QED
      BY <2>1, <2>5, <3>1 DEF Awaited
  <2>6. QED
    BY <2>1, <2>3, <2>4, <2>5 DEF Awaited
<1>9. Pending'
  <2>1. \A i, j \in DOMAIN todo' :
          i # j /\ todo'[i].type = "subagent/ended" /\ todo'[j].type = "subagent/ended"
            => todo'[i].id # todo'[j].id
    BY <1>1, <1>3 DEF ResumeInv, Pending
  <2>2. \E T : todo' \in Seq(T)
    BY <1>1, <1>3
  <2>3. QED
    BY <1>8, <2>1, <2>2 DEF Pending
<1>10. QED
  BY <1>5, <1>6, <1>7, <1>9 DEF ResumeInv

LEMMA DelegationResume ==
  ASSUME ResumeInv, NEW t \in Tasks, DelegationStep(t)
  PROVE  ResumeInv'
<1>1. lead \notin {"ready", "starting", "down"}
  BY DEF DelegationStep, Delegate, LoadSkills, StartChild, StartLost, Collect,
         CancelDelegation, Disposed, DisposeTimesOut, ResumeInv, Quiet
<1>2. lead' = lead /\ todo' = todo
  BY DEF DelegationStep, Delegate, LoadSkills, StartChild, StartLost, Collect,
         CancelDelegation, Disposed, DisposeTimesOut
<1>3. Quiet' /\ Pending'
  BY <1>1, <1>2 DEF ResumeInv, Quiet, Pending
<1>4. CASE UNCHANGED log
  BY <1>3, <1>4, SameStream DEF ResumeInv
<1>5. CASE Commit(Note("skill/loaded"))
  <2>1. Note("skill/loaded").type \notin StatusEvents
    BY DEF Note, Event, StatusEvents
  <2>2. QED
    BY <1>3, <1>5, <2>1, CommitGrows, LivesCommit DEF ResumeInv
<1>6. CASE Commit(Started(ChildOf(t))) /\ Accepts(log, Started(ChildOf(t)))
  <2> DEFINE e == Started(ChildOf(t))
  <2>1. e.type = "subagent/started" /\ ~Has(log, "subagent/started", e.id)
    BY <1>6 DEF Started, Event, Accepts, AcceptsChild
  <2> HIDE DEF e
  <2>2. Commit(e)
    BY <1>6 DEF e
  <2>3. QED
    BY <1>3, <2>1, <2>2, CommitGrows, LivesCommit DEF ResumeInv
<1>7. QED
  BY <1>4, <1>5, <1>6 DEF DelegationStep, Delegate, LoadSkills, StartChild, StartLost, Collect,
         CancelDelegation, Disposed, DisposeTimesOut

LEMMA MonitorResume ==
  ASSUME ResumeInv, DelegationTypes, NEW c \in OneShots, MonitorStep(c)
  PROVE  ResumeInv'
<1>1. lead \notin {"ready", "starting", "down"}
  BY DEF MonitorStep, WorkEnds, Settle, SettleFails, ResumeInv, Quiet
<1>2. lead' = lead /\ todo' = todo
  BY DEF MonitorStep, WorkEnds, Settle, SettleFails
<1>3. Quiet' /\ Pending'
  BY <1>1, <1>2 DEF ResumeInv, Quiet, Pending
<1>4. CASE UNCHANGED log
  BY <1>3, <1>4, SameStream DEF ResumeInv
<1>5. CASE Settle(c)
  <2> DEFINE e == Ended(c, work[c].reason)
  <2>1. work[c].reason # "running"
    BY DEF DelegationTypes, Work, Reasons
  <2>2. e.type = "subagent/ended" /\ e.ref # "running" /\ OpenChild(log, e.id)
    BY <1>5, <2>1 DEF Settle, Ended, Event, Accepts, AcceptsChild
  <2> HIDE DEF e
  <2>3. Commit(e)
    BY <1>5 DEF Settle, e
  <2>4. QED
    BY <1>3, <2>2, <2>3, CommitGrows, LivesCommit DEF ResumeInv
<1>6. QED
  BY <1>4, <1>5 DEF MonitorStep, WorkEnds, SettleFails

\* The continuable children write to the stream at any time, but only about
\* themselves.
LEMMA ChildResume ==
  ASSUME ResumeInv, NEW c \in Children, ChildStep(c)
  PROVE  ResumeInv'
<1>1. lead' = lead /\ todo' = todo /\ UNCHANGED <<run, work>>
  BY DEF ChildStep, Create, Submit, Take, Follow, StartTurn, ReportTurn, TurnEnds, EndTurn,
         SettleChild, AppendLost, Restore, leadVars
<1>2. log' = log \/ \E type, ref, num : Commit(ChildEvent(type, c, ref, num))
  BY DEF ChildStep, Create, Submit, Take, Follow, StartTurn, ReportTurn, TurnEnds, EndTurn,
         TurnEvent, SettleChild, AppendLost, Restore
<1>3. \A type, ref, num : ChildEvent(type, c, ref, num).id \in ChildIds
  BY DEF ChildEvent, Event, ChildIds
<1>4. log' = log \/ \E e : Commit(e) /\ e.id \in ChildIds
  BY <1>2, <1>3
<1>5. Quiet'
  BY <1>1 DEF ResumeInv, Quiet
<1>6. Pending'
  BY <1>1, <1>4, PendingKept DEF ResumeInv
<1>7. IsStream' /\ Lives'
  <2>1. CASE log' = log
    BY <2>1, SameStream DEF ResumeInv
  <2>2. ASSUME NEW e, Commit(e), e.id \in ChildIds
        PROVE  IsStream' /\ Lives'
    BY <2>2, CommitGrows, LivesCommit DEF ResumeInv
  <2>3. QED
    BY <1>4, <2>1, <2>2
<1>8. QED
  BY <1>5, <1>6, <1>7 DEF ResumeInv

LEMMA ResumeStep ==
  ASSUME ResumeInv, DelegationTypes, [Next]_vars
  PROVE  ResumeInv'
<1>1. CASE UNCHANGED vars
  <2>1. UNCHANGED <<log, lead, todo, run, work>>
    BY <1>1 DEF vars, leadVars
  <2>2. Quiet' /\ Pending'
    BY <2>1, PendingKept DEF ResumeInv, Quiet
  <2>3. QED
    BY <2>1, <2>2, SameStream DEF ResumeInv
<1>2. CASE StartRefused \/ Crash
  <2>1. log' = log /\ todo' = <<>> /\ lead' # "starting"
    BY <1>2 DEF StartRefused, Crash
  <2>2. Pending'
    <3>1. <<>> \in Seq({})
      OBVIOUS
    <3>2. QED
      BY <2>1, <3>1 DEF Pending
  <2>3. Quiet'
    BY <1>2 DEF StartRefused, Crash, ResumeInv, Quiet, IdleRun, NoWork
  <2>4. QED
    BY <2>1, <2>2, <2>3, SameStream DEF ResumeInv
<1>3. CASE Boot
  <2>1. UNCHANGED <<log, todo, run, work>> /\ lead = "down" /\ lead' = "ready"
    BY <1>3 DEF Boot
  <2>2. Quiet' /\ Pending'
    BY <2>1 DEF ResumeInv, Quiet, Pending
  <2>3. QED
    BY <2>1, <2>2, SameStream DEF ResumeInv
<1>4. CASE Return
  <2>1. todo' = todo /\ lead' = "returned" /\ Commit(Note("plan/status"))
    BY <1>4 DEF Return
  <2>2. Quiet' /\ Pending'
    BY <2>1 DEF ResumeInv, Quiet, Pending
  <2>3. Note("plan/status").type \notin StatusEvents
    BY DEF Note, Event, StatusEvents
  <2>4. QED
    BY <2>1, <2>2, <2>3, CommitGrows, LivesCommit DEF ResumeInv
<1>5. QED
  BY <1>1, <1>2, <1>3, <1>4, ExecuteResume, StartSessionResume, DelegationResume,
     MonitorResume, ChildResume DEF Next

\* A resume is refused only over a continuable child in a turn: the end of every
\* one-shot child that died with its process is accepted, in whatever order the
\* resume appends them and whatever the continuable children write meanwhile.
THEOREM ResumesAreAccepted == Spec => []OnlyTurnsBlockResume
<1>1. Init => ResumeInv
  <2>1. <<>> \in Seq({})
    OBVIOUS
  <2>2. Init => Quiet /\ Lives
    BY DEF Init, Quiet, Lives, IdleRun, NoWork
  <2>3. Init => IsStream /\ Pending
    BY <2>1 DEF Init, IsStream, Pending
  <2>4. QED
    BY <2>2, <2>3 DEF ResumeInv
<1>2. ResumeInv /\ Delegations /\ [Next]_vars => ResumeInv'
  BY ResumeStep DEF Delegations
<1>3. ResumeInv => OnlyTurnsBlockResume
  <2> SUFFICES ASSUME ResumeInv, lead = "starting", todo # <<>>, ~Accepts(log, Head(todo))
               PROVE  Head(todo).id \in ChildIds
    BY DEF OnlyTurnsBlockResume, ChildIds
  <2>1. Awaited(Head(todo))
    BY DEF ResumeInv, Pending
  <2>2. Head(todo).type \in Notes => Accepts(log, Head(todo))
    BY DEF Notes, Accepts, AcceptsAgent, AcceptsCall, AcceptsChild
  <2>3. Head(todo).type = "subagent/ended" /\ OpenChild(log, Head(todo).id)
          => Accepts(log, Head(todo))
    BY DEF Accepts, AcceptsAgent, AcceptsCall, AcceptsChild
  <2>4. QED
    BY <2>1, <2>2, <2>3 DEF Awaited
<1>4. Init => Delegations /\ IsStream
  BY DelegationsInit
<1>5. (Delegations /\ IsStream) /\ [Next]_vars => (Delegations /\ IsStream)'
  BY DelegationsStep
<1>6. QED
  BY <1>1, <1>2, <1>3, <1>4, <1>5, PTL DEF Spec
=============================================================================
