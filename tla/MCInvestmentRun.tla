--------------------------- MODULE MCInvestmentRun ---------------------------
(***************************************************************************)
(* The loop calls one tool at a time; the pipeline also takes batches.     *)
(* Either a run is explored, or a batch beside a run that is over.         *)
(***************************************************************************)
EXTENDS InvestmentRun, ToolPipeline

VARIABLE focus

\* two calls that are safe together, one that is not, and one whose id repeats
MCCalls == <<[id |-> "a", safe |-> TRUE], [id |-> "b", safe |-> TRUE],
             [id |-> "x", safe |-> FALSE], [id |-> "a", safe |-> TRUE]>>

\* a plan in order, one that is finished, and one with two items in progress
MCPlans == {<<Item("look", "in_progress"), Item("write", "pending")>>, <<Item("", "completed")>>,
            <<Item("look", "in_progress"), Item("write", "in_progress")>>}
MCWanted == {<<>>, <<"look">>}

IdleRun ==
    /\ request = CHOOSE r \in Requests : r.intent = "portfolio"
    /\ pc = "gone" /\ after = "gone" /\ todo = <<>> /\ log = <<>>
    /\ harness = NewHarness(NoTool) /\ step = 0 /\ action = NoAction /\ called = {}
    /\ ends = "none" /\ saved = "running" /\ out = "cancelled"
    /\ writes = 0 /\ cancels = 1 /\ faults = 0

MCInit ==
    /\ InitBatch
    /\ \/ focus = "run" /\ Init
       \/ focus = "batch" /\ IdleRun

MCNext ==
    /\ UNCHANGED focus
    /\ \/ focus = "run" /\ Next /\ UNCHANGED batchVars
       \/ focus = "batch" /\ NextBatch /\ UNCHANGED vars

MCSpec == MCInit /\ [][MCNext]_<<vars, focus, batchVars>> /\ Fairness

=============================================================================
