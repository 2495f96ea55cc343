-------------------------- MODULE MCAgentSession --------------------------
(***************************************************************************)
(* The delegations of the lead and the continuable children only meet in   *)
(* the stream, so each is explored beside the lead's opening, resumption   *)
(* and death, and not times the other.                                     *)
(***************************************************************************)
EXTENDS AgentSession

VARIABLE focus

MCInit == Init /\ focus \in {"tasks", "children"}

MCNext ==
    /\ Next /\ UNCHANGED focus
    /\ focus = "children" => \A t \in Tasks : run'[t].pc = "idle"
    /\ focus = "tasks"    => \A c \in Children : ~child'[c].known

\* the fair actions of the other half are never enabled
MCSpec == MCInit /\ [][MCNext]_<<vars, focus>> /\ Fairness
=============================================================================
