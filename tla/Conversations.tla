--------------------------- MODULE Conversations ---------------------------
(***************************************************************************)
(* The per-thread conversation files of the desktop sidecar                *)
(* (agents/investment_conversation.py), as operators on a thread record.   *)
(* A turn keeps its role, the run that answered it and the length of its   *)
(* text: the lengths decide when the store compacts and when it refuses to *)
(* load a file again.  A summary is its length.                            *)
(***************************************************************************)
EXTENDS Integers, SequencesExt

CONSTANTS
    Trigger,      \* trigger_chars: more text than this is compacted
    KeepRecent,   \* keep_recent_turns: turns compaction leaves as they are
    MaxStored,    \* MAX_STORED_TURNS: a longer file is refused on load
    SummaryCap,   \* max_summary_chars (and its prefix)
    ExcerptCap    \* max_turn_chars_in_summary

ASSUME ConversationLimits ==
    /\ {Trigger, KeepRecent, MaxStored, SummaryCap, ExcerptCap} \subseteq Nat \ {0}
    /\ KeepRecent <= MaxStored

Least(a, b) == IF a < b THEN a ELSE b

\* what a missing file loads as, and what conversation.create writes
EmptyThread == [turns |-> <<>>, summary |-> 0, compressed |-> 0]

\* load_thread raises ValueError on a file that holds more turns
Readable(thread) == Len(thread.turns) <= MaxStored

TotalSize(turns) == FoldSeq(LAMBDA turn, sum: sum + turn.size, 0, turns)

\* the summary the dropped turns are folded into: an excerpt of each, cut to
\* the last SummaryCap characters
SummaryOf(summary, older) ==
    Least(SummaryCap,
          summary + FoldSeq(LAMBDA turn, sum: sum + Least(ExcerptCap, turn.size), 0, older))

\* Mutation of Compact: the count takes the turns dropped now for all of them.
CompactForgetful(thread) ==
    LET split == Len(thread.turns) - KeepRecent
    IN  IF thread.summary + TotalSize(thread.turns) <= Trigger \/ split <= 0
        THEN thread
        ELSE [turns      |-> SubSeq(thread.turns, split + 1, Len(thread.turns)),
              summary    |-> SummaryOf(thread.summary, SubSeq(thread.turns, 1, split)),
              compressed |-> split]

Compact(thread) ==
    LET split == Len(thread.turns) - KeepRecent
        older == SubSeq(thread.turns, 1, split)
    IN  IF thread.summary + TotalSize(thread.turns) <= Trigger \/ split <= 0
        THEN thread
        ELSE [turns      |-> SubSeq(thread.turns, split + 1, Len(thread.turns)),
              summary    |-> SummaryOf(thread.summary, older),
              compressed |-> thread.compressed + split]

AppendTurn(thread, turn) == Compact([thread EXCEPT !.turns = Append(@, turn)])

\* turnCount of the thread list
TurnCount(thread) == thread.compressed + Len(thread.turns)

=============================================================================
