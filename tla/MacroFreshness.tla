--------------------------- MODULE MacroFreshness ---------------------------
(***************************************************************************)
(* The freshness gate of macro conclusions: official data is loaded and    *)
(* saved as the fallback of a later day (macro/providers.py), four         *)
(* official pages are asked for newer releases and the verdict is kept per *)
(* snapshot (macro/freshness.py), and a run that analyses a security takes *)
(* the macro overlay only from a verified snapshot                         *)
(* (agents/investment_runtime.py).  The verdicts live in the process and   *)
(* are shared by its runs.                                                 *)
(*                                                                         *)
(* A snapshot is its date, the number of releases its data knows, and      *)
(* whether it carries the fallback's warning: together they stand for its  *)
(* hash.  A page shows the day of its latest release; one that has         *)
(* released nothing shows no date and counts as answered.                  *)
(***************************************************************************)
EXTENDS Integers, FiniteSets, FiniteSetsExt, Functions

CONSTANTS
    Run,            \* runs of the process
    Sources,        \* the official sites: 4
    Needed,         \* answers needed for a verdict: 3
    MaxAge,         \* days: 45
    LastDate,       \* bound: days
    MaxVerdicts,    \* bound: snapshots known as current
    MaxReleases     \* bound: releases

ASSUME FreshnessAssumption ==
    IsFiniteSet(Sources) /\ {Needed, MaxAge, LastDate, MaxVerdicts, MaxReleases} \subseteq Nat

VARIABLES
    date,           \* today
    released,       \* <<source, day>>
    file,           \* latest-official-snapshot.json
    verdicts,       \* _VALIDITY_CACHE: the snapshots now known as current, with the
                    \* day of the verdict (an entry that allows nothing is left out)
    run             \* the runs' local state

freshnessVars == <<date, released, file, verdicts, run>>

NoSnapshot == [asOf |-> 0]
Waiting == -2
Failed == -1
NoDate == 0

NoRun == [at |-> "idle", live |-> FALSE, snapshot |-> NoSnapshot, started |-> 0, checks |-> <<>>]

Snapshot(asOf, known, warned) == [asOf |-> asOf, known |-> known, warned |-> warned]

\* the one that comes with the program
Bundled == Snapshot(1, 0, FALSE)

---------------------------------------------------------------------------
(* Loading: once per run *)

Ask(r) ==
    /\ run[r].at = "idle"
    /\ \E live \in BOOLEAN : run' = [run EXCEPT ![r].at = "ready", ![r].live = live]
    /\ UNCHANGED <<date, released, file, verdicts>>

LoadBundled(r) ==
    /\ run[r].at = "ready" /\ run[r].snapshot = NoSnapshot /\ ~run[r].live
    /\ run' = [run EXCEPT ![r].snapshot = Bundled]
    /\ UNCHANGED <<date, released, file, verdicts>>

\* the sites are read; the file is replaced by a step of its own
FetchLive(r) ==
    /\ run[r].at = "ready" /\ run[r].snapshot = NoSnapshot /\ run[r].live
    /\ run' = [run EXCEPT ![r].at = "save", ![r].live = FALSE,
                           ![r].snapshot = Snapshot(date, Cardinality(released), FALSE)]
    /\ UNCHANGED <<date, released, file, verdicts>>

Save(r) ==
    /\ run[r].at = "save"
    /\ file' = run[r].snapshot
    /\ run' = [run EXCEPT ![r].at = "ready"]
    /\ UNCHANGED <<date, released, verdicts>>

\* the sites cannot be read: the file with a warning, or the tool fails and
\* nothing changes
FallBack(r) ==
    /\ run[r].at = "ready" /\ run[r].snapshot = NoSnapshot /\ run[r].live
    /\ file # NoSnapshot
    /\ run' = [run EXCEPT ![r].live = FALSE, ![r].snapshot = [file EXCEPT !.warned = TRUE]]
    /\ UNCHANGED <<date, released, file, verdicts>>

---------------------------------------------------------------------------
(* The verification: the pages are asked at once and answer at any time *)

Verify(r) ==
    /\ run[r].at = "ready" /\ run[r].snapshot # NoSnapshot
    /\ Cardinality({v.snapshot : v \in verdicts} \cup {run[r].snapshot}) <= MaxVerdicts
    /\ run' = [run EXCEPT ![r].at = "verify", ![r].started = date,
                           ![r].checks = [s \in Sources |-> Waiting]]
    /\ UNCHANGED <<date, released, file, verdicts>>

LatestOf(s) == Max({NoDate} \cup {release[2] : release \in {x \in released : x[1] = s}})

Check(r, s) ==
    /\ run[r].at = "verify" /\ run[r].checks[s] = Waiting
    /\ \E answer \in {LatestOf(s), Failed} :
         run' = [run EXCEPT ![r].checks[s] = answer]
    /\ UNCHANGED <<date, released, file, verdicts>>

Status(snapshot, checks, day) ==
    LET answered == {s \in Sources : checks[s] # Failed}
        newer == {s \in answered : checks[s] > snapshot.asOf}
    IN  CASE newer # {} \/ day - snapshot.asOf > MaxAge -> "stale"
          [] Cardinality(answered) < Needed /\ newer = {} /\ day - snapshot.asOf <= MaxAge -> "unverified"
          [] OTHER -> "current"

\* the verdict replaces the one before it, a run's own or another run's
Remember(snapshot, status) ==
    verdicts' = {v \in verdicts : v.snapshot # snapshot}
                \cup (IF status = "current" THEN {[snapshot |-> snapshot, checked |-> date]} ELSE {})

GiveVerdict(r) ==
    /\ run[r].at = "verify" /\ Waiting \notin Range(run[r].checks)
    /\ Remember(run[r].snapshot, Status(run[r].snapshot, run[r].checks, run[r].started))
    /\ run' = [run EXCEPT ![r].at = "ready", ![r].started = 0, ![r].checks = <<>>]
    /\ UNCHANGED <<date, released, file>>

---------------------------------------------------------------------------
(* The overlay *)

\* Mutation of VerifiedCurrent: a verdict of any day counts.
VerifiedOnce(snapshot, end) ==
    /\ end - snapshot.asOf \in 0..MaxAge
    /\ \E v \in verdicts : v.snapshot = snapshot

VerifiedCurrent(snapshot, end) ==
    /\ end - snapshot.asOf \in 0..MaxAge
    /\ \E v \in verdicts : v.snapshot = snapshot /\ v.checked = date

\* a security is analysed: with its run's snapshot, up to the end date the user
\* asked for, an overlay is taken
Overlaid(r, end) ==
    /\ run[r].at = "ready" /\ run[r].snapshot # NoSnapshot
    /\ VerifiedCurrent(run[r].snapshot, end)

\* the run is over, or cancelled wherever it is
EndRun(r) ==
    /\ run[r].at # "idle"
    /\ run' = [run EXCEPT ![r] = NoRun]
    /\ UNCHANGED <<date, released, file, verdicts>>

---------------------------------------------------------------------------
(* The world *)

Publish(s) ==
    /\ Cardinality(released) < MaxReleases
    /\ released' = released \cup {<<s, date>>}
    /\ UNCHANGED <<date, file, verdicts, run>>

\* a verification is over before its second midnight (its requests time out)
Midnight ==
    /\ date < LastDate
    /\ \A r \in Run : run[r].at = "verify" => run[r].started = date
    /\ date' = date + 1
    /\ UNCHANGED <<released, file, verdicts, run>>

\* the process ends: the verdicts are gone, the file stays
Restart ==
    /\ verdicts' = {} /\ run' = [r \in Run |-> NoRun]
    /\ UNCHANGED <<date, released, file>>

InitFreshness ==
    /\ date = 1 /\ released = {} /\ file = NoSnapshot /\ verdicts = {}
    /\ run = [r \in Run |-> NoRun]

RunStep(r) ==
    \/ Ask(r) \/ LoadBundled(r) \/ FetchLive(r) \/ Save(r) \/ FallBack(r)
    \/ Verify(r) \/ (\E s \in Sources : Check(r, s)) \/ GiveVerdict(r) \/ EndRun(r)

NextFreshness ==
    \/ \E r \in Run : RunStep(r)
    \/ \E s \in Sources : Publish(s)
    \/ Midnight \/ Restart

SpecFreshness == InitFreshness /\ [][NextFreshness]_freshnessVars

---------------------------------------------------------------------------
(* Safety *)

\* The overlay of a day never comes from a snapshot that too many sites had
\* superseded two days before: whichever runs load, verify and analyse at once,
\* across midnights, failures and restarts, at most the sites that may stay
\* unanswered have such a release (snapshot_is_verified_current).
OverlayIsFresh ==
    \A r \in Run : (\E end \in 1..date : Overlaid(r, end)) =>
        LET superseded == run[r].snapshot.asOf + 1..date - 2
        IN  Cardinality({s \in Sources : \E day \in superseded : <<s, day>> \in released})
                <= Cardinality(Sources) - Needed
=============================================================================
