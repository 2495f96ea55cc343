----------------------------- MODULE MarketCache -----------------------------
(***************************************************************************)
(* The local cache of daily bars (marketdata/cache.py) and the provider    *)
(* that fills it (marketdata/cached_provider.py), for one series: a        *)
(* source, a symbol and an adjustment.                                     *)
(*                                                                         *)
(* fetch_daily runs in a thread of its own (asyncio.to_thread in           *)
(* research/pipeline.py), so several may run at once; each call of the     *)
(* cache is one SQLite transaction and one action here.  A bar is reduced  *)
(* to the vendor's adjustment basis it was computed on: an ex-dividend day *)
(* changes every earlier bar of an adjusted series.  The vendor is         *)
(* external: it has a bar for each trading day that is over, and may       *)
(* refuse a request (ValueError) or break (any other exception).           *)
(***************************************************************************)
EXTENDS Integers, Sequences, FiniteSets, FiniteSetsExt, OrderedSets

CONSTANTS
    Fetcher,        \* threads that call fetch_daily
    LastDay,        \* bound: days are 1..LastDay
    FirstToday,     \* the day the behaviour starts
    TradingDay,     \* the days that get a bar
    Requests,       \* the ranges asked for, <<start, end>>
    MaxBasis        \* bound: how often the vendor changes its basis

ASSUME CacheAssumption ==
    /\ {LastDay, FirstToday, MaxBasis} \subseteq Nat
    /\ TradingDay \subseteq Nat
    /\ Requests \subseteq Nat \X Nat

VARIABLES
    cached,         \* market_price_bars: a function from days to bases
    covered,        \* market_data_coverage: the days of its merged ranges
    fetch,          \* the fetchers' local state
    basis, today,   \* the vendor's current basis, the current day
    overlapped      \* history: two fetches were under way at once

vars == <<cached, covered, fetch, basis, today, overlapped>>

DaysOf(range) == range[1]..range[2]

NoBounds == <<>>
NoBars == [d \in {} |-> 0]

Idle == [at |-> "idle", range |-> <<1, 1>>, gaps |-> <<>>, bounds |-> NoBounds,
         dataset |-> NoBars, asked |-> <<1, 1>>, refused |-> <<>>]

---------------------------------------------------------------------------
(* The cache *)

Loaded(range) == DOMAIN cached \cap DaysOf(range)

Bounds == IF DOMAIN cached = {} THEN NoBounds ELSE <<Min(DOMAIN cached), Max(DOMAIN cached)>>

\* the runs of days of the range no coverage holds, in order
Starts(missing) == {d \in missing : d - 1 \notin missing}
EndOf(missing, d) == Min({e \in missing : e >= d /\ e + 1 \notin missing})
MissingRanges(range) ==
    LET missing == DaysOf(range) \ covered
        starts  == Starts(missing)
    IN  [i \in 1..Cardinality(starts) |-> <<Ith(starts, i), EndOf(missing, Ith(starts, i))>>]

StoreDataset(dataset, range) ==
    /\ cached' = [d \in DOMAIN dataset \cup DOMAIN cached |->
                    IF d \in DOMAIN dataset THEN dataset[d] ELSE cached[d]]
    /\ covered' = covered \cup DaysOf(range)

ClearSeries == cached' = NoBars /\ covered' = {}

RecordCoverage(range) == covered' = covered \cup DaysOf(range) /\ UNCHANGED cached

---------------------------------------------------------------------------
(* fetch_daily *)

\* Mutation of GapRequest: a gap is asked for without the bar next to it.
GapRequestAlone(f) == Head(fetch[f].gaps)

\* the first gap, extended to the cached bar next to it
GapRequest(f) ==
    LET gap == Head(fetch[f].gaps)
        bounds == fetch[f].bounds
    IN  CASE bounds # NoBounds /\ gap[1] > bounds[2] -> <<bounds[2], gap[2]>>
          [] bounds # NoBounds /\ gap[1] <= bounds[2] /\ gap[2] < bounds[1] -> <<gap[1], bounds[1]>>
          [] OTHER -> gap

\* the day on which the answer must agree with the cache
OverlapDays(f) ==
    LET bounds == fetch[f].bounds
        asked == fetch[f].asked
    IN  CASE bounds # NoBounds /\ asked[1] = bounds[2] -> {bounds[2]}
          [] bounds # NoBounds /\ asked[1] # bounds[2] /\ asked[2] = bounds[1] -> {bounds[1]}
          [] OTHER -> {}

Rebased(f) ==
    \E d \in OverlapDays(f) \cap DOMAIN cached \cap DOMAIN fetch[f].dataset :
        cached[d] # fetch[f].dataset[d]

FullRange(f) ==
    LET range == fetch[f].range
        bounds == fetch[f].bounds
    IN  <<Min({bounds[1], range[1]}), Max({bounds[2], range[2]})>>

Become(f, state) == fetch' = [fetch EXCEPT ![f] = state]

NextGap(f) == IF Len(fetch[f].gaps) > 1 THEN "fetch" ELSE "loaded"

\* load_bars, missing_ranges
Request(f, range) ==
    LET gaps == MissingRanges(range)
    IN  /\ fetch[f].at = "idle"
        /\ Become(f, [Idle EXCEPT !.at = IF gaps = <<>> THEN "result" ELSE "bounds",
                                  !.range = range, !.gaps = gaps])
        /\ overlapped' = (overlapped \/ \E g \in Fetcher : fetch[g].at # "idle")
        /\ UNCHANGED <<cached, covered, basis, today>>

ReadBounds(f) ==
    /\ fetch[f].at = "bounds"
    /\ Become(f, [fetch[f] EXCEPT !.at = "fetch", !.bounds = Bounds])
    /\ UNCHANGED <<cached, covered, basis, today, overlapped>>

\* the vendor's bars of a range
Bars(range) == [d \in {d \in DaysOf(range) \cap TradingDay : d <= today} |-> basis]

Answered(f) ==
    LET asked == GapRequest(f)
    IN  /\ fetch[f].at = "fetch"
        /\ asked[1] < asked[2] /\ DOMAIN Bars(asked) # {}
        /\ Become(f, [fetch[f] EXCEPT !.at = "compare", !.asked = asked, !.dataset = Bars(asked)])
        /\ UNCHANGED <<cached, covered, basis, today, overlapped>>

\* a ValueError: nothing in the range, or nothing given now
Refused(f) ==
    /\ fetch[f].at = "fetch"
    /\ Become(f, [fetch[f] EXCEPT !.at = NextGap(f), !.gaps = Tail(@),
                                  !.refused = Append(@, Head(fetch[f].gaps))])
    /\ UNCHANGED <<cached, covered, basis, today, overlapped>>

\* any other exception leaves fetch_daily, as a ValueError of the refetch does
Broken(f) ==
    /\ fetch[f].at \in {"fetch", "refetch"}
    /\ Become(f, Idle)
    /\ UNCHANGED <<cached, covered, basis, today, overlapped>>

Compare(f) ==
    /\ fetch[f].at = "compare"
    /\ Become(f, [fetch[f] EXCEPT !.at = IF Rebased(f) THEN "refetch" ELSE "store"])
    /\ UNCHANGED <<cached, covered, basis, today, overlapped>>

Store(f) ==
    /\ fetch[f].at = "store"
    /\ StoreDataset(fetch[f].dataset, fetch[f].asked)
    /\ Become(f, [fetch[f] EXCEPT !.at = NextGap(f), !.gaps = Tail(@), !.dataset = NoBars])
    /\ UNCHANGED <<basis, today, overlapped>>

Refetch(f) ==
    /\ fetch[f].at = "refetch"
    /\ Become(f, [fetch[f] EXCEPT !.at = "clear", !.asked = FullRange(f),
                                  !.dataset = Bars(FullRange(f))])
    /\ UNCHANGED <<cached, covered, basis, today, overlapped>>

Clear(f) ==
    /\ fetch[f].at = "clear"
    /\ ClearSeries
    /\ Become(f, [fetch[f] EXCEPT !.at = "rebuild"])
    /\ UNCHANGED <<basis, today, overlapped>>

Rebuild(f) ==
    /\ fetch[f].at = "rebuild"
    /\ StoreDataset(fetch[f].dataset, fetch[f].asked)
    /\ Become(f, [fetch[f] EXCEPT !.at = "loaded", !.gaps = <<>>, !.dataset = NoBars])
    /\ UNCHANGED <<basis, today, overlapped>>

\* with a bar to show, a refused gap counts as covered
Conclude(f) ==
    LET shown == Loaded(fetch[f].range) # {}
    IN  /\ fetch[f].at = "loaded"
        /\ Become(f, IF fetch[f].refused = <<>> THEN [fetch[f] EXCEPT !.at = "result"]
                     ELSE IF shown THEN [fetch[f] EXCEPT !.at = "cover"]
                     ELSE Idle)
        /\ UNCHANGED <<cached, covered, basis, today, overlapped>>

Cover(f) ==
    LET refused == fetch[f].refused
    IN  /\ fetch[f].at = "cover"
        /\ RecordCoverage(Head(refused))
        /\ Become(f, [fetch[f] EXCEPT !.at = IF Len(refused) > 1 THEN "cover" ELSE "result",
                                      !.refused = Tail(@)])
        /\ UNCHANGED <<basis, today, overlapped>>

\* _result: the bars of the range, or a ValueError if there are none
Result(f) ==
    /\ fetch[f].at = "result"
    /\ Become(f, Idle)
    /\ UNCHANGED <<cached, covered, basis, today, overlapped>>

---------------------------------------------------------------------------
(* The world *)

DayEnds ==
    /\ today < LastDay
    /\ today' = today + 1
    /\ UNCHANGED <<cached, covered, fetch, basis, overlapped>>

Rebase ==
    /\ basis < MaxBasis
    /\ basis' = basis + 1
    /\ UNCHANGED <<cached, covered, fetch, today, overlapped>>

\* the process dies: what SQLite committed stays
Crash ==
    /\ \E f \in Fetcher : fetch[f].at # "idle"
    /\ fetch' = [f \in Fetcher |-> Idle]
    /\ UNCHANGED <<cached, covered, basis, today, overlapped>>

Init ==
    /\ cached = NoBars /\ covered = {} /\ basis = 0 /\ today = FirstToday
    /\ fetch = [f \in Fetcher |-> Idle] /\ overlapped = FALSE

FetchStep(f) ==
    \/ \E range \in Requests : Request(f, range)
    \/ ReadBounds(f) \/ Answered(f) \/ Refused(f) \/ Broken(f) \/ Compare(f) \/ Store(f)
    \/ Refetch(f) \/ Clear(f) \/ Rebuild(f) \/ Conclude(f) \/ Cover(f) \/ Result(f)

Next == (\E f \in Fetcher : FetchStep(f)) \/ DayEnds \/ Rebase \/ Crash

Spec == Init /\ [][Next]_vars

---------------------------------------------------------------------------
(* Safety *)

\* As long as fetches came one after the other, whatever they were refused and
\* wherever the process died, the cached bars are one series: all on one basis,
\* so that prices never jump where an old fetch ends and a new one begins, and
\* without a hole, since a range once refused and counted as covered is fetched
\* when the series grows over it (fetch_daily).
SeriesIsWhole ==
    ~overlapped =>
        /\ \A d, e \in DOMAIN cached : cached[d] = cached[e]
        /\ \A d \in TradingDay :
             Bounds # NoBounds /\ d \in Bounds[1]..Bounds[2] => d \in DOMAIN cached
=============================================================================
