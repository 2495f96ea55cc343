----------------------------- MODULE Timeframes -----------------------------
(***************************************************************************)
(* Daily bars and the weekly and monthly bars built from them              *)
(* (marketdata/timeframes.py, marketdata/models.py).  A bar is             *)
(* [day, open, high, low, close], its day an index into the trading        *)
(* calendar; volume, amount and the previous close are left out.           *)
(***************************************************************************)
EXTENDS Integers, Sequences, SequencesExt, FiniteSets, OrderedSets

CONSTANT Calendar   \* the trading days: a sequence of [week, weekday, month]

ASSUME CalendarAssumption ==
    /\ Calendar \in Seq([week : Nat, weekday : 0..4, month : Nat])
    /\ \A d, e \in DOMAIN Calendar :
         d < e => /\ Calendar[d].month <= Calendar[e].month
                  /\ \/ Calendar[d].week < Calendar[e].week
                     \/ /\ Calendar[d].week = Calendar[e].week
                        /\ Calendar[d].weekday < Calendar[e].weekday

Frames == {"daily", "weekly", "monthly"}

PeriodKey(day, frame) ==
    CASE frame = "daily"   -> day
      [] frame = "weekly"  -> Calendar[day].week
      [] frame = "monthly" -> Calendar[day].month

\* Mutation of LatestComplete: a week counts as over on Thursday.
LatestCompleteThursday(last, frame, today) ==
    \/ frame = "daily"
    \/ PeriodKey(last, frame) < PeriodKey(today, frame)
    \/ frame = "weekly" /\ Calendar[last].weekday >= 3

\* a week is over on its Friday, a month only once another one has begun
LatestComplete(last, frame, today) ==
    \/ frame = "daily"
    \/ PeriodKey(last, frame) < PeriodKey(today, frame)
    \/ frame = "weekly" /\ Calendar[last].weekday >= 4

\* the bar of the consecutive bars from..to
Merge(bars, from, to) ==
    [day   |-> bars[to].day, open |-> bars[from].open, close |-> bars[to].close,
     high  |-> Max({bars[i].high : i \in from..to}),
     low   |-> Min({bars[i].low : i \in from..to})]

\* the bars a period begins with, and the last one of the k-th period
Openings(bars, frame) ==
    {i \in DOMAIN bars : i = 1 \/ PeriodKey(bars[i].day, frame) # PeriodKey(bars[i - 1].day, frame)}
Closing(bars, openings, k) ==
    IF k = Cardinality(openings) THEN Len(bars) ELSE Ith(openings, k + 1) - 1

AggregateBars(bars, frame, today) ==
    LET openings == Openings(bars, frame)
    IN  [bars     |-> [k \in 1..Cardinality(openings) |->
                         Merge(bars, Ith(openings, k), Closing(bars, openings, k))],
         complete |-> LatestComplete(Last(bars).day, frame, today)]
=============================================================================
