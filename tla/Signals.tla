------------------------------ MODULE Signals ------------------------------
(***************************************************************************)
(* The multi-timeframe analysis (research/signals.py and the MACD and WR   *)
(* series of marketdata/indicators.py): the monthly MACD anchors the       *)
(* direction, the weekly one confirms it, top structures of either are     *)
(* risk flags, and WR decides the moment.                                  *)
(*                                                                         *)
(* Prices are integers and the averages are kept in fixed point (Scale);   *)
(* with spans 1, 3 and 7 and few bars the fixed point is exact.  The       *)
(* spans, warm-up and windows are constants so that small instances reach  *)
(* what takes hundreds of bars in the program; the WR limits, weights and  *)
(* strengths are the program's.  Wording is left out: a reason or a risk   *)
(* flag is what it is about.                                               *)
(***************************************************************************)
EXTENDS Timeframes, FiniteSets

CONSTANTS
    FastSpan, SlowSpan, SignalSpan,     \* 12, 26, 9
    WrSpan,                             \* 10
    MonthsNeeded,                       \* 26
    TopBars,                            \* bars before a top can be seen: 12
    TopWindow,                          \* bars searched for tops: 80
    CrossWindow,                        \* bars searched for crosses: 60
    Recent,                             \* how recent a top must be: 8
    Scale                               \* fixed point of the averages

---------------------------------------------------------------------------
(* Indicators *)

Ema(values, span) ==
    FoldLeft(LAMBDA done, v : Append(done, (2 * v + (span - 1) * Last(done)) \div (span + 1)),
             <<Head(values)>>, Tail(values))

Dif(bars) ==
    LET closes == [i \in DOMAIN bars |-> Scale * bars[i].close]
        fast == Ema(closes, FastSpan)
        slow == Ema(closes, SlowSpan)
    IN  [i \in DOMAIN bars |-> fast[i] - slow[i]]

\* WR at bar i as a fraction of the range (None before the window is full)
NoWr == <<>>
Wr(bars, i) ==
    IF i < WrSpan THEN NoWr
    ELSE LET window == i - WrSpan + 1..i
             highest == Max({bars[j].high : j \in window})
             lowest == Min({bars[j].low : j \in window})
         IN  IF highest = lowest THEN <<1, 2>> ELSE <<highest - bars[i].close, highest - lowest>>

AtLeast(wr, percent) == 100 * wr[1] >= percent * wr[2]

Oversold == {"oversold", "deep_oversold", "extreme_oversold"}

ClassifyWr(wr) ==
    IF wr = NoWr                      THEN "neutral"
    ELSE IF AtLeast(wr, 90)           THEN "extreme_oversold"
    ELSE IF AtLeast(wr, 85)           THEN "deep_oversold"
    ELSE IF AtLeast(wr, 80)           THEN "oversold"
    ELSE IF 100 * wr[1] <= 20 * wr[2] THEN "overbought"
    ELSE "neutral"

---------------------------------------------------------------------------
(* Top structures *)

LocalPeaks(values, start) ==
    {i \in start..Len(values) - 1 :
        /\ i > 1
        /\ values[i] >= values[i - 1] /\ values[i] > values[i + 1]}

LastTwo(peaks) == <<Max(peaks \ {Max(peaks)}), Max(peaks)>>

IsRecent(values, i) == Len(values) + 1 - i <= Recent

\* a higher price top on a clearly lower DIF top
BearishDivergence(highs, dif) ==
    LET peaks == LocalPeaks(highs, Max({2, Len(highs) - TopWindow + 1}))
    IN  /\ Cardinality(peaks) >= 2
        /\ LET pair == LastTwo(peaks)
               first == pair[1]
               second == pair[2]
           IN  /\ second - first >= 2 /\ IsRecent(highs, second)
               /\ 1000 * highs[second] > 1003 * highs[first]
               /\ dif[first] > 0 /\ 100 * dif[second] < 97 * dif[first]

\* two positive DIF tops, the second not much higher, with a valley between
DoubleTop(dif) ==
    LET peaks == {i \in LocalPeaks(dif, Max({2, Len(dif) - TopWindow + 1})) : dif[i] > 0}
    IN  /\ Cardinality(peaks) >= 2
        /\ LET pair == LastTwo(peaks)
               first == pair[1]
               second == pair[2]
               valley == Min({dif[i] : i \in first..second})
           IN  /\ second - first >= 3 /\ IsRecent(dif, second)
               /\ 100 * dif[second] <= 108 * dif[first]
               /\ 100 * valley <= 72 * Min({dif[first], dif[second]})

DetectTop(highs, dif) ==
    IF Len(highs) < TopBars THEN [divergence |-> FALSE, doubleTop |-> FALSE]
    ELSE [divergence |-> BearishDivergence(highs, dif), doubleTop |-> DoubleTop(dif)]

GoldenAt(dif, dea, i) ==
    /\ dif[i - 1] <= dea[i - 1] /\ dif[i] > dea[i]
    /\ dif[i] > 0 /\ dea[i] > 0

CrossesAboveZero(dif, dea) ==
    Cardinality({i \in Max({2, Len(dif) - CrossWindow + 1})..Len(dif) : GoldenAt(dif, dea, i)})

---------------------------------------------------------------------------
(* The state of one frame *)

Relation(dif, dea) ==
    CASE dif > dea -> "above_signal" [] dif < dea -> "below_signal" [] OTHER -> "on_signal"

ZeroZone(dif, dea) ==
    CASE dif > 0 /\ dea > 0 -> "above_zero"
      [] dif < 0 /\ dea < 0 -> "below_zero"
      [] OTHER -> "cross_zero"

CrossOf(before, now) ==
    CASE before[1] <= before[2] /\ now[1] > now[2] -> "golden"
      [] before[1] >= before[2] /\ now[1] < now[2] -> "death"
      [] OTHER -> "none"

FrameScore(dif, dea) ==
    CASE dif > dea -> IF ZeroZone(dif, dea) = "above_zero" THEN 2 ELSE 1
      [] dif < dea -> IF ZeroZone(dif, dea) = "below_zero" THEN -2 ELSE -1
      [] OTHER -> 0

Phase(relation, zone, cross, top, goldens) ==
    IF top.doubleTop \/ top.divergence                  THEN "second_top_risk"
    ELSE IF goldens >= 2 /\ relation = "below_signal"   THEN "repeated_cross_weakening"
    ELSE IF cross = "death" /\ zone = "above_zero"      THEN "bullish_death_cross"
    ELSE CASE zone = "above_zero" ->
                IF relation = "above_signal" THEN "bullish_continuation" ELSE "bullish_correction"
           [] zone = "below_zero" ->
                IF relation = "below_signal" THEN "bearish_continuation" ELSE "bearish_rebound"
           [] OTHER -> "zero_axis_transition"

\* a frame's MACD state from the last two points <<dif, dea>> of its series
MacdState(before, now, top, goldens, bars) ==
    LET relation == Relation(now[1], now[2])
        zone == ZeroZone(now[1], now[2])
        cross == CrossOf(before, now)
    IN  [bars |-> bars, relation |-> relation, zone |-> zone, cross |-> cross,
         goldens |-> goldens, divergence |-> top.divergence, doubleTop |-> top.doubleTop,
         phase |-> Phase(relation, zone, cross, top, goldens),
         score |-> FrameScore(now[1], now[2])]

WrState(previous, current) ==
    [zone |-> current,
     enteredOversold |-> current \in Oversold /\ previous \notin Oversold,
     enteredOverbought |-> current = "overbought" /\ previous # "overbought"]

FrameMacd(bars) ==
    LET dif == Dif(bars)
        dea == Ema(dif, SignalSpan)
        n == Len(bars)
        p == Max({1, n - 1})
    IN  MacdState(<<dif[p], dea[p]>>, <<dif[n], dea[n]>>,
                  DetectTop([i \in DOMAIN bars |-> bars[i].high], dif),
                  CrossesAboveZero(dif, dea), n)

FrameWr(bars) ==
    LET n == Len(bars)
    IN  WrState(IF n > 1 THEN ClassifyWr(Wr(bars, n - 1)) ELSE "neutral", ClassifyWr(Wr(bars, n)))

---------------------------------------------------------------------------
(* The decision.  macd and wr hold the three frames' states *)

Weight(frame) == CASE frame = "daily" -> 1 [] frame = "weekly" -> 2 [] frame = "monthly" -> 3

DirectionScore(macd) == MapThenSumSet(LAMBDA f : Weight(f) * macd[f].score, Frames)

ResolveDirection(macd) ==
    LET monthly == macd["monthly"].score
        weekly == macd["weekly"].score
    IN  IF macd["monthly"].bars < MonthsNeeded THEN "insufficient"
        ELSE CASE monthly >= 2                  -> "bullish"
               [] monthly <= -2                 -> "bearish"
               [] monthly = 1 /\ weekly >= 1    -> "bullish"
               [] monthly = -1 /\ weekly <= -1  -> "bearish"
               [] OTHER                         -> "range"

FlagsOf(frame, state) ==
    {flag \in {<<frame, "divergence">>, <<frame, "double_top">>, <<frame, "death_cross">>,
               <<frame, "weakening">>} :
        CASE flag[2] = "divergence"  -> state.divergence
          [] flag[2] = "double_top"  -> state.doubleTop
          [] flag[2] = "death_cross" -> state.cross = "death" /\ state.zone = "above_zero"
          [] flag[2] = "weakening"   -> state.goldens >= 2 /\ state.relation = "below_signal"}

RiskFlags(macd) == FlagsOf("monthly", macd["monthly"]) \cup FlagsOf("weekly", macd["weekly"])

Decision(action, strength) == [action |-> action, strength |-> strength]

TimingDecision(direction, wr, flags) ==
    LET daily == wr["daily"]
        weekly == wr["weekly"]
        count == Cardinality(flags)
        fresh == IF daily.enteredOversold THEN 82 ELSE 70
    IN  IF direction = "insufficient" THEN Decision("insufficient", 0)
        ELSE IF flags # {} /\ "overbought" \in {daily.zone, weekly.zone}
        THEN Decision("exit_watch", Min({100, 70 + 8 * count}))
        ELSE IF direction = "bearish" /\ daily.zone = "overbought" THEN Decision("exit_watch", 72)
        ELSE IF direction = "bullish" /\ daily.zone \in Oversold /\ flags = {}
        THEN Decision("entry_watch",
                      Min({95, IF weekly.zone \in Oversold THEN fresh + 10 ELSE fresh}))
        ELSE IF flags # {} THEN Decision("risk_watch", Min({85, 55 + 10 * count}))
        ELSE Decision("wait", 40)

DecisionPath(direction, macd, flags, timing) ==
    [monthly |-> CASE direction = "bullish" -> "satisfied"
                   [] direction = "bearish" -> "block"
                   [] OTHER -> "warn",
     weekly  |-> IF macd["weekly"].phase \in {"second_top_risk", "repeated_cross_weakening"} THEN "block"
                 ELSE IF macd["weekly"].score > 0 THEN "satisfied" ELSE "warn",
     top     |-> IF flags # {} THEN "block" ELSE "satisfied",
     wr      |-> IF timing.action \in {"entry_watch", "exit_watch"} THEN "satisfied" ELSE "warn",
     final   |-> CASE timing.action = "entry_watch" -> "satisfied"
                   [] timing.action \in {"exit_watch", "risk_watch"} -> "block"
                   [] OTHER -> "warn"]

Clamp(low, high, x) == Max({low, Min({high, x})})

CandidateScore(direction, score, wr, flags) ==
    LET byDirection == CASE direction = "bullish" -> 15 [] direction = "bearish" -> -20 [] OTHER -> 0
        byDaily == CASE wr["daily"].zone \in Oversold \ {"oversold"} -> 20
                     [] wr["daily"].zone = "oversold" -> 12
                     [] wr["daily"].zone = "overbought" -> -12
                     [] OTHER -> 0
        byWeekly == IF wr["weekly"].zone \in Oversold THEN 10 ELSE 0
    IN  Clamp(0, 100, 45 + Clamp(-20, 20, 2 * score) + byDirection + byDaily + byWeekly
                         - Min({30, 12 * Cardinality(flags)}))

Regime(direction, flags) ==
    CASE direction = "bullish" -> IF flags # {} THEN "bullish_with_adjustment_risk" ELSE "trend"
      [] OTHER -> direction

Decide(macd, wr) ==
    LET direction == ResolveDirection(macd)
        score == DirectionScore(macd)
        flags == RiskFlags(macd)
        timing == TimingDecision(direction, wr, flags)
    IN  [direction |-> direction, score |-> score, flags |-> flags, timing |-> timing,
         regime |-> Regime(direction, flags),
         candidate |-> CandidateScore(direction, score, wr, flags),
         path |-> DecisionPath(direction, macd, flags, timing)]

\* a frame's last bar is left out while its period is still running
DecisionBars(bars, frame) ==
    LET built == AggregateBars(bars, frame, Last(bars).day)
    IN  IF ~built.complete /\ Len(built.bars) > 1 THEN Front(built.bars) ELSE built.bars

Analyze(bars) ==
    LET frames == [f \in Frames |-> DecisionBars(bars, f)]
    IN  Decide([f \in Frames |-> FrameMacd(frames[f])], [f \in Frames |-> FrameWr(frames[f])])
=============================================================================
