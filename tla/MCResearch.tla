----------------------------- MODULE MCResearch -----------------------------
(***************************************************************************)
(* The parts of research that share no state are explored side by side:    *)
(* focus says which one a behaviour is about; the variables of the others  *)
(* keep one value, those of the backtest, the cache and freshness an       *)
(* initial one, those of the allocation that of level scores.              *)
(***************************************************************************)
EXTENDS Screening, Backtest, MarketCache, MacroFreshness, ResearchPipeline,
        MacroAllocation, TLC

VARIABLE focus

---------------------------------------------------------------------------
(* Weeks and months scaled down: a month has one trading day or two *)

MCCalendar == <<[week |-> 1, weekday |-> 4, month |-> 1], [week |-> 2, weekday |-> 3, month |-> 2],
                [week |-> 2, weekday |-> 4, month |-> 2], [week |-> 3, weekday |-> 2, month |-> 3],
                [week |-> 3, weekday |-> 3, month |-> 4], [week |-> 4, weekday |-> 0, month |-> 4],
                [week |-> 4, weekday |-> 4, month |-> 5], [week |-> 5, weekday |-> 3, month |-> 6],
                [week |-> 5, weekday |-> 4, month |-> 6], [week |-> 6, weekday |-> 0, month |-> 7]>>

MCPrices == {[open |-> 8, high |-> 12, low |-> 8, close |-> 12],
             [open |-> 11, high |-> 12, low |-> 8, close |-> 8]}

\* the program's analyzer (analyze_multi_timeframe), its spans scaled down as well
Small == INSTANCE Signals WITH FastSpan <- 1, SlowSpan <- 3, SignalSpan <- 3, WrSpan <- 2,
    MonthsNeeded <- 1, Scale <- 16384

MCAnalyzer(seen) == LET a == Small!Analyze(seen)
                    IN  [action |-> a.timing.action, score |-> a.candidate]

ASSUME WalkAssumption

---------------------------------------------------------------------------
\* Four trading days of five, for two threads

MCTradingDay == {1, 3, 4, 5}
MCRequests == {<<1, 2>>, <<4, 5>>, <<1, 5>>}

---------------------------------------------------------------------------
(* Frame states: two below or above zero, four after a cross or with golden *)
(* crosses behind them, and one with a divergence                           *)

NoTop == [divergence |-> FALSE, doubleTop |-> FALSE]
MCFrames ==
    {MacdState(before, <<2, 1>>, NoTop, 0, 26) : before \in {<<1, 2>>, <<2, 1>>}}
    \cup {MacdState(<<2, 1>>, now, NoTop, goldens, 26) :
            now \in {<<1, 2>>, <<-1, -2>>, <<-2, -1>>}, goldens \in {0, 2}}
    \cup {MacdState(<<2, 1>>, <<2, 1>>, [NoTop EXCEPT !.divergence = TRUE], 0, 26)}

MCMonths == MCFrames \cup {MacdState(<<2, 1>>, <<2, 1>>, NoTop, 0, 25)}
MCDays == {MacdState(<<1, 1>>, <<1, 1>>, NoTop, 0, 99)}

MCZones == {<<"neutral", "neutral">>, <<"neutral", "oversold">>, <<"oversold", "deep_oversold">>,
            <<"neutral", "overbought">>}
MCWaves == {[daily |-> WrState(z[1], z[2]), weekly |-> WrState("neutral", w),
             monthly |-> WrState("neutral", "neutral")] :
               z \in MCZones, w \in {"neutral", "overbought"}}

MCStrategies ==
    {[actions |-> {"buy", "add", "hold", "wait"},
      directions |-> {"bullish", "bearish", "range", "insufficient"},
      minConfidence |-> 0, minScore |-> 0, gate |-> FALSE],
     [actions |-> {"buy", "add"}, directions |-> {"bullish"},
      minConfidence |-> 80, minScore |-> 60, gate |-> TRUE]}

MCGains == {5, -10}
MCTrends == {"bullish", "bearish", "range", "unavailable"}

---------------------------------------------------------------------------
\* both sides of every threshold
MCDirections == {-100, -35, 0, 34, 35, 100}
MCLevels == {0, 30, 50, 100}
MCPressures == {0, 59, 60, 100}

Symmetry == Permutations(Fetcher) \cup Permutations(Sources)

---------------------------------------------------------------------------
Off == "not in focus"

NoPipeline ==
    /\ request = Off /\ status = Off /\ pc = Off /\ held = Off /\ unsafe = Off
    /\ checked = Off /\ failure = Off /\ outcome = "none" /\ disturbed = FALSE
NoScreen == case = Off /\ sector = Off /\ advice = Off /\ listed = Off
NoAllocation == scores = [direction |-> 0, volume |-> 50, speed |-> 50, pressure |-> 0] /\ plans = Plans(scores)

MCInit ==
    /\ InitWalk /\ Init /\ InitFreshness
    /\ \/ /\ focus = "walk"
          /\ NoPipeline /\ NoScreen /\ NoAllocation
       \/ /\ focus = "cache"
          /\ NoPipeline /\ NoScreen /\ NoAllocation
       \/ /\ focus = "pipeline" /\ InitPipeline
          /\ NoScreen /\ NoAllocation
       \/ /\ focus = "screen" /\ InitScreening
          /\ NoPipeline /\ NoAllocation
       \/ /\ focus = "allocation" /\ InitAllocation
          /\ NoPipeline /\ NoScreen
       \/ /\ focus = "freshness"
          /\ NoPipeline /\ NoScreen /\ NoAllocation

MCNext ==
    \/ /\ focus = "walk" /\ NextWalk
       /\ UNCHANGED <<focus, vars, pipelineVars, screeningVars, allocationVars, freshnessVars>>
    \/ /\ focus = "cache" /\ Next
       /\ UNCHANGED <<focus, walkVars, pipelineVars, screeningVars, allocationVars, freshnessVars>>
    \/ /\ focus = "pipeline" /\ NextPipeline
       /\ UNCHANGED <<focus, vars, walkVars, screeningVars, allocationVars, freshnessVars>>
    \/ /\ focus = "screen" /\ NextScreening
       /\ UNCHANGED <<focus, vars, walkVars, pipelineVars, allocationVars, freshnessVars>>
    \/ /\ focus = "allocation" /\ NextAllocation
       /\ UNCHANGED <<focus, vars, walkVars, pipelineVars, screeningVars, freshnessVars>>
    \/ /\ focus = "freshness" /\ NextFreshness
       /\ UNCHANGED <<focus, vars, walkVars, pipelineVars, screeningVars, allocationVars>>

allVars == <<focus, vars, walkVars, pipelineVars, screeningVars, allocationVars, freshnessVars>>

MCSpec == MCInit /\ [][MCNext]_allVars
=============================================================================
