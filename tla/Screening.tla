----------------------------- MODULE Screening -----------------------------
(***************************************************************************)
(* From an analysis to an action and to the list of candidates: the        *)
(* confluence with the market and the sector (research/market_context.py), *)
(* the advice (research/advice.py), a holding's exit priority and the      *)
(* candidates (portfolio/analysis.py), under a strategy the user declares  *)
(* in a skill (portfolio/strategy_dsl.py).                                 *)
(*                                                                         *)
(* A security is observed: the MACD state of its frames, WR, the trend of  *)
(* its market, a position or none.  Then its sector's trend may be         *)
(* attached (research/service.py), and it is screened, in any order.       *)
(* Prices, forecasts and the order of the candidates are left out.         *)
(***************************************************************************)
EXTENDS Signals

CONSTANTS
    Months, Weeks, Days,    \* MACD states of the three frames
    Waves,                  \* the frames' WR states
    Trends,                 \* directions of a market or a sector, or Unavailable
    Gains,                  \* a holding's gain in percent, drawdown included
    MacroAdjustments,       \* confidence_adjustment of the macro overlay
    Samples,                \* historical signals behind a forecast
    Strategies              \* of the user

\* a frame's phase is that of its signals and tops (MacdState)
ASSUME FramesAssumption ==
    \A f \in Months \cup Weeks \cup Days : f.phase = Phase(f.relation, f.zone, f.cross, f, f.goldens)

VARIABLES case, sector, advice, listed

screeningVars == <<case, sector, advice, listed>>

Unavailable == "unavailable"
NotLoaded == "not_loaded"

---------------------------------------------------------------------------
(* Market and sector *)

Confluence(status, adjustment, gate) == [status |-> status, adjustment |-> adjustment, gate |-> gate]

MarketConfluence(direction, benchmark, proxy) ==
    CASE benchmark = Unavailable -> Confluence("market_unavailable", -8, FALSE)
      [] direction = "bullish" /\ benchmark \notin {"bullish", Unavailable} ->
           Confluence("market_divergent", -12, FALSE)
      [] direction = "bullish" /\ benchmark = "bullish" ->
           (CASE proxy = NotLoaded   -> Confluence("market_aligned_sector_pending", 6, TRUE)
              [] proxy = Unavailable -> Confluence("sector_unavailable", -8, FALSE)
              [] proxy = "bullish"   -> Confluence("full_aligned", 12, TRUE)
              [] OTHER               -> Confluence("sector_divergent", -8, FALSE))
      [] direction # "bullish" /\ direction = benchmark -> Confluence("risk_aligned", 8, FALSE)
      [] OTHER -> Confluence("stock_not_bullish", -4, FALSE)

---------------------------------------------------------------------------
(* Advice *)

ActionFor(analysis, holding, gate) ==
    LET timing == analysis.timing.action
        Choose(held, free) == IF holding THEN held ELSE free
    IN  CASE timing = "entry_watch" /\ gate  -> Choose("add", "buy")
          [] timing = "entry_watch" /\ ~gate -> Choose("hold", "wait")
          [] timing = "exit_watch"           -> Choose("sell", "avoid")
          [] timing = "risk_watch"           -> Choose("reduce", "avoid")
          [] timing \notin {"entry_watch", "exit_watch", "risk_watch"} ->
               IF analysis.direction = "bearish" THEN Choose("reduce", "avoid")
               ELSE Choose("hold", "wait")

Abs(x) == IF x < 0 THEN -x ELSE x

\* round(x / 10), halves to the even neighbour
Rounded(x) ==
    LET low == x \div 10
    IN  CASE x % 10 < 5 -> low
          [] x % 10 > 5 -> low + 1
          [] OTHER      -> IF low % 2 = 0 THEN low ELSE low + 1

TechnicalConfidence(analysis, action, samples) ==
    LET base == CASE action \in {"hold", "wait"} -> Clamp(35, 65, 45 + 2 * Abs(analysis.score))
                  [] action = "avoid" /\ analysis.timing.action = "wait" -> 55
                  [] OTHER -> analysis.timing.strength
    IN  Clamp(20, 95, IF samples = 0 THEN base
                      ELSE Rounded(8 * base + 2 * Min({90, 50 + 4 * samples})))

\* history counts only for an action that is a signal
Counted(action, samples) == IF action \in {"buy", "add", "sell"} THEN samples ELSE 0

MacroAdjustment(action, adjustment) ==
    CASE action \in {"buy", "add", "hold"}     -> adjustment
      [] action \in {"reduce", "sell", "avoid"} -> -adjustment
      [] OTHER -> 0

Advise(c, proxy) ==
    LET context == MarketConfluence(c.analysis.direction, c.benchmark, proxy)
        action == ActionFor(c.analysis, c.holding, context.gate)
        technical == TechnicalConfidence(c.analysis, action, Counted(action, c.samples))
    IN  [action |-> action, context |-> context,
         confidence |-> Clamp(20, 95, technical + context.adjustment
                                               + MacroAdjustment(action, c.macro))]

ExitPriority(c, given) ==
    IF given.action = "sell" \/ c.analysis.timing.action = "exit_watch"        THEN "urgent"
    ELSE IF given.action = "reduce" \/ c.analysis.timing.action = "risk_watch" THEN "high"
    ELSE IF c.gain <= -10 THEN "medium" ELSE "low"

---------------------------------------------------------------------------
(* Candidates *)

SafeActions == {"buy", "add", "hold", "wait"}

\* what CandidateStrategy.from_dict accepts
ValidStrategy(s) ==
    /\ s.actions # {} /\ s.actions \subseteq SafeActions
    /\ s.directions # {} /\ s.directions \subseteq {"bullish", "bearish", "range", "insufficient"}
    /\ s.minConfidence \in 0..100 /\ s.minScore \in 0..100 /\ s.gate \in BOOLEAN

\* Mutation of PlatformAllowed: the user's strategy alone decides.
PlatformAllowedAlways(c, given) == TRUE

PlatformAllowed(c, given) ==
    /\ c.analysis.timing.action # "exit_watch"
    /\ given.action \notin {"sell", "reduce", "avoid"}

Allows(s, c, given) ==
    /\ given.action \in s.actions /\ c.analysis.direction \in s.directions
    /\ given.confidence >= s.minConfidence /\ c.analysis.candidate >= s.minScore
    /\ s.gate => given.context.gate

NoStrategy == [none |-> TRUE]

---------------------------------------------------------------------------
Observed(m, w, d, waves) == Decide([monthly |-> m, weekly |-> w, daily |-> d], waves)

InitScreening ==
    /\ \E m \in Months, w \in Weeks, d \in Days, waves \in Waves, benchmark \in Trends,
          holding \in BOOLEAN, gain \in Gains, macro \in MacroAdjustments, samples \in Samples :
          case = [analysis |-> Observed(m, w, d, waves), benchmark |-> benchmark, holding |-> holding,
                  gain |-> gain, macro |-> macro, samples |-> samples]
    /\ sector = NotLoaded
    /\ advice = Advise(case, NotLoaded)
    /\ listed = "not_screened"

AttachSector(proxy) ==
    /\ sector = NotLoaded
    /\ sector' = proxy
    /\ advice' = Advise(case, proxy)
    /\ listed' = "not_screened"
    /\ UNCHANGED case

Screen(strategy) ==
    /\ listed' = IF /\ PlatformAllowed(case, advice)
                    /\ strategy # NoStrategy => Allows(strategy, case, advice)
                 THEN "candidate" ELSE "refused"
    /\ UNCHANGED <<case, sector, advice>>

NextScreening ==
    \/ \E proxy \in Trends : AttachSector(proxy)
    \/ \E strategy \in {s \in Strategies : ValidStrategy(s)} \cup {NoStrategy} : Screen(strategy)

SpecScreening == InitScreening /\ [][NextScreening]_screeningVars

---------------------------------------------------------------------------
(* Safety *)

\* Whatever the user's strategy asks for, a candidate is never a security the
\* rules say to leave: a bearish one, one with a top structure on its monthly
\* or weekly frame, one whose holding is urgent or due for reduction; and one
\* to buy or add has a bullish market, a sector that is bullish or not loaded,
\* and no step of its decision path says stop.  Without enough months nothing
\* but waiting or holding is said (rank_strategy_candidates).
ScreenIsSafe ==
    listed = "candidate" =>
        /\ case.analysis.direction # "bearish"
        /\ case.holding => ExitPriority(case, advice) \in {"medium", "low"}
        /\ IF case.analysis.direction = "insufficient" THEN advice.action \in {"hold", "wait"}
           ELSE case.analysis.flags = {}
        /\ advice.action \in {"buy", "add"} =>
             /\ case.benchmark = "bullish" /\ sector \in {"bullish", NotLoaded}
             /\ \A step \in DOMAIN case.analysis.path : case.analysis.path[step] # "block"

=============================================================================
