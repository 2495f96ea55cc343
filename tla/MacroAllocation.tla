-------------------------- MODULE MacroAllocation --------------------------
(***************************************************************************)
(* The long-term allocation (macro/analysis.py): from the four macro       *)
(* scores to a risk appetite, to tilts of seven assets and to whole        *)
(* percentages for three investor profiles.                                *)
(*                                                                         *)
(* The program computes with floats and rounds by largest remainder; here  *)
(* everything is exact, in twentieths of a percent.  The scores come from  *)
(* the official metrics, by formulas left out; they change from release to *)
(* release.                                                                *)
(***************************************************************************)
EXTENDS Integers, Sequences, FiniteSetsExt, SequencesExt

CONSTANTS Directions, Levels, Pressures     \* values of the scores

ASSUME ScoresAssumption == Directions \cup Levels \cup Pressures \subseteq Int

VARIABLES scores, plans

allocationVars == <<scores, plans>>

Order == <<"cash", "rmb_fixed_income", "domestic_broad", "dividend_quality",
           "advanced_manufacturing", "global_equity", "gold">>
Assets == Range(Order)

Total(x) == x["cash"] + x["rmb_fixed_income"] + x["domestic_broad"] + x["dividend_quality"]
              + x["advanced_manufacturing"] + x["global_equity"] + x["gold"]

\* the value of every asset, in the order of Order
OfAssets(values) == [a \in Assets |-> values[CHOOSE i \in DOMAIN Order : Order[i] = a]]

Bases == [conservative |-> OfAssets(<<20, 50, 10, 8, 2, 3, 7>>),
          balanced     |-> OfAssets(<<10, 30, 22, 12, 8, 10, 8>>),
          growth       |-> OfAssets(<<5, 15, 30, 10, 18, 14, 8>>)]

DefensiveTilt == OfAssets(<<4, 6, -7, 2, -3, -4, 2>>)
OffensiveTilt == OfAssets(<<-3, -7, 6, -1, 4, 3, -2>>)

\* the manufacturing and the dividend sector are always overweight
SectorTilt == OfAssets(<<-1, -2, -1, 2, 2, 0, 0>>)
InflowTilt == OfAssets(<<-1, 0, 1, 0, 0, 0, 0>>)
PressureTilt == OfAssets(<<0, 0, -1, 0, 0, 0, 1>>)

Bounded(low, high, x) == Max({low, Min({high, x})})

\* round(x / 100), halves to the even neighbour
RoundedHundredth(x) ==
    LET low == x \div 100
    IN  CASE x % 100 < 50 -> low
          [] x % 100 > 50 -> low + 1
          [] OTHER        -> IF low % 2 = 0 THEN low ELSE low + 1

\* Mutation of RiskAppetite: cost pressure counts for risk.
RiskAppetitePressed(s) ==
    Bounded(0, 100, RoundedHundredth(4500 + 20 * s.direction + 30 * (s.volume - 50)
                                          + 35 * (s.speed - 50) + 20 * s.pressure))

RiskAppetite(s) ==
    Bounded(0, 100, RoundedHundredth(4500 + 20 * s.direction + 30 * (s.volume - 50)
                                          + 35 * (s.speed - 50) - 20 * s.pressure))

\* in twentieths of a percent
Deltas(s) ==
    LET appetite == RiskAppetite(s)
        defensive == Bounded(0, 20, 45 - appetite)
        offensive == Bounded(0, 20, appetite - 65)
        flow == CASE s.direction >= 35 -> 20 [] s.direction <= -35 -> -20 [] OTHER -> 0
        pressed == IF s.pressure >= 60 THEN 20 ELSE 0
    IN  [a \in Assets |-> defensive * DefensiveTilt[a] + offensive * OffensiveTilt[a]
                          + 20 * SectorTilt[a] + flow * InflowTilt[a] + pressed * PressureTilt[a]]

\* Mutation of RoundedAllocation: what the rounding down lost is not given back.
RoundedDown(raw) ==
    LET positive == [a \in Assets |-> Max({0, raw[a]})]
        total == Total(positive)
    IN  [a \in Assets |-> (100 * positive[a]) \div total]

\* down to whole percents; the lost ones go to the largest remainders, and
\* among equal ones to the asset that comes first
RoundedAllocation(raw) ==
    LET positive == [a \in Assets |-> Max({0, raw[a]})]
        total == Total(positive)
        floor == [a \in Assets |-> (100 * positive[a]) \div total]
        part == [a \in Assets |-> (100 * positive[a]) % total]
        lost == 100 - Total(floor)
        Before(i, j) == \/ part[Order[i]] > part[Order[j]]
                        \/ part[Order[i]] = part[Order[j]] /\ i < j
        rank == [j \in DOMAIN Order |-> Cardinality({i \in DOMAIN Order : Before(i, j)})]
    IN  [a \in Assets |-> floor[a] + (IF \E j \in DOMAIN Order : Order[j] = a /\ rank[j] < lost
                                      THEN 1 ELSE 0)]

Plans(s) ==
    LET deltas == Deltas(s)
    IN  [p \in DOMAIN Bases |-> RoundedAllocation([a \in Assets |-> 20 * Bases[p][a] + deltas[a]])]

EquityShare(plan) ==
    plan["domestic_broad"] + plan["dividend_quality"] + plan["advanced_manufacturing"] + plan["global_equity"]

---------------------------------------------------------------------------
InitAllocation ==
    /\ scores \in [direction : Directions, volume : Levels, speed : Levels, pressure : Pressures]
    /\ plans = Plans(scores)

\* a release changes one of the scores
Release(values, score) ==
    /\ \E v \in values \ {scores[score]} : scores' = [scores EXCEPT ![score] = v]
    /\ plans' = Plans(scores')

NextAllocation ==
    \/ Release(Directions, "direction")
    \/ Release(Levels, "volume") \/ Release(Levels, "speed")
    \/ Release(Pressures, "pressure")

SpecAllocation == InitAllocation /\ [][NextAllocation]_allocationVars

---------------------------------------------------------------------------
(* Properties *)

\* Every plan adds up to the whole, the bolder profile never holds fewer shares
\* than the more careful one, and none moves further from its strategic share
\* than the tilts allow together, whatever was clipped and rounded
\* (_rounded_allocation).
PlansAreWhole ==
    /\ \A p \in DOMAIN plans : /\ Total(plans[p]) = 100
                               /\ EquityShare(plans[p]) - EquityShare(Bases[p]) \in -11..16
    /\ EquityShare(plans["conservative"]) <= EquityShare(plans["balanced"])
    /\ EquityShare(plans["balanced"]) <= EquityShare(plans["growth"])

\* A release that improves a flow never cuts the shares of any profile, and one
\* that raises the cost pressure never adds to them: no threshold, clip or
\* rounding works against the score (analyze_macro_snapshot).
SharesFollowScores ==
    [][LET Better == /\ scores.direction <= scores'.direction /\ scores.volume <= scores'.volume
                     /\ scores.speed <= scores'.speed /\ scores.pressure >= scores'.pressure
       IN  Better => \A p \in DOMAIN plans : EquityShare(plans[p]) <= EquityShare(plans'[p])]_allocationVars
=============================================================================
