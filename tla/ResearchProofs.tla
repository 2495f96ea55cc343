--------------------------- MODULE ResearchProofs ---------------------------
(***************************************************************************)
(* Proofs about the research modules, in this order:                       *)
(*   MarketCache        for any number of fetching threads, any calendar,  *)
(*                      any ranges asked for, and any number of days,      *)
(*                      changes of basis, refusals and deaths;             *)
(*   MacroFreshness     for any number of runs, sites and days;            *)
(*   Timeframes         for any calendar and any series of bars;           *)
(*   Screening          for any states of frames, waves and markets;       *)
(*   ResearchPipeline   for both plans, any request, order and failures;   *)
(*   Backtest           for any analyzer, any prices and number of bars;   *)
(*   MacroAllocation    for any scores.                                    *)
(***************************************************************************)
EXTENDS MarketCache, MacroFreshness, Screening, ResearchPipeline, Backtest, MacroAllocation, FiniteSetTheorems, WellFoundedInduction, TLAPS

-----------------------------------------------------------------------------
(* Sets of numbers. *)

\* A set of numbers has a least element, and one that is bounded a greatest.
LEMMA MinOfNumbers ==
  ASSUME NEW S \in SUBSET Nat, S # {}
  PROVE  Min(S) \in S /\ \A y \in S : Min(S) <= y
<1>1. PICK k \in S : \A y \in S : ~(<<y, k>> \in OpToRel(<, Nat))
  BY NatLessThanWellFounded, WFMin
<1>2. \A y \in S : ~(y < k)
  BY <1>1 DEF OpToRel
<1>3. \A y \in S : k <= y
  BY <1>2
<1>4. QED
  BY <1>3 DEF Min

LEMMA MaxOfNumbers ==
  ASSUME NEW n \in Nat, NEW S \in SUBSET Nat, \A y \in S : y <= n, S # {}
  PROVE  Max(S) \in S /\ \A y \in S : y <= Max(S)
<1> DEFINE T == {k \in Nat : n - k \in S}
<1>1. PICK s \in S : TRUE
  OBVIOUS
<1>2. n - s \in T
  BY <1>1
<1>3. T \subseteq Nat /\ T # {}
  BY <1>2
<1>4. PICK k \in T : \A y \in T : ~(<<y, k>> \in OpToRel(<, Nat))
  BY <1>3, NatLessThanWellFounded, WFMin
<1>5. k \in Nat /\ n - k \in S /\ \A y \in T : ~(y < k)
  BY <1>3, <1>4 DEF OpToRel
<1>6. ASSUME NEW y \in S
      PROVE  n - k >= y
  <2>1. n - y \in Nat /\ n - (n - y) = y
    OBVIOUS
  <2>2. n - y \in T
    BY <2>1
  <2>3. ~(n - y < k) /\ k \in Nat /\ y \in Nat
    BY <1>5, <2>2
  <2>4. QED
    BY <2>3
<1>7. QED
  BY <1>6, <1>5 DEF Max

\* Induction along an interval: what holds at its beginning and of the next number
\* with every number, holds along it.
LEMMA Along ==
  ASSUME NEW lo \in Nat, NEW hi \in Nat, NEW P, lo \in P,
         \A k \in lo..hi - 1 : k \in P => k + 1 \in P
  PROVE  \A k \in lo..hi : k \in P
<1> DEFINE B == {k \in lo..hi : k \notin P}
           low == Min(B)
<1> SUFFICES ASSUME B # {}
             PROVE  FALSE
  OBVIOUS
<1>1. B \in SUBSET Nat
  OBVIOUS
<1>2. low \in B /\ \A x \in B : low <= x
  BY <1>1, MinOfNumbers
<1> HIDE DEF low
<1>3. low \in lo..hi /\ low # lo /\ low \notin P
  BY <1>2
<1>4. low - 1 \in lo..hi - 1 /\ (low - 1) + 1 = low /\ low - 1 \in lo..hi /\ ~(low <= low - 1)
  BY <1>3
<1>5. low - 1 \in P
  BY <1>2, <1>4
<1>6. QED
  BY <1>3, <1>4, <1>5

\* Of two elements the larger one has more elements up to it.
LEMMA CountsGrow ==
  ASSUME NEW S \in SUBSET Nat, IsFiniteSet(S), NEW d \in S, NEW e \in S, d < e
  PROVE  Cardinality({x \in S : x <= d}) # Cardinality({x \in S : x <= e})
<1> DEFINE Upto(x) == {y \in S : y <= x}
<1>1. \A x : IsFiniteSet(Upto(x)) /\ Cardinality(Upto(x)) \in Nat
  BY FS_Subset, FS_CardinalityType
<1>2. d \in Nat /\ e \in Nat /\ \A x \in S : x \in Nat
  OBVIOUS
<1>3. \A x \in S : x <= d => x <= e
  BY <1>2
<1>4. e <= e /\ ~(e <= d)
  BY <1>2
<1>5. Upto(d) \in SUBSET Upto(e) /\ e \in Upto(e) /\ e \notin Upto(d)
  BY <1>3, <1>4, Zenon
<1>6. Upto(d) # Upto(e)
  BY <1>5
<1>7. QED
  BY <1>1, <1>5, <1>6, FS_Subset

\* The i-th element exists: counting the elements up to each is one to one, so
\* that every count is met.
LEMMA IthIsElement ==
  ASSUME NEW S \in SUBSET Nat, IsFiniteSet(S), NEW i \in 1..Cardinality(S)
  PROVE  Ith(S, i) \in S /\ Cardinality({e \in S : e <= Ith(S, i)}) = i
<1> DEFINE n == Cardinality(S)
           Upto(d) == {e \in S : e <= d}
           rank == [d \in S |-> Cardinality(Upto(d))]
<1>1. n \in Nat
  BY FS_CardinalityType
<1>2. \A d : IsFiniteSet(Upto(d)) /\ Cardinality(Upto(d)) \in Nat /\ Cardinality(Upto(d)) <= n
  BY FS_Subset, FS_CardinalityType
<1>3. ASSUME NEW d \in S
      PROVE  rank[d] \in 1..n
  <2>1. d \in Upto(d)
    OBVIOUS
  <2>2. Cardinality(Upto(d)) # 0
    BY <1>2, <2>1, FS_EmptySet
  <2>3. QED
    BY <1>1, <1>2, <2>2
<1>4. \A d, e \in S : d < e => rank[d] # rank[e]
  BY CountsGrow
<1>5. rank \in Injection(S, 1..n)
  <2>1. rank \in [S -> 1..n]
    BY <1>3
  <2>2. \A d, e \in S : rank[d] = rank[e] => d = e
    BY <1>4
  <2>3. QED
    BY <2>1, <2>2 DEF Injection, IsInjective
<1>6. IsFiniteSet(1..n) /\ Cardinality(1..n) = n
  BY <1>1, FS_Interval
<1>7. rank \in Surjection(S, 1..n)
  BY <1>5, <1>6, FS_Injection
<1>8. PICK d \in S : rank[d] = i
  BY <1>7 DEF Surjection
<1>9. d \in S /\ Cardinality({e \in S : e <= d}) = i
  BY <1>8
<1>10. QED
  BY <1>9 DEF Ith

\* An element with i elements up to it is the i-th.
LEMMA IthIs ==
  ASSUME NEW S \in SUBSET Nat, IsFiniteSet(S), NEW d \in S
  PROVE  Ith(S, Cardinality({e \in S : e <= d})) = d
<1> DEFINE i == Cardinality({e \in S : e <= d})
           f == Ith(S, i)
<1>1. f \in S /\ Cardinality({e \in S : e <= f}) = i
  BY DEF Ith
<1> HIDE DEF f
<1>2. ~(d < f) /\ ~(f < d)
  BY <1>1, CountsGrow
<1>3. d \in Nat /\ f \in Nat
  BY <1>1
<1>4. d = f
  BY <1>2, <1>3
<1>5. QED
  BY <1>4 DEF f

-----------------------------------------------------------------------------
(* The gaps of a range. *)

Ranges == Nat \X Nat

\* A run of missing days is missing from its first day to its last: a day of the
\* range that is covered would end it before.
LEMMA RunIsMissing ==
  ASSUME NEW a \in Nat, NEW b \in Nat, NEW M \in SUBSET (a..b), NEW d \in M
  PROVE  /\ EndOf(M, d) \in M /\ d <= EndOf(M, d)
         /\ \A x \in d..EndOf(M, d) : x \in M
<1> DEFINE E == {e \in M : e >= d /\ e + 1 \notin M}
           top == Max(M)
           end == Min(E)
<1>1. M \in SUBSET Nat /\ \A y \in M : y <= b
  OBVIOUS
<1>2. top \in M /\ \A y \in M : y <= top
  BY <1>1, MaxOfNumbers
<1> HIDE DEF top
<1>3. top \in Nat /\ d \in Nat /\ top >= d /\ ~(top + 1 <= top)
  BY <1>1, <1>2
<1>4. top \in E
  BY <1>2, <1>3
<1>5. E \in SUBSET Nat /\ E # {}
  BY <1>1, <1>4
<1>6. end \in E /\ \A y \in E : end <= y
  BY <1>5, MinOfNumbers
<1> HIDE DEF end
<1>7. ASSUME NEW y \in d..end, y \notin M
      PROVE  FALSE
  <2> DEFINE B == {x \in Nat : x \in d..end /\ x \notin M}
             low == Min(B)
  <2>1. B \in SUBSET Nat /\ y \in B
    BY <1>3, <1>7
  <2>2. low \in B /\ \A x \in B : low <= x
    BY <2>1, MinOfNumbers
  <2> HIDE DEF low
  <2>3. low \in Nat /\ d < low /\ low <= end /\ low \notin M /\ end \in Nat
    BY <1>1, <1>6, <2>2
  <2>4. low - 1 \in Nat /\ low - 1 \in d..end /\ low - 1 >= d /\ ~(low <= low - 1)
    BY <1>3, <2>3
  <2>5. low - 1 \in M
    BY <2>2, <2>4
  <2>6. (low - 1) + 1 = low
    BY <2>3
  <2>7. low - 1 \in E
    BY <2>3, <2>4, <2>5, <2>6
  <2>8. end <= low - 1
    BY <1>6, <2>7
  <2>9. QED
    BY <2>3, <2>8
<1>8. EndOf(M, d) = end
  BY DEF EndOf, end
<1>9. QED
  BY <1>6, <1>7, <1>8

\* The gaps of a range lie in it and touch no covered day; where nothing is
\* covered there is one.
LEMMA GapsOfRange ==
  ASSUME NEW range \in Ranges, covered \subseteq Nat
  PROVE  LET gaps == MissingRanges(range)
         IN  /\ gaps \in Seq(Ranges)
             /\ \A i \in DOMAIN gaps :
                  /\ range[1] <= gaps[i][1] /\ gaps[i][1] <= gaps[i][2]
                  /\ gaps[i][2] <= range[2]
                  /\ DaysOf(gaps[i]) \cap covered = {}
             /\ covered = {} => Len(gaps) <= 1
<1> DEFINE M == DaysOf(range) \ covered
           S == Starts(M)
           n == Cardinality(S)
           gaps == MissingRanges(range)
<1>1. range[1] \in Nat /\ range[2] \in Nat /\ M \in SUBSET (range[1]..range[2])
  BY DEF Ranges, DaysOf
<1>2. S \in SUBSET M /\ S \in SUBSET Nat
  BY <1>1 DEF Starts
<1>3. IsFiniteSet(S) /\ n \in Nat
  <2>1. IsFiniteSet(range[1]..range[2])
    BY <1>1, FS_Interval
  <2>2. S \in SUBSET (range[1]..range[2])
    BY <1>1, <1>2
  <2>3. QED
    BY <2>1, <2>2, FS_Subset, FS_CardinalityType
<1>4. gaps = [i \in 1..n |-> <<Ith(S, i), EndOf(M, Ith(S, i))>>]
  BY DEF MissingRanges
<1> HIDE DEF M, S, n, gaps
<1>5. ASSUME NEW i \in 1..n
      PROVE  /\ gaps[i] \in Ranges
             /\ range[1] <= gaps[i][1] /\ gaps[i][1] <= gaps[i][2] /\ gaps[i][2] <= range[2]
             /\ DaysOf(gaps[i]) \cap covered = {}
  <2> DEFINE d == Ith(S, i)
             e == EndOf(M, d)
  <2>1. d \in S
    BY <1>2, <1>3, IthIsElement DEF n
  <2> HIDE DEF d
  <2>2. d \in M
    BY <1>2, <2>1
  <2>3. e \in M /\ d <= e /\ \A x \in d..e : x \in M
    BY <1>1, <2>2, RunIsMissing
  <2> HIDE DEF e
  <2>4. gaps[i] = <<d, e>>
    BY <1>4 DEF d, e
  <2>5. d \in Nat /\ e \in Nat /\ range[1] <= d /\ e <= range[2]
    BY <1>1, <2>2, <2>3
  <2>6. \A x \in d..e : x \notin covered
    BY <2>3 DEF M
  <2>7. QED
    BY <2>3, <2>4, <2>5, <2>6 DEF Ranges, DaysOf
<1>6. gaps \in Seq(Ranges) /\ Len(gaps) = n /\ DOMAIN gaps = 1..n
  <2>1. gaps \in [1..n -> Ranges]
    BY <1>4, <1>5
  <2>2. QED
    BY <1>3, <2>1
<1>7. ASSUME covered = {}
      PROVE  n <= 1
  <2>1. M = range[1]..range[2]
    BY <1>1, <1>7 DEF M, DaysOf
  <2>2. S \in SUBSET {range[1]}
    BY <1>1, <2>1 DEF S, Starts
  <2>3. IsFiniteSet({range[1]}) /\ Cardinality({range[1]}) = 1
    BY FS_Singleton, Zenon
  <2>4. Cardinality(S) <= Cardinality({range[1]})
    BY <2>2, <2>3, FS_Subset
  <2>5. QED
    BY <2>3, <2>4 DEF n
<1>8. QED
  BY <1>5, <1>6, <1>7 DEF gaps

\* The bounds of what is cached.
LEMMA BoundsOfCache ==
  ASSUME DOMAIN cached \in SUBSET (0..today), today \in Nat
  PROVE  IF DOMAIN cached = {} THEN Bounds = NoBounds
         ELSE /\ Bounds # NoBounds /\ Bounds \in Ranges
              /\ Bounds[1] \in DOMAIN cached /\ Bounds[2] \in DOMAIN cached
              /\ \A d \in DOMAIN cached : Bounds[1] <= d /\ d <= Bounds[2]
<1>1. CASE DOMAIN cached = {}
  BY <1>1 DEF Bounds
<1>2. CASE DOMAIN cached # {}
  <2> DEFINE D == DOMAIN cached
             a == Min(D)
             b == Max(D)
  <2>1. D \in SUBSET Nat /\ D # {} /\ \A y \in D : y <= today
    BY <1>2
  <2>2. a \in D /\ \A y \in D : a <= y
    BY <2>1, MinOfNumbers
  <2>3. b \in D /\ \A y \in D : y <= b
    BY <2>1, MaxOfNumbers
  <2>4. Bounds = <<a, b>>
    BY <1>2 DEF Bounds
  <2> HIDE DEF a, b
  <2>5. a \in Nat /\ b \in Nat
    BY <2>1, <2>2, <2>3
  <2>6. <<a, b>> # <<>>
    OBVIOUS
  <2>7. QED
    BY <1>2, <2>2, <2>3, <2>4, <2>5, <2>6 DEF NoBounds, Ranges
<1>3. QED
  BY <1>1, <1>2

-----------------------------------------------------------------------------
(* The invariant. *)

Stages == {"idle", "bounds", "fetch", "compare", "store", "refetch", "clear", "rebuild",
           "loaded", "cover", "result"}

IsFetch(x) ==
    x \in [at : Stages, range : Ranges, gaps : Seq(Ranges), bounds : {NoBounds} \cup Ranges,
           dataset : {x.dataset}, asked : Ranges, refused : Seq(Ranges)]

\* The gaps a fetch has found stay uncovered until it reads the bounds.
Uncovered(x) ==
    /\ \A i \in DOMAIN x.gaps :
         x.gaps[i][1] <= x.gaps[i][2] /\ DaysOf(x.gaps[i]) \cap covered = {}
    /\ covered = {} => Len(x.gaps) = 1

\* The bounds a fetch has read may be behind the cache, but they are still cached.
Framed(x) ==
    IF x.bounds = NoBounds THEN DOMAIN cached = {}
    ELSE /\ x.bounds[1] \in DOMAIN cached /\ x.bounds[2] \in DOMAIN cached
         /\ x.bounds[1] <= x.bounds[2]

\* A gap is before the bounds, after them, or has no bars.
Placed(x) ==
    IF x.bounds = NoBounds THEN Len(x.gaps) = 1
    ELSE \A i \in DOMAIN x.gaps :
           /\ x.gaps[i][1] <= x.gaps[i][2]
           /\ \/ x.bounds[2] < x.gaps[i][1]
              \/ x.gaps[i][2] < x.bounds[1]
              \/ DaysOf(x.gaps[i]) \cap TradingDay = {}

\* What a fetch holds in hand is everything the vendor had, on one basis, on a
\* day not before the last bar of the cache.
Answer(x) ==
    /\ DOMAIN x.dataset # {}
    /\ \E day, b \in Nat :
         /\ day <= today
         /\ x.dataset = [d \in {d \in DaysOf(x.asked) \cap TradingDay : d <= day} |-> b]
         /\ \A d \in DOMAIN cached : d <= day

\* It reaches the cached bars,
Reaches(x) ==
    /\ x.asked[1] <= x.asked[2]
    /\ x.bounds # NoBounds => x.asked[1] = x.bounds[2] \/ x.asked[2] = x.bounds[1]

\* and was found to agree with them.
Agrees(x) ==
    x.bounds # NoBounds =>
        \E d \in DOMAIN cached : d \in DOMAIN x.dataset /\ cached[d] = x.dataset[d]

Fits(x) ==
    /\ IsFetch(x)
    /\ x.at \in {"bounds", "fetch", "compare", "store"} => x.gaps # <<>>
    /\ x.at = "bounds" => Uncovered(x)
    /\ x.at \in {"fetch", "compare", "store"} => Placed(x)
    /\ x.at \in {"fetch", "compare", "store", "refetch"} => Framed(x)
    /\ x.at \in {"compare", "store", "clear", "rebuild"} => Answer(x)
    /\ x.at \in {"compare", "store"} => Reaches(x)
    /\ x.at = "store" => Agrees(x)
    /\ x.at = "refetch" => x.bounds # NoBounds
    /\ x.at = "rebuild" => DOMAIN cached = {} /\ covered = {}
    /\ x.at = "cover" => x.refused # <<>> /\ DOMAIN cached # {}

Orderly ==
    /\ today \in Nat /\ basis \in Nat
    /\ covered \subseteq Nat
    /\ DOMAIN cached \in SUBSET (0..today)
    /\ DOMAIN cached \subseteq TradingDay

Whole ==
    /\ \A d, e \in DOMAIN cached : cached[d] = cached[e]
    /\ \A d, e \in DOMAIN cached, x \in TradingDay : d <= x /\ x <= e => x \in DOMAIN cached
    /\ DOMAIN cached \subseteq covered
    /\ DOMAIN cached = {} => covered = {}

\* Nobody else is fetching.
Alone(f) == \A g \in Fetcher : g # f => fetch[g].at = "idle"

Sound ==
    /\ Orderly /\ Whole
    /\ fetch = [f \in Fetcher |-> fetch[f]]
    /\ \A f \in Fetcher : Fits(fetch[f])
    /\ \A f \in Fetcher : fetch[f].at # "idle" => Alone(f)

SeriesInv == ~overlapped => Sound

-----------------------------------------------------------------------------
(* The steps of a fetch. *)

LEMMA IdleFits == Fits(Idle)
BY DEF Fits, IsFetch, Idle, Stages, Ranges, NoBounds

\* A step of the one fetch there is.
LEMMA FetchMoves ==
  ASSUME Sound, NEW f \in Fetcher, NEW x, Become(f, x), Alone(f),
         Orderly', Whole', Fits(fetch[f])'
  PROVE  Sound'
<1>1. fetch' = [g \in Fetcher |-> fetch'[g]] /\ \A g \in Fetcher : g # f => fetch'[g] = fetch[g]
  BY DEF Sound, Become
<1>2. ASSUME NEW g \in Fetcher, g # f
      PROVE  fetch'[g].at = "idle" /\ Fits(fetch[g])'
  <2>1. fetch'[g] = fetch[g] /\ fetch[g].at = "idle" /\ IsFetch(fetch[g])
    BY <1>1, <1>2 DEF Alone, Sound, Fits
  <2>2. QED
    BY <2>1 DEF Fits, IsFetch
<1>3. Alone(f)'
  BY <1>2 DEF Alone
<1>4. QED
  BY <1>1, <1>2, <1>3 DEF Sound

\* Nothing of the cache changes.
LEMMA CacheKept ==
  ASSUME Orderly, Whole, UNCHANGED <<cached, covered, basis, today>>
  PROVE  Orderly' /\ Whole'
BY DEF Orderly, Whole

\* A step that touches the fetch alone.
LEMMA QuietMove ==
  ASSUME Sound, NEW f \in Fetcher, NEW x, Become(f, x), Alone(f),
         UNCHANGED <<cached, covered, basis, today>>, Fits(x)
  PROVE  Sound'
<1>1. fetch'[f] = x
  BY DEF Sound, Become
<1>2. Fits(fetch[f])'
  BY <1>1 DEF Fits, IsFetch, Uncovered, Framed, Placed, Answer, Reaches, Agrees
<1>3. Orderly' /\ Whole'
  BY CacheKept DEF Sound
<1>4. QED
  BY <1>2, <1>3, FetchMoves

LEMMA RequestSound ==
  ASSUME Sound, ~overlapped', NEW f \in Fetcher, NEW range \in Requests, Request(f, range)
  PROVE  Sound'
<1> DEFINE gaps == MissingRanges(range)
           at == IF gaps = <<>> THEN "result" ELSE "bounds"
           x == [Idle EXCEPT !.at = at, !.range = range, !.gaps = gaps]
<1>1. Alone(f)
  BY DEF Request, Alone
<1>2. range \in Ranges /\ covered \subseteq Nat
  BY CacheAssumption DEF Sound, Orderly, Ranges
<1>3. /\ gaps \in Seq(Ranges)
      /\ \A i \in DOMAIN gaps : gaps[i][1] <= gaps[i][2] /\ DaysOf(gaps[i]) \cap covered = {}
      /\ covered = {} => Len(gaps) <= 1
  BY <1>2, GapsOfRange
<1> HIDE DEF gaps
<1>4. at \in Stages
  BY DEF Stages
<1> HIDE DEF at
<1>5. IsFetch(Idle)
  BY IdleFits DEF Fits
<1>6. x.at = at /\ x.gaps = gaps /\ IsFetch(x)
  BY <1>2, <1>3, <1>4, <1>5 DEF IsFetch
<1>7. gaps # <<>> /\ covered = {} => Len(gaps) = 1
  <2>1. gaps # <<>> => Len(gaps) # 0
    BY <1>3
  <2>2. Len(gaps) \in Nat
    BY <1>3
  <2>3. covered = {} => Len(gaps) <= 1
    BY <1>3
  <2> HIDE DEF at
  <2>4. QED
    BY <2>1, <2>2, <2>3
<1> HIDE DEF x
<1>8. Fits(x)
  <2>1. CASE gaps = <<>>
    BY <1>6, <2>1 DEF Fits, at
  <2>2. CASE gaps # <<>>
    <3>1. covered = {} => Len(gaps) = 1
      BY <1>7, <2>2
    <3>2. Uncovered(x)
      BY <1>3, <1>6, <3>1 DEF Uncovered
    <3>3. QED
      BY <1>6, <2>2, <3>2 DEF Fits, at
  <2>3. QED
    BY <2>1, <2>2
<1>9. Become(f, x) /\ UNCHANGED <<cached, covered, basis, today>>
  BY DEF Request, gaps, at, x
<1>10. QED
  BY <1>1, <1>8, <1>9, QuietMove

LEMMA ReadBoundsSound ==
  ASSUME Sound, NEW f \in Fetcher, ReadBounds(f)
  PROVE  Sound'
<1> DEFINE s == fetch[f]
           x == [s EXCEPT !.at = "fetch", !.bounds = Bounds]
<1>1. Alone(f) /\ Fits(s) /\ s.at = "bounds"
  BY DEF Sound, ReadBounds
<1>2. IsFetch(s) /\ s.gaps # <<>> /\ Uncovered(s)
  BY <1>1 DEF Fits
<1> HIDE DEF s
<1>3. DOMAIN cached \in SUBSET (0..today) /\ today \in Nat
  BY DEF Sound, Orderly
<1>4. IF DOMAIN cached = {} THEN Bounds = NoBounds
      ELSE /\ Bounds # NoBounds /\ Bounds \in Ranges
           /\ Bounds[1] \in DOMAIN cached /\ Bounds[2] \in DOMAIN cached
           /\ \A d \in DOMAIN cached : Bounds[1] <= d /\ d <= Bounds[2]
  BY <1>3, BoundsOfCache
<1>5. /\ x.at = "fetch" /\ x.bounds = Bounds /\ x.gaps = s.gaps /\ IsFetch(x)
  BY <1>2, <1>4 DEF IsFetch, Stages
<1> HIDE DEF x
<1>6. Framed(x)
  BY <1>4, <1>5 DEF Framed
<1>7. Placed(x)
  <2>1. CASE DOMAIN cached = {}
    <3>1. covered = {}
      BY <2>1 DEF Sound, Whole
    <3>2. QED
      BY <1>2, <1>4, <1>5, <2>1, <3>1 DEF Placed, Uncovered
  <2>2. CASE DOMAIN cached # {}
    <3> DEFINE a == Bounds[1]
               b == Bounds[2]
    <3>1. /\ a \in DOMAIN cached /\ b \in DOMAIN cached /\ a \in covered /\ b \in covered
          /\ a \in Nat /\ b \in Nat
      BY <1>3, <1>4, <2>2 DEF Sound, Whole
    <3>2. ASSUME NEW i \in DOMAIN x.gaps
          PROVE  /\ x.gaps[i][1] <= x.gaps[i][2]
                 /\ \/ b < x.gaps[i][1]
                    \/ x.gaps[i][2] < a
                    \/ DaysOf(x.gaps[i]) \cap TradingDay = {}
      <4> DEFINE p == s.gaps[i][1]
                 q == s.gaps[i][2]
      <4>1. p \in Nat /\ q \in Nat
        <5>1. s.gaps \in Seq(Ranges) /\ i \in DOMAIN s.gaps
          BY <1>2, <1>5 DEF IsFetch
        <5>2. s.gaps[i] \in Ranges
          BY <5>1
        <5>3. QED
          BY <5>2 DEF Ranges
      <4>2. p <= q /\ \A d \in p..q : d \notin covered
        <5>1. p <= q
          BY <1>2, <1>5 DEF Uncovered
        <5>2. \A d \in DaysOf(s.gaps[i]) : d \notin covered
          BY <1>2, <1>5 DEF Uncovered
        <5>3. QED
          BY <5>1, <5>2 DEF DaysOf
      <4> HIDE DEF p, q, a, b
      <4>3. ASSUME ~(b < p), ~(q < a), NEW d \in TradingDay, d \in p..q
            PROVE  FALSE
        <5>1. a \notin p..q /\ b \notin p..q
          BY <3>1, <4>2
        <5>2. a < p /\ q < b
          BY <3>1, <4>1, <4>2, <4>3, <5>1
        <5>3. a <= d /\ d <= b
          BY <3>1, <4>1, <4>3, <5>2
        <5>4. d \in DOMAIN cached
          BY <3>1, <5>3 DEF Sound, Whole
        <5>5. QED
          BY <4>2, <4>3, <5>4 DEF Sound, Whole
      <4>4. QED
        BY <1>5, <4>2, <4>3 DEF p, q, DaysOf
    <3>3. QED
      BY <1>4, <1>5, <2>2, <3>2 DEF Placed
  <2>3. QED
    BY <2>1, <2>2
<1>8. Fits(x)
  BY <1>2, <1>5, <1>6, <1>7 DEF Fits
<1>9. Become(f, x) /\ UNCHANGED <<cached, covered, basis, today>>
  BY DEF ReadBounds, s, x
<1>10. QED
  BY <1>1, <1>8, <1>9, QuietMove


\* A range asked for that has bars reaches the cached ones, where there are any.
LEMMA AnsweredSound ==
  ASSUME Sound, NEW f \in Fetcher, Answered(f)
  PROVE  Sound'
<1> DEFINE s == fetch[f]
           gap == Head(s.gaps)
           asked == GapRequest(f)
           x == [s EXCEPT !.at = "compare", !.asked = asked, !.dataset = Bars(asked)]
<1>1. Alone(f) /\ Fits(s) /\ s.at = "fetch" /\ DOMAIN Bars(asked) # {}
  BY DEF Sound, Answered
<1>2. IsFetch(s) /\ s.gaps # <<>> /\ Placed(s) /\ Framed(s)
  BY <1>1 DEF Fits
<1>3. /\ gap = s.gaps[1] /\ 1 \in DOMAIN s.gaps /\ gap \in Ranges
      /\ gap[1] \in Nat /\ gap[2] \in Nat
  BY <1>2 DEF IsFetch, Ranges
<1>4. Orderly /\ Whole
  BY DEF Sound
<1>5. asked = CASE s.bounds # NoBounds /\ gap[1] > s.bounds[2] -> <<s.bounds[2], gap[2]>>
                [] s.bounds # NoBounds /\ gap[1] <= s.bounds[2] /\ gap[2] < s.bounds[1]
                     -> <<gap[1], s.bounds[1]>>
                [] OTHER -> gap
  BY DEF GapRequest
<1>6. /\ Become(f, x) /\ UNCHANGED <<cached, covered, basis, today>>
      /\ asked[1] < asked[2]
  BY DEF Answered
<1> HIDE DEF s, gap, asked
<1>7. /\ asked \in Ranges /\ asked[1] <= asked[2]
      /\ s.bounds # NoBounds => asked[1] = s.bounds[2] \/ asked[2] = s.bounds[1]
  <2>1. CASE s.bounds = NoBounds
    <3>1. asked = gap
      BY <1>5, <2>1
    <3>2. QED
      BY <1>3, <1>6, <2>1, <3>1 DEF Ranges
  <2>2. CASE s.bounds # NoBounds
    <3>1. s.bounds[1] \in Nat /\ s.bounds[2] \in Nat /\ s.bounds[1] <= s.bounds[2]
      BY <1>2, <2>2 DEF IsFetch, Ranges, Framed
    <3>2. /\ gap[1] <= gap[2]
          /\ \/ s.bounds[2] < gap[1]
             \/ gap[2] < s.bounds[1]
             \/ DaysOf(gap) \cap TradingDay = {}
      BY <1>2, <1>3, <2>2 DEF Placed
    <3>3. CASE gap[1] > s.bounds[2]
      <4>1. asked = <<s.bounds[2], gap[2]>>
        BY <1>3, <1>5, <2>2, <3>1, <3>3
      <4>2. QED
        BY <1>3, <3>1, <3>2, <3>3, <4>1 DEF Ranges
    <3>4. CASE gap[1] <= s.bounds[2] /\ gap[2] < s.bounds[1]
      <4>1. ~(gap[1] > s.bounds[2])
        BY <1>3, <3>1, <3>4
      <4>2. asked = <<gap[1], s.bounds[1]>>
        BY <1>5, <2>2, <3>4, <4>1
      <4>3. QED
        BY <1>3, <3>1, <3>2, <3>4, <4>2 DEF Ranges
    <3>5. CASE ~(gap[1] > s.bounds[2]) /\ ~(gap[1] <= s.bounds[2] /\ gap[2] < s.bounds[1])
      <4>1. asked = gap
        BY <1>5, <3>5
      <4>2. ~(s.bounds[2] < gap[1]) /\ ~(gap[2] < s.bounds[1])
        BY <1>3, <3>1, <3>5
      <4>3. DOMAIN Bars(asked) = {}
        BY <3>2, <4>1, <4>2 DEF Bars
      <4>4. QED
        BY <1>1, <4>3 DEF s, asked
    <3>6. QED
      BY <3>3, <3>4, <3>5
  <2>3. QED
    BY <2>1, <2>2
<1>8. /\ x.at = "compare" /\ x.asked = asked /\ x.dataset = Bars(asked)
      /\ x.gaps = s.gaps /\ x.bounds = s.bounds /\ IsFetch(x)
  BY <1>2, <1>7 DEF IsFetch, Stages
<1> HIDE DEF x
<1>9. Placed(x) /\ Framed(x) /\ Reaches(x)
  BY <1>2, <1>7, <1>8 DEF Placed, Framed, Reaches
<1>10. Answer(x)
  <2>1. DOMAIN Bars(asked) # {}
    BY <1>1 DEF s, asked
  <2>2. /\ today \in Nat /\ basis \in Nat /\ today <= today
        /\ \A d \in DOMAIN cached : d <= today
    BY <1>4 DEF Orderly
  <2>3. x.dataset = [d \in {d \in DaysOf(x.asked) \cap TradingDay : d <= today} |-> basis]
    BY <1>8 DEF Bars
  <2>4. QED
    BY <1>8, <2>1, <2>2, <2>3 DEF Answer
<1>11. Fits(x)
  BY <1>2, <1>8, <1>9, <1>10 DEF Fits
<1>12. QED
  BY <1>1, <1>6, <1>11, QuietMove DEF x

\* The gaps that are left stay where they were.
LEMMA TailOfGaps ==
  ASSUME NEW gaps \in Seq(Ranges), gaps # <<>>
  PROVE  /\ Head(gaps) \in Ranges /\ Tail(gaps) \in Seq(Ranges)
         /\ Len(gaps) > 1 => Tail(gaps) # <<>>
         /\ \A i \in DOMAIN Tail(gaps) : i + 1 \in DOMAIN gaps /\ Tail(gaps)[i] = gaps[i + 1]
<1>1. Len(gaps) \in Nat /\ Len(gaps) # 0 /\ DOMAIN gaps = 1..Len(gaps)
  OBVIOUS
<1>2. Tail(gaps) \in Seq(Ranges) /\ Head(gaps) \in Ranges
  OBVIOUS
<1>3. Len(Tail(gaps)) = Len(gaps) - 1 /\ DOMAIN Tail(gaps) = 1..(Len(gaps) - 1)
  OBVIOUS
<1>4. \A i \in 1..(Len(gaps) - 1) : Tail(gaps)[i] = gaps[i + 1]
  OBVIOUS
<1>5. ASSUME Len(gaps) > 1
      PROVE  Tail(gaps) # <<>>
  <2>1. Len(Tail(gaps)) # 0
    BY <1>1, <1>3, <1>5
  <2>2. Len(<<>>) = 0
    OBVIOUS
  <2>3. QED
    BY <2>1, <2>2, Zenon
<1>6. QED
  BY <1>1, <1>2, <1>3, <1>4, <1>5

\* Without bounds, a range has one gap.
LEMMA SeveralGaps ==
  ASSUME NEW s, s.gaps \in Seq(Ranges), Placed(s), Len(s.gaps) > 1
  PROVE  s.bounds # NoBounds
<1>1. s.bounds = NoBounds => Len(s.gaps) = 1
  BY DEF Placed
<1>2. Len(s.gaps) \in Nat
  OBVIOUS
<1>3. \A n \in Nat : n > 1 => n # 1
  OBVIOUS
<1>4. Len(s.gaps) # 1
  BY <1>2, <1>3
<1>5. QED
  BY <1>1, <1>4

LEMMA RefusedSound ==
  ASSUME Sound, NEW f \in Fetcher, Refused(f)
  PROVE  Sound'
<1> DEFINE s == fetch[f]
           at == NextGap(f)
           x == [s EXCEPT !.at = at, !.gaps = Tail(@), !.refused = Append(@, Head(s.gaps))]
<1>1. Alone(f) /\ Fits(s) /\ s.at = "fetch"
  BY DEF Sound, Refused
<1>2. IsFetch(s) /\ s.gaps # <<>> /\ Placed(s) /\ Framed(s) /\ s.gaps \in Seq(Ranges)
  BY <1>1 DEF Fits, IsFetch
<1>3. at = IF Len(s.gaps) > 1 THEN "fetch" ELSE "loaded"
  BY DEF NextGap
<1>4. Become(f, x) /\ UNCHANGED <<cached, covered, basis, today>>
  BY DEF Refused
<1> HIDE DEF s, at
<1>5. /\ Head(s.gaps) \in Ranges /\ Tail(s.gaps) \in Seq(Ranges)
      /\ Len(s.gaps) > 1 => Tail(s.gaps) # <<>>
      /\ \A i \in DOMAIN Tail(s.gaps) :
           i + 1 \in DOMAIN s.gaps /\ Tail(s.gaps)[i] = s.gaps[i + 1]
  BY <1>2, TailOfGaps
<1>6. Append(s.refused, Head(s.gaps)) \in Seq(Ranges)
  BY <1>2, <1>5 DEF IsFetch
<1>7. at \in Stages
  BY <1>3 DEF Stages
<1>8. x.at = at /\ x.gaps = Tail(s.gaps) /\ x.bounds = s.bounds /\ IsFetch(x)
  BY <1>2, <1>5, <1>6, <1>7 DEF IsFetch
<1> HIDE DEF x
<1>9. Framed(x)
  BY <1>2, <1>8 DEF Framed
<1>10. CASE Len(s.gaps) > 1
  <2>1. s.bounds # NoBounds
    BY <1>2, <1>10, SeveralGaps
  <2>2. Placed(x)
    BY <1>2, <1>5, <1>8, <2>1 DEF Placed
  <2>3. x.at = "fetch" /\ x.gaps # <<>>
    BY <1>3, <1>5, <1>8, <1>10
  <2>4. Fits(x)
    BY <1>8, <1>9, <2>2, <2>3 DEF Fits
  <2>5. QED
    BY <1>1, <1>4, <2>4, QuietMove DEF x
<1>11. CASE ~(Len(s.gaps) > 1)
  <2>1. Fits(x)
    BY <1>3, <1>8, <1>11 DEF Fits
  <2>2. QED
    BY <1>1, <1>4, <2>1, QuietMove DEF x
<1>12. QED
  BY <1>10, <1>11

LEMMA BrokenSound ==
  ASSUME Sound, NEW f \in Fetcher, Broken(f)
  PROVE  Sound'
BY IdleFits, QuietMove DEF Sound, Broken

LEMMA ResultSound ==
  ASSUME Sound, NEW f \in Fetcher, Result(f)
  PROVE  Sound'
BY IdleFits, QuietMove DEF Sound, Result


\* Without a bar that differs where answer and cache meet, the two agree.
LEMMA CompareSound ==
  ASSUME Sound, NEW f \in Fetcher, Compare(f)
  PROVE  Sound'
<1> DEFINE s == fetch[f]
           at == IF Rebased(f) THEN "refetch" ELSE "store"
           x == [s EXCEPT !.at = at]
<1>1. Alone(f) /\ Fits(s) /\ s.at = "compare"
  BY DEF Sound, Compare
<1>2. /\ IsFetch(s) /\ s.gaps # <<>>
      /\ Placed(s) /\ Framed(s) /\ Answer(s) /\ Reaches(s)
  BY <1>1 DEF Fits
<1>3. Become(f, x) /\ UNCHANGED <<cached, covered, basis, today>>
  BY DEF Compare
<1>4. OverlapDays(f) =
        CASE s.bounds # NoBounds /\ s.asked[1] = s.bounds[2] -> {s.bounds[2]}
          [] s.bounds # NoBounds /\ s.asked[1] # s.bounds[2] /\ s.asked[2] = s.bounds[1]
               -> {s.bounds[1]}
          [] OTHER -> {}
  BY DEF OverlapDays
<1>5. Rebased(f) <=> \E d \in OverlapDays(f) \cap DOMAIN cached \cap DOMAIN s.dataset :
                        cached[d] # s.dataset[d]
  BY DEF Rebased
<1> HIDE DEF s
<1>6. at \in Stages
  BY DEF Stages
<1>7. Rebased(f) => s.bounds # NoBounds
  <2>1. s.bounds = NoBounds => OverlapDays(f) = {}
    BY <1>4
  <2>2. QED
    BY <1>5, <2>1
<1>8. ASSUME s.bounds # NoBounds, ~Rebased(f)
      PROVE  \E d \in DOMAIN cached : d \in DOMAIN s.dataset /\ cached[d] = s.dataset[d]
  <2>1. /\ s.bounds[1] \in Nat /\ s.bounds[2] \in Nat /\ s.asked[1] \in Nat /\ s.asked[2] \in Nat
        /\ s.bounds[1] \in DOMAIN cached /\ s.bounds[2] \in DOMAIN cached
        /\ s.asked[1] <= s.asked[2]
    BY <1>2, <1>8 DEF IsFetch, Ranges, Framed, Reaches
  <2>2. PICK c \in DOMAIN cached :
          OverlapDays(f) = {c} /\ s.asked[1] <= c /\ c <= s.asked[2]
    <3>1. CASE s.asked[1] = s.bounds[2]
      <4>1. OverlapDays(f) = {s.bounds[2]}
        BY <1>4, <1>8, <3>1
      <4>2. QED
        BY <2>1, <3>1, <4>1
    <3>2. CASE s.asked[1] # s.bounds[2]
      <4>1. s.asked[2] = s.bounds[1]
        BY <1>2, <1>8, <3>2 DEF Reaches
      <4>2. OverlapDays(f) = {s.bounds[1]}
        BY <1>4, <1>8, <3>2, <4>1
      <4>3. QED
        BY <2>1, <4>1, <4>2
    <3>3. QED
      BY <3>1, <3>2
  <2>3. PICK day, b \in Nat :
          /\ day <= today
          /\ s.dataset = [d \in {d \in DaysOf(s.asked) \cap TradingDay : d <= day} |-> b]
          /\ \A d \in DOMAIN cached : d <= day
    BY <1>2 DEF Answer
  <2>4. c \in TradingDay /\ c \in Nat
    BY CacheAssumption DEF Sound, Orderly
  <2>5. c \in DaysOf(s.asked)
    BY <2>1, <2>2, <2>4 DEF DaysOf
  <2>6. c \in DOMAIN s.dataset
    BY <2>3, <2>4, <2>5
  <2>7. QED
    BY <1>5, <1>8, <2>2, <2>6
<1> HIDE DEF at
<1>9. /\ x.at = at /\ x.gaps = s.gaps /\ x.bounds = s.bounds /\ x.asked = s.asked
      /\ x.dataset = s.dataset /\ IsFetch(x)
  BY <1>2, <1>6 DEF IsFetch
<1> HIDE DEF x
<1>10. Placed(x) /\ Framed(x) /\ Answer(x) /\ Reaches(x)
  BY <1>2, <1>9 DEF Placed, Framed, Answer, Reaches
<1>11. CASE Rebased(f)
  <2>1. x.at = "refetch" /\ x.bounds # NoBounds
    BY <1>7, <1>9, <1>11 DEF at
  <2>2. Fits(x)
    BY <1>9, <1>10, <2>1 DEF Fits
  <2>3. QED
    BY <1>1, <1>3, <2>2, QuietMove DEF x, at, s
<1>12. CASE ~Rebased(f)
  <2>1. x.at = "store"
    BY <1>9, <1>12 DEF at
  <2>2. Agrees(x)
    BY <1>8, <1>9, <1>12 DEF Agrees
  <2>3. Fits(x)
    BY <1>2, <1>9, <1>10, <2>1, <2>2 DEF Fits
  <2>4. QED
    BY <1>1, <1>3, <2>3, QuietMove DEF x, at, s
<1>13. QED
  BY <1>11, <1>12

\* An answer that shares a bar with the cache extends it to one series.
LEMMA StoredIsWhole ==
  ASSUME Orderly, Whole, NEW x, IsFetch(x), Answer(x), StoreDataset(x.dataset, x.asked),
         \/ DOMAIN cached = {}
         \/ \E d \in DOMAIN cached : d \in DOMAIN x.dataset /\ cached[d] = x.dataset[d],
         UNCHANGED <<basis, today>>
  PROVE  Orderly' /\ Whole' /\ DOMAIN cached \subseteq DOMAIN cached' /\ DOMAIN cached' # {}
<1> DEFINE got == DOMAIN x.dataset
           old == DOMAIN cached
<1>1. PICK day, b \in Nat :
        /\ day <= today
        /\ x.dataset = [d \in {d \in DaysOf(x.asked) \cap TradingDay : d <= day} |-> b]
        /\ \A d \in old : d <= day
  BY DEF Answer
<1>2. /\ got = {d \in DaysOf(x.asked) \cap TradingDay : d <= day} /\ got # {}
      /\ \A d \in got : x.dataset[d] = b
  BY <1>1 DEF Answer
<1>3. /\ cached' = [d \in got \cup old |-> IF d \in got THEN x.dataset[d] ELSE cached[d]]
      /\ covered' = covered \cup DaysOf(x.asked)
  BY DEF StoreDataset
<1>4. x.asked[1] \in Nat /\ x.asked[2] \in Nat /\ DaysOf(x.asked) = x.asked[1]..x.asked[2]
  BY DEF IsFetch, Ranges, DaysOf
<1>5. /\ today \in Nat /\ old \in SUBSET (0..today) /\ old \subseteq TradingDay
      /\ covered \subseteq Nat /\ TradingDay \subseteq Nat /\ basis \in Nat
  BY CacheAssumption DEF Orderly
<1>6. /\ \A d \in old : \A e \in old : cached[d] = cached[e]
      /\ \A d \in old : \A e \in old : \A y \in TradingDay : d <= y /\ y <= e => y \in old
      /\ old \subseteq covered
  BY DEF Whole
<1>7. DOMAIN cached' = got \cup old
  BY <1>3
<1>8. old # {} => \E c \in old : c \in got /\ cached[c] = x.dataset[c]
  OBVIOUS
<1> HIDE DEF got, old
<1>9. \A d \in old : cached[d] = b
  BY <1>2, <1>6, <1>8
<1>10. \A d \in DOMAIN cached' : cached'[d] = b
  BY <1>2, <1>3, <1>7, <1>9
<1>11. ASSUME NEW d \in got \cup old, NEW e \in got \cup old, NEW y \in TradingDay,
              d <= y, y <= e
       PROVE  y \in got \cup old
  <2>1. d \in Nat /\ e \in Nat /\ y \in Nat /\ d <= day /\ e <= day
    BY <1>1, <1>2, <1>5
  <2>2. \A z \in got : x.asked[1] <= z /\ z <= x.asked[2]
    BY <1>2, <1>4
  <2>3. x.asked[1] <= y /\ y <= x.asked[2] => y \in got
    BY <1>1, <1>2, <1>4, <1>11, <2>1
  <2>4. CASE d \in got /\ e \in got
    BY <1>4, <1>11, <2>1, <2>2, <2>3, <2>4
  <2>5. CASE d \in old /\ e \in old
    BY <1>6, <1>11, <2>5
  <2>6. CASE d \in got /\ e \in old
    <3>1. PICK c \in old : c \in got
      BY <1>8, <2>6
    <3>2. c \in Nat /\ x.asked[1] <= d /\ c <= x.asked[2]
      BY <1>5, <2>2, <2>6, <3>1
    <3>3. y <= c \/ c <= y
      BY <2>1, <3>2
    <3>4. QED
      BY <1>4, <1>6, <1>11, <2>1, <2>3, <2>6, <3>1, <3>2, <3>3
  <2>7. CASE d \in old /\ e \in got
    <3>1. PICK c \in old : c \in got
      BY <1>8, <2>7
    <3>2. c \in Nat /\ x.asked[1] <= c /\ e <= x.asked[2]
      BY <1>5, <2>2, <2>7, <3>1
    <3>3. y <= c \/ c <= y
      BY <2>1, <3>2
    <3>4. QED
      BY <1>4, <1>6, <1>11, <2>1, <2>3, <2>7, <3>1, <3>2, <3>3
  <2>8. QED
    BY <2>4, <2>5, <2>6, <2>7
<1>12. Orderly'
  <2>1. got \in SUBSET (0..today) /\ got \subseteq TradingDay /\ got \subseteq DaysOf(x.asked)
    BY <1>1, <1>2, <1>4, <1>5
  <2>2. covered' \subseteq Nat
    <3>1. DaysOf(x.asked) \subseteq Nat
      BY <1>4
    <3>2. QED
      BY <1>3, <1>5, <3>1
  <2>3. QED
    BY <1>5, <1>7, <2>1, <2>2 DEF Orderly
<1>13. Whole'
  <2>1. got \cup old \subseteq covered' /\ got \cup old # {}
    BY <1>2, <1>3, <1>6
  <2>2. \A d, e \in DOMAIN cached' : cached'[d] = cached'[e]
    BY <1>10
  <2>3. QED
    BY <1>7, <1>11, <2>1, <2>2 DEF Whole
<1>14. QED
  BY <1>2, <1>7, <1>12, <1>13 DEF old

LEMMA StoreSound ==
  ASSUME Sound, NEW f \in Fetcher, Store(f)
  PROVE  Sound'
<1> DEFINE s == fetch[f]
           at == NextGap(f)
           x == [s EXCEPT !.at = at, !.gaps = Tail(@), !.dataset = NoBars]
<1>1. Alone(f) /\ Fits(s) /\ s.at = "store" /\ Orderly /\ Whole
  BY DEF Sound, Store
<1>2. /\ IsFetch(s) /\ s.gaps # <<>> /\ s.gaps \in Seq(Ranges)
      /\ Placed(s) /\ Framed(s) /\ Answer(s) /\ Agrees(s)
  BY <1>1 DEF Fits, IsFetch
<1>3. at = IF Len(s.gaps) > 1 THEN "fetch" ELSE "loaded"
  BY DEF NextGap
<1>4. Become(f, x) /\ UNCHANGED <<basis, today>> /\ StoreDataset(s.dataset, s.asked)
  BY DEF Store
<1>5. fetch'[f] = x
  BY <1>4 DEF Sound, Become
<1> HIDE DEF s, at
<1>6. \/ DOMAIN cached = {}
      \/ \E d \in DOMAIN cached : d \in DOMAIN s.dataset /\ cached[d] = s.dataset[d]
  BY <1>2 DEF Framed, Agrees
<1>7. Orderly' /\ Whole' /\ DOMAIN cached \subseteq DOMAIN cached'
  BY <1>1, <1>2, <1>4, <1>6, StoredIsWhole
<1>8. /\ Head(s.gaps) \in Ranges /\ Tail(s.gaps) \in Seq(Ranges)
      /\ Len(s.gaps) > 1 => Tail(s.gaps) # <<>>
      /\ \A i \in DOMAIN Tail(s.gaps) :
           i + 1 \in DOMAIN s.gaps /\ Tail(s.gaps)[i] = s.gaps[i + 1]
  BY <1>2, TailOfGaps
<1>9. at \in Stages
  BY <1>3 DEF Stages
<1>10. x.at = at /\ x.gaps = Tail(s.gaps) /\ x.bounds = s.bounds /\ IsFetch(x)
  BY <1>2, <1>8, <1>9 DEF IsFetch
<1> HIDE DEF x
<1>11. CASE Len(s.gaps) > 1
  <2>1. s.bounds # NoBounds
    BY <1>2, <1>11, SeveralGaps
  <2>2. Placed(x)
    BY <1>2, <1>8, <1>10, <2>1 DEF Placed
  <2>3. Framed(fetch[f])'
    BY <1>2, <1>5, <1>7, <1>10, <2>1 DEF Framed
  <2>4. Fits(fetch[f])'
    BY <1>3, <1>5, <1>8, <1>10, <1>11, <2>2, <2>3 DEF Fits, IsFetch, Placed
  <2>5. QED
    BY <1>1, <1>4, <1>7, <2>4, FetchMoves
<1>12. CASE ~(Len(s.gaps) > 1)
  <2>1. Fits(fetch[f])'
    BY <1>3, <1>5, <1>10, <1>12 DEF Fits, IsFetch
  <2>2. QED
    BY <1>1, <1>4, <1>7, <2>1, FetchMoves
<1>13. QED
  BY <1>11, <1>12

\* The refetch asks for everything that is cached, so that it has bars.
LEMMA RefetchSound ==
  ASSUME Sound, NEW f \in Fetcher, Refetch(f)
  PROVE  Sound'
<1> DEFINE s == fetch[f]
           all == FullRange(f)
           x == [s EXCEPT !.at = "clear", !.asked = all, !.dataset = Bars(all)]
<1>1. Alone(f) /\ Fits(s) /\ s.at = "refetch" /\ Orderly
  BY DEF Sound, Refetch
<1>2. IsFetch(s) /\ Framed(s) /\ s.bounds # NoBounds
  BY <1>1 DEF Fits
<1>3. Become(f, x) /\ UNCHANGED <<cached, covered, basis, today>>
  BY DEF Refetch
<1>4. all = <<Min({s.bounds[1], s.range[1]}), Max({s.bounds[2], s.range[2]})>>
  BY DEF FullRange
<1> HIDE DEF s, all
<1>5. /\ s.bounds[1] \in Nat /\ s.bounds[2] \in Nat /\ s.range[1] \in Nat /\ s.range[2] \in Nat
      /\ s.bounds[1] \in DOMAIN cached /\ s.bounds[1] <= s.bounds[2]
  BY <1>2 DEF IsFetch, Ranges, Framed
<1>6. Min({s.bounds[1], s.range[1]}) \in Nat /\ Min({s.bounds[1], s.range[1]}) <= s.bounds[1]
  BY <1>5, MinOfNumbers
<1>7. Max({s.bounds[2], s.range[2]}) \in Nat /\ s.bounds[2] <= Max({s.bounds[2], s.range[2]})
  <2> DEFINE n == s.bounds[2] + s.range[2]
             S == {s.bounds[2], s.range[2]}
  <2>1. n \in Nat /\ S \in SUBSET Nat /\ S # {} /\ \A y \in S : y <= n
    BY <1>5
  <2>2. Max(S) \in S /\ \A y \in S : y <= Max(S)
    BY <2>1, MaxOfNumbers
  <2>3. QED
    BY <1>5, <2>2
<1>8. all \in Ranges /\ all[1] <= s.bounds[1] /\ s.bounds[1] <= all[2]
  BY <1>4, <1>5, <1>6, <1>7 DEF Ranges
<1>9. today \in Nat /\ basis \in Nat /\ \A d \in DOMAIN cached : d <= today /\ d \in TradingDay
  BY <1>1 DEF Orderly
<1>10. s.bounds[1] \in DOMAIN Bars(all)
  BY <1>5, <1>8, <1>9 DEF Bars, DaysOf
<1>11. x.at = "clear" /\ x.asked = all /\ x.dataset = Bars(all) /\ IsFetch(x)
  BY <1>2, <1>8 DEF IsFetch, Stages
<1> HIDE DEF x
<1>12. Answer(x)
  <2>1. x.dataset = [d \in {d \in DaysOf(x.asked) \cap TradingDay : d <= today} |-> basis]
    BY <1>11 DEF Bars
  <2>2. today <= today
    BY <1>9
  <2>3. QED
    BY <1>9, <1>10, <1>11, <2>1, <2>2 DEF Answer
<1>13. Fits(x)
  BY <1>11, <1>12 DEF Fits
<1>14. QED
  BY <1>1, <1>3, <1>13, QuietMove DEF x

LEMMA ClearSound ==
  ASSUME Sound, NEW f \in Fetcher, Clear(f)
  PROVE  Sound'
<1> DEFINE s == fetch[f]
           x == [s EXCEPT !.at = "rebuild"]
<1>1. Alone(f) /\ Fits(s) /\ s.at = "clear" /\ Orderly /\ Whole
  BY DEF Sound, Clear
<1>2. IsFetch(s) /\ Answer(s)
  BY <1>1 DEF Fits
<1>3. /\ Become(f, x) /\ UNCHANGED <<basis, today>>
      /\ cached' = NoBars /\ covered' = {}
  BY DEF Clear, ClearSeries
<1>4. fetch'[f] = x
  BY <1>3 DEF Sound, Become
<1>5. DOMAIN cached' = {}
  BY <1>3 DEF NoBars
<1>6. Orderly' /\ Whole'
  BY <1>1, <1>3, <1>5 DEF Orderly, Whole
<1> HIDE DEF s
<1>7. x.at = "rebuild" /\ x.dataset = s.dataset /\ x.asked = s.asked /\ IsFetch(x)
  BY <1>2 DEF IsFetch, Stages
<1> HIDE DEF x
<1>8. Answer(fetch[f])'
  BY <1>2, <1>3, <1>4, <1>5, <1>7 DEF Answer
<1>9. Fits(fetch[f])'
  BY <1>3, <1>4, <1>5, <1>7, <1>8 DEF Fits, IsFetch
<1>10. QED
  BY <1>1, <1>3, <1>6, <1>9, FetchMoves

LEMMA RebuildSound ==
  ASSUME Sound, NEW f \in Fetcher, Rebuild(f)
  PROVE  Sound'
<1> DEFINE s == fetch[f]
           x == [s EXCEPT !.at = "loaded", !.gaps = <<>>, !.dataset = NoBars]
<1>1. Alone(f) /\ Fits(s) /\ s.at = "rebuild" /\ Orderly /\ Whole
  BY DEF Sound, Rebuild
<1>2. IsFetch(s) /\ Answer(s) /\ DOMAIN cached = {}
  BY <1>1 DEF Fits
<1>3. Become(f, x) /\ UNCHANGED <<basis, today>> /\ StoreDataset(s.dataset, s.asked)
  BY DEF Rebuild
<1>4. fetch'[f] = x
  BY <1>3 DEF Sound, Become
<1> HIDE DEF s
<1>5. Orderly' /\ Whole'
  <2>1. \/ DOMAIN cached = {}
        \/ \E d \in DOMAIN cached : d \in DOMAIN s.dataset /\ cached[d] = s.dataset[d]
    BY <1>2
  <2>2. QED
    BY <1>1, <1>2, <1>3, <2>1, StoredIsWhole
<1>6. x.at = "loaded" /\ IsFetch(x)
  <2>1. <<>> \in Seq(Ranges)
    OBVIOUS
  <2>2. QED
    BY <1>2, <2>1 DEF IsFetch, Stages
<1> HIDE DEF x
<1>7. Fits(fetch[f])'
  BY <1>4, <1>6 DEF Fits, IsFetch
<1>8. QED
  BY <1>1, <1>3, <1>5, <1>7, FetchMoves

LEMMA ConcludeSound ==
  ASSUME Sound, NEW f \in Fetcher, Conclude(f)
  PROVE  Sound'
<1> DEFINE s == fetch[f]
<1>1. Alone(f) /\ Fits(s) /\ s.at = "loaded" /\ IsFetch(s)
  BY DEF Sound, Conclude, Fits
<1>2. UNCHANGED <<cached, covered, basis, today>>
  BY DEF Conclude
<1>3. CASE s.refused = <<>>
  <2> DEFINE x == [s EXCEPT !.at = "result"]
  <2>1. Become(f, x)
    BY <1>3 DEF Conclude
  <2> HIDE DEF s
  <2>2. x.at = "result" /\ IsFetch(x)
    BY <1>1 DEF IsFetch, Stages
  <2> HIDE DEF x
  <2>3. Fits(x)
    BY <2>2 DEF Fits
  <2>4. QED
    BY <1>1, <1>2, <2>1, <2>3, QuietMove
<1>4. CASE s.refused # <<>> /\ Loaded(s.range) # {}
  <2> DEFINE x == [s EXCEPT !.at = "cover"]
  <2>1. Become(f, x)
    BY <1>4 DEF Conclude
  <2>2. DOMAIN cached # {}
    BY <1>4 DEF Loaded
  <2> HIDE DEF s
  <2>3. x.at = "cover" /\ x.refused = s.refused /\ IsFetch(x)
    BY <1>1 DEF IsFetch, Stages
  <2> HIDE DEF x
  <2>4. Fits(x)
    BY <1>4, <2>2, <2>3 DEF Fits
  <2>5. QED
    BY <1>1, <1>2, <2>1, <2>4, QuietMove
<1>5. CASE s.refused # <<>> /\ ~(Loaded(s.range) # {})
  <2>1. Become(f, Idle)
    BY <1>5 DEF Conclude
  <2>2. QED
    BY <1>1, <1>2, <2>1, IdleFits, QuietMove
<1>6. QED
  BY <1>3, <1>4, <1>5

LEMMA CoverSound ==
  ASSUME Sound, NEW f \in Fetcher, Cover(f)
  PROVE  Sound'
<1> DEFINE s == fetch[f]
           at == IF Len(s.refused) > 1 THEN "cover" ELSE "result"
           x == [s EXCEPT !.at = at, !.refused = Tail(@)]
<1>1. Alone(f) /\ Fits(s) /\ s.at = "cover" /\ Orderly /\ Whole
  BY DEF Sound, Cover
<1>2. /\ IsFetch(s) /\ s.refused # <<>> /\ s.refused \in Seq(Ranges) /\ DOMAIN cached # {}
  BY <1>1 DEF Fits, IsFetch
<1>3. /\ Become(f, x) /\ UNCHANGED <<cached, basis, today>>
      /\ covered' = covered \cup DaysOf(Head(s.refused))
  BY DEF Cover, RecordCoverage
<1>4. fetch'[f] = x
  BY <1>3 DEF Sound, Become
<1> HIDE DEF s
<1>5. /\ Head(s.refused) \in Ranges /\ Tail(s.refused) \in Seq(Ranges)
      /\ Len(s.refused) > 1 => Tail(s.refused) # <<>>
  BY <1>2, TailOfGaps
<1>6. DaysOf(Head(s.refused)) \subseteq Nat
  <2>1. Head(s.refused)[1] \in Nat /\ Head(s.refused)[2] \in Nat
    BY <1>5 DEF Ranges
  <2>2. QED
    BY <2>1 DEF DaysOf
<1>7. Orderly'
  <2>1. covered' \subseteq Nat
    BY <1>1, <1>3, <1>6 DEF Orderly
  <2>2. QED
    BY <1>1, <1>3, <2>1 DEF Orderly
<1>8. Whole'
  BY <1>1, <1>2, <1>3 DEF Whole
<1>9. at \in Stages
  BY DEF Stages
<1>10. at = "cover" => Len(s.refused) > 1
  OBVIOUS
<1>11. at \in {"cover", "result"}
  OBVIOUS
<1> HIDE DEF at
<1>12. x.at = at /\ x.refused = Tail(s.refused) /\ IsFetch(x)
  BY <1>2, <1>5, <1>9 DEF IsFetch
<1> HIDE DEF x
<1>13. Fits(fetch[f])'
  BY <1>2, <1>3, <1>4, <1>5, <1>10, <1>11, <1>12 DEF Fits, IsFetch
<1>14. QED
  BY <1>1, <1>3, <1>7, <1>8, <1>13, FetchMoves

-----------------------------------------------------------------------------
(* The steps of the world. *)

LEMMA DayEndsSound ==
  ASSUME Sound, DayEnds
  PROVE  Sound'
<1>1. /\ Orderly /\ Whole /\ today \in Nat /\ today' = today + 1
      /\ UNCHANGED <<cached, covered, fetch, basis>>
  BY DEF Sound, Orderly, DayEnds
<1>2. Orderly' /\ Whole'
  BY <1>1 DEF Orderly, Whole
<1>3. ASSUME NEW x, Answer(x)
      PROVE  \E day, b \in Nat :
               /\ day <= today'
               /\ x.dataset = [d \in {d \in DaysOf(x.asked) \cap TradingDay : d <= day} |-> b]
               /\ \A d \in DOMAIN cached : d <= day
  BY <1>1, <1>3 DEF Answer
<1>4. ASSUME NEW f \in Fetcher
      PROVE  Fits(fetch[f])'
  <2>1. Fits(fetch[f])
    BY DEF Sound
  <2>2. fetch'[f] = fetch[f]
    BY <1>1
  <2>3. Answer(fetch[f]) => Answer(fetch[f])'
    BY <1>1, <1>3, <2>2 DEF Answer
  <2>4. QED
    BY <1>1, <2>1, <2>2, <2>3 DEF Fits, IsFetch, Uncovered, Framed, Placed, Reaches, Agrees
<1>5. QED
  BY <1>1, <1>2, <1>4 DEF Sound, Alone

LEMMA RebaseSound ==
  ASSUME Sound, Rebase
  PROVE  Sound'
<1>1. /\ Orderly /\ Whole /\ basis \in Nat /\ basis' = basis + 1
      /\ UNCHANGED <<cached, covered, fetch, today>>
  BY DEF Sound, Orderly, Rebase
<1>2. Orderly' /\ Whole'
  BY <1>1 DEF Orderly, Whole
<1>3. ASSUME NEW f \in Fetcher
      PROVE  Fits(fetch[f])'
  <2>1. Fits(fetch[f])
    BY DEF Sound
  <2>2. fetch'[f] = fetch[f]
    BY <1>1
  <2>3. Answer(fetch[f]) => Answer(fetch[f])'
    BY <1>1, <2>2 DEF Answer
  <2>4. QED
    BY <1>1, <2>1, <2>2, <2>3 DEF Fits, IsFetch, Uncovered, Framed, Placed, Reaches, Agrees
<1>4. QED
  BY <1>1, <1>2, <1>3 DEF Sound, Alone

LEMMA CrashSound ==
  ASSUME Sound, Crash
  PROVE  Sound'
<1>1. Orderly' /\ Whole'
  BY CacheKept DEF Sound, Crash
<1>2. \A f \in Fetcher : fetch'[f] = Idle
  BY DEF Crash
<1>3. Fits(Idle)'
  BY DEF Fits, IsFetch, Idle, Stages, Ranges, NoBounds
<1>4. \A f \in Fetcher : Fits(fetch[f])'
  BY <1>2, <1>3, IdleFits DEF Fits, IsFetch, Idle
<1>5. QED
  BY <1>1, <1>2, <1>4 DEF Sound, Alone, Crash, Idle

LEMMA StutterSound ==
  ASSUME Sound, UNCHANGED vars
  PROVE  Sound'
<1>1. Orderly /\ Whole /\ UNCHANGED <<cached, covered, fetch, basis, today>>
  BY DEF Sound, vars
<1>2. Orderly' /\ Whole'
  BY <1>1, CacheKept
<1>3. ASSUME NEW f \in Fetcher
      PROVE  Fits(fetch[f])'
  <2>1. Fits(fetch[f])
    BY DEF Sound
  <2>2. fetch'[f] = fetch[f]
    BY <1>1
  <2>3. Answer(fetch[f]) => Answer(fetch[f])'
    BY <1>1, <2>2 DEF Answer
  <2>4. QED
    BY <1>1, <2>1, <2>2, <2>3 DEF Fits, IsFetch, Uncovered, Framed, Placed, Reaches, Agrees
<1>4. QED
  BY <1>1, <1>2, <1>3 DEF Sound, Alone

-----------------------------------------------------------------------------

LEMMA InitSound == Init => SeriesInv
<1> SUFFICES ASSUME Init PROVE Sound
  BY DEF SeriesInv
<1>1. DOMAIN cached = {} /\ covered = {}
  BY DEF Init, NoBars
<1>2. Orderly /\ Whole
  BY <1>1, CacheAssumption DEF Init, Orderly, Whole
<1>3. \A f \in Fetcher : fetch[f] = Idle
  BY DEF Init
<1>4. Idle.at = "idle"
  BY DEF Idle
<1>5. QED
  BY <1>2, <1>3, <1>4, IdleFits DEF Sound, Init, Alone

LEMMA StepSound == SeriesInv /\ [Next]_vars => SeriesInv'
<1> SUFFICES ASSUME SeriesInv, [Next]_vars, ~overlapped'
             PROVE  Sound'
  BY DEF SeriesInv
<1>1. ~overlapped
  BY DEF Next, FetchStep, Request, ReadBounds, Answered, Refused, Broken, Compare, Store,
         Refetch, Clear, Rebuild, Conclude, Cover, Result, DayEnds, Rebase, Crash, vars
<1>2. Sound
  BY <1>1 DEF SeriesInv
<1>3. ASSUME NEW f \in Fetcher, FetchStep(f)
      PROVE  Sound'
  BY <1>2, <1>3, RequestSound, ReadBoundsSound, AnsweredSound, RefusedSound, BrokenSound,
     CompareSound, StoreSound, RefetchSound, ClearSound, RebuildSound, ConcludeSound,
     CoverSound, ResultSound DEF FetchStep
<1>4. CASE DayEnds
  BY <1>2, <1>4, DayEndsSound
<1>5. CASE Rebase
  BY <1>2, <1>5, RebaseSound
<1>6. CASE Crash
  BY <1>2, <1>6, CrashSound
<1>7. CASE UNCHANGED vars
  BY <1>2, <1>7, StutterSound
<1>8. QED
  BY <1>3, <1>4, <1>5, <1>6, <1>7 DEF Next

\* SeriesIsWhole (MarketCache) holds of every behaviour: as long as fetches came
\* one after the other, the cached bars are on one basis and without a hole,
\* whatever was asked for and refused, and wherever the process died.
THEOREM SeriesStaysWhole == Spec => []SeriesIsWhole
<1>1. Init => SeriesInv
  BY InitSound
<1>2. SeriesInv /\ [Next]_vars => SeriesInv'
  BY StepSound
<1>3. SeriesInv => SeriesIsWhole
  <2> SUFFICES ASSUME SeriesInv, ~overlapped
               PROVE  /\ \A d, e \in DOMAIN cached : cached[d] = cached[e]
                      /\ \A d \in TradingDay :
                           Bounds # NoBounds /\ d \in Bounds[1]..Bounds[2] => d \in DOMAIN cached
    BY DEF SeriesIsWhole
  <2>1. Orderly /\ Whole
    BY DEF SeriesInv, Sound
  <2>2. DOMAIN cached \in SUBSET (0..today) /\ today \in Nat
    BY <2>1 DEF Orderly
  <2>3. Bounds # NoBounds =>
          /\ Bounds \in Ranges /\ Bounds[1] \in DOMAIN cached /\ Bounds[2] \in DOMAIN cached
    BY <2>2, BoundsOfCache
  <2>4. ASSUME NEW d \in TradingDay, Bounds # NoBounds, d \in Bounds[1]..Bounds[2]
        PROVE  d \in DOMAIN cached
    <3>1. Bounds[1] <= d /\ d <= Bounds[2]
      BY <2>3, <2>4 DEF Ranges
    <3>2. QED
      BY <2>1, <2>3, <2>4, <3>1 DEF Whole
  <2>5. QED
    BY <2>1, <2>4 DEF Whole
<1>4. QED
  BY <1>1, <1>2, <1>3, PTL DEF Spec

-----------------------------------------------------------------------------
(* MacroFreshness. *)

Snapshots == {NoSnapshot} \cup [asOf : Nat, known : Nat, warned : BOOLEAN]

\* what is known of a run that waits for the sites
Verifying(local, rel, day) ==
    local.at = "verify" =>
        /\ local.started \in Nat /\ local.started <= day /\ day <= local.started + 1
        /\ local.checks \in [Sources -> Int]
        /\ \A s \in Sources : local.checks[s] \notin {Waiting, Failed} =>
             \A release \in rel : release[1] = s /\ release[2] < local.started => release[2] <= local.checks[s]

RunsKnown ==
    /\ run \in [Run -> [at : {"idle", "ready", "save", "verify"}, live : BOOLEAN, snapshot : Snapshots,
                        started : Nat, checks : {<<>>} \cup [Sources -> Int]]]
    /\ \A r \in Run : Verifying(run[r], released, date)

\* the sites that had superseded a snapshot two days before a day
SupersededSites(snapshot, day, rel) ==
    {s \in Sources : \E d \in snapshot.asOf + 1..day - 2 : <<s, d>> \in rel}

VerdictsHold ==
    \A v \in verdicts :
        /\ v.snapshot \in Snapshots /\ v.checked \in Nat /\ v.checked <= date
        /\ Cardinality(SupersededSites(v.snapshot, v.checked, released)) <= Cardinality(Sources) - Needed

FreshInv ==
    /\ date \in Nat /\ released \in SUBSET (Sources \X Nat) /\ IsFiniteSet(released)
    /\ \A release \in released : release[2] <= date
    /\ file \in Snapshots
    /\ RunsKnown /\ VerdictsHold

\* The date a page shows is at or after each of its releases.
LEMMA LatestIsLatest ==
  ASSUME FreshInv, NEW s \in Sources
  PROVE  LatestOf(s) \in Nat /\ \A release \in released : release[1] = s => release[2] <= LatestOf(s)
<1> DEFINE days == {NoDate} \cup {release[2] : release \in {x \in released : x[1] = s}}
<1>1. date \in Nat /\ \A release \in released : release[2] \in Nat /\ release[2] <= date
  BY DEF FreshInv
<1>2. days \in SUBSET Nat /\ days # {} /\ \A d \in days : d <= date
  BY <1>1 DEF NoDate
<1>3. \A release \in released : release[1] = s => release[2] \in days
  OBVIOUS
<1>4. LatestOf(s) = Max(days)
  BY DEF LatestOf
<1> HIDE DEF days
<1>5. Max(days) \in days /\ \A d \in days : d <= Max(days)
  BY <1>1, <1>2, MaxOfNumbers
<1>6. QED
  BY <1>2, <1>3, <1>4, <1>5

\* A step of one run that leaves the releases and the verdicts alone.
LEMMA RunMoves ==
  ASSUME FreshInv, NEW r \in Run, NEW local, run' = [run EXCEPT ![r] = local],
         local \in [at : {"idle", "ready", "save", "verify"}, live : BOOLEAN, snapshot : Snapshots,
                    started : Nat, checks : {<<>>} \cup [Sources -> Int]],
         Verifying(local, released, date), date' = date, released' = released
  PROVE  RunsKnown'
<1>1. run \in [Run -> [at : {"idle", "ready", "save", "verify"}, live : BOOLEAN, snapshot : Snapshots,
                       started : Nat, checks : {<<>>} \cup [Sources -> Int]]]
  BY DEF FreshInv, RunsKnown
<1>2. run' \in [Run -> [at : {"idle", "ready", "save", "verify"}, live : BOOLEAN, snapshot : Snapshots,
                        started : Nat, checks : {<<>>} \cup [Sources -> Int]]]
  BY <1>1
<1>3. run'[r] = local /\ \A q \in Run : q # r => run'[q] = run[q]
  BY <1>1
<1>4. \A q \in Run : Verifying(run'[q], released, date)
  BY <1>3 DEF FreshInv, RunsKnown
<1>5. QED
  BY <1>2, <1>4 DEF RunsKnown

Local == [at : {"idle", "ready", "save", "verify"}, live : BOOLEAN, snapshot : Snapshots,
          started : Nat, checks : {<<>>} \cup [Sources -> Int]]

LEMMA LocalOf ==
  ASSUME FreshInv, NEW r \in Run
  PROVE  run[r] \in Local /\ Verifying(run[r], released, date) /\ date \in Nat
BY DEF FreshInv, RunsKnown, Local

\* What a step of a run keeps that changes no verdict.
LEMMA QuietStep ==
  ASSUME FreshInv, NEW r \in Run, NEW local \in Local, run' = [run EXCEPT ![r] = local],
         Verifying(local, released, date), date' = date, released' = released, verdicts' = verdicts,
         file' \in Snapshots
  PROVE  FreshInv'
<1>1. RunsKnown'
  BY RunMoves DEF Local
<1>2. VerdictsHold'
  BY DEF FreshInv, VerdictsHold
<1>3. QED
  BY <1>1, <1>2 DEF FreshInv

\* A run that does not wait for the sites.
LEMMA NotVerifying ==
  ASSUME NEW local, local.at # "verify"
  PROVE  Verifying(local, released, date)
BY DEF Verifying

LEMMA LoadSteps ==
  ASSUME FreshInv, NEW r \in Run,
         Ask(r) \/ LoadBundled(r) \/ FetchLive(r) \/ Save(r) \/ FallBack(r)
  PROVE  FreshInv'
<1>1. run[r] \in Local /\ date \in Nat /\ file \in Snapshots /\ run[r].snapshot \in Snapshots
  BY LocalOf DEF FreshInv, Local
<1>2. run \in [Run -> Local]
  BY DEF FreshInv, RunsKnown, Local
<1>3. ASSUME Ask(r)
      PROVE  FreshInv'
  <2>1. PICK live \in BOOLEAN : run' = [run EXCEPT ![r].at = "ready", ![r].live = live]
    BY <1>3 DEF Ask
  <2> DEFINE local == [run[r] EXCEPT !.at = "ready", !.live = live]
  <2>2. local \in Local /\ local.at = "ready" /\ run' = [run EXCEPT ![r] = local]
    BY <1>1, <1>2, <2>1 DEF Local
  <2> HIDE DEF local
  <2>3. Verifying(local, released, date)
    BY <2>2, NotVerifying
  <2>4. date' = date /\ released' = released /\ verdicts' = verdicts /\ file' \in Snapshots
    BY <1>1, <1>3 DEF Ask
  <2>5. QED
    BY <2>2, <2>3, <2>4, QuietStep
<1>4. ASSUME LoadBundled(r)
      PROVE  FreshInv'
  <2> DEFINE local == [run[r] EXCEPT !.snapshot = Bundled]
  <2>1. Bundled \in Snapshots
    BY DEF Bundled, Snapshot, Snapshots
  <2>2. local \in Local /\ local.at = "ready" /\ run' = [run EXCEPT ![r] = local]
    BY <1>1, <1>2, <1>4, <2>1 DEF Local, LoadBundled
  <2> HIDE DEF local
  <2>3. Verifying(local, released, date)
    BY <2>2, NotVerifying
  <2>4. date' = date /\ released' = released /\ verdicts' = verdicts /\ file' \in Snapshots
    BY <1>1, <1>4 DEF LoadBundled
  <2>5. QED
    BY <2>2, <2>3, <2>4, QuietStep
<1>5. ASSUME FetchLive(r)
      PROVE  FreshInv'
  <2> DEFINE snapshot == Snapshot(date, Cardinality(released), FALSE)
             local == [run[r] EXCEPT !.at = "save", !.live = FALSE, !.snapshot = snapshot]
  <2>1. Cardinality(released) \in Nat
    BY FS_CardinalityType DEF FreshInv
  <2>2. snapshot \in Snapshots
    BY <1>1, <2>1 DEF Snapshot, Snapshots
  <2>3. run' = [run EXCEPT ![r].at = "save", ![r].live = FALSE, ![r].snapshot = snapshot]
    BY <1>5 DEF FetchLive
  <2> HIDE DEF snapshot
  <2>4. local \in Local /\ local.at = "save" /\ run' = [run EXCEPT ![r] = local]
    BY <1>1, <1>2, <2>2, <2>3 DEF Local
  <2> HIDE DEF local
  <2>5. Verifying(local, released, date)
    BY <2>4, NotVerifying
  <2>6. date' = date /\ released' = released /\ verdicts' = verdicts /\ file' \in Snapshots
    BY <1>1, <1>5 DEF FetchLive
  <2>7. QED
    BY <2>4, <2>5, <2>6, QuietStep
<1>6. ASSUME Save(r)
      PROVE  FreshInv'
  <2> DEFINE local == [run[r] EXCEPT !.at = "ready"]
  <2>1. local \in Local /\ local.at = "ready" /\ run' = [run EXCEPT ![r] = local]
    BY <1>1, <1>2, <1>6 DEF Local, Save
  <2> HIDE DEF local
  <2>2. Verifying(local, released, date)
    BY <2>1, NotVerifying
  <2>3. date' = date /\ released' = released /\ verdicts' = verdicts /\ file' \in Snapshots
    BY <1>1, <1>6 DEF Save
  <2>4. QED
    BY <2>1, <2>2, <2>3, QuietStep
<1>7. ASSUME FallBack(r)
      PROVE  FreshInv'
  <2> DEFINE snapshot == [file EXCEPT !.warned = TRUE]
             local == [run[r] EXCEPT !.live = FALSE, !.snapshot = snapshot]
  <2>1. file \in [asOf : Nat, known : Nat, warned : BOOLEAN]
    BY <1>1, <1>7 DEF FallBack, Snapshots
  <2>2. snapshot \in Snapshots
    BY <2>1 DEF Snapshots
  <2>3. run' = [run EXCEPT ![r].live = FALSE, ![r].snapshot = snapshot] /\ run[r].at = "ready"
    BY <1>7 DEF FallBack
  <2> HIDE DEF snapshot
  <2>4. local \in Local /\ local.at = "ready" /\ run' = [run EXCEPT ![r] = local]
    BY <1>1, <1>2, <2>2, <2>3 DEF Local
  <2> HIDE DEF local
  <2>5. Verifying(local, released, date)
    BY <2>4, NotVerifying
  <2>6. date' = date /\ released' = released /\ verdicts' = verdicts /\ file' \in Snapshots
    BY <1>1, <1>7 DEF FallBack
  <2>7. QED
    BY <2>4, <2>5, <2>6, QuietStep
<1>8. QED
  BY <1>3, <1>4, <1>5, <1>6, <1>7

LEMMA VerifyStep ==
  ASSUME FreshInv, NEW r \in Run, Verify(r)
  PROVE  FreshInv'
<1> DEFINE waiting == [s \in Sources |-> Waiting]
           local == [run[r] EXCEPT !.at = "verify", !.started = date, !.checks = waiting]
<1>1. run[r] \in Local /\ date \in Nat /\ run \in [Run -> Local]
  BY LocalOf DEF FreshInv, RunsKnown, Local
<1>2. waiting \in [Sources -> Int] /\ \A s \in Sources : waiting[s] = Waiting
  BY DEF Waiting
<1>3. run' = [run EXCEPT ![r].at = "verify", ![r].started = date, ![r].checks = waiting]
  BY DEF Verify
<1> HIDE DEF waiting
<1>4. /\ local \in Local /\ run' = [run EXCEPT ![r] = local]
      /\ local.started = date /\ local.checks = waiting
  BY <1>1, <1>2, <1>3 DEF Local
<1> HIDE DEF local
<1>5. Verifying(local, released, date)
  BY <1>1, <1>2, <1>4 DEF Verifying
<1>6. date' = date /\ released' = released /\ verdicts' = verdicts /\ file' \in Snapshots
  BY DEF Verify, FreshInv
<1>7. QED
  BY <1>4, <1>5, <1>6, QuietStep

\* An answer shows the latest release of the site.
LEMMA CheckStep ==
  ASSUME FreshInv, NEW r \in Run, NEW s \in Sources, Check(r, s)
  PROVE  FreshInv'
<1>1. run[r] \in Local /\ date \in Nat /\ run \in [Run -> Local]
  BY LocalOf DEF FreshInv, RunsKnown, Local
<1>2. Verifying(run[r], released, date) /\ run[r].at = "verify"
  BY LocalOf DEF Check
<1>3. PICK answer \in {LatestOf(s), Failed} : run' = [run EXCEPT ![r].checks[s] = answer]
  BY DEF Check
<1> DEFINE checks == [run[r].checks EXCEPT ![s] = answer]
           local == [run[r] EXCEPT !.checks = checks]
<1>4. run[r].checks \in [Sources -> Int] /\ run[r].started \in Nat
  BY <1>2 DEF Verifying
<1>5. answer \in Int
  BY LatestIsLatest DEF Failed
<1>6. checks \in [Sources -> Int] /\ checks[s] = answer /\ \A q \in Sources : q # s => checks[q] = run[r].checks[q]
  BY <1>4, <1>5
<1>7. run' = [run EXCEPT ![r].checks = checks]
  BY <1>3
<1> HIDE DEF checks
<1>8. /\ local \in Local /\ run' = [run EXCEPT ![r] = local]
      /\ local.started = run[r].started /\ local.checks = checks
  BY <1>1, <1>6, <1>7 DEF Local
<1> HIDE DEF local
<1>9. \A release \in released : release[1] = s /\ answer # Failed => release[2] <= answer
  BY LatestIsLatest
<1>10. Verifying(local, released, date)
  BY <1>2, <1>6, <1>8, <1>9 DEF Verifying
<1>11. date' = date /\ released' = released /\ verdicts' = verdicts /\ file' \in Snapshots
  BY DEF Check, FreshInv
<1>12. QED
  BY <1>8, <1>10, <1>11, QuietStep

\* A site that answered, and shows nothing newer than the snapshot, had released
\* nothing since when the verification began, and so nothing two days before it
\* ends: the sites that had are among those that failed.
LEMMA GiveVerdictStep ==
  ASSUME FreshInv, NEW r \in Run, GiveVerdict(r)
  PROVE  FreshInv'
<1> DEFINE snapshot == run[r].snapshot
           checks == run[r].checks
           local == [run[r] EXCEPT !.at = "ready", !.started = 0, !.checks = <<>>]
           given == Status(snapshot, checks, run[r].started)
<1>1. run[r] \in Local /\ date \in Nat /\ run \in [Run -> Local]
  BY LocalOf DEF FreshInv, RunsKnown, Local
<1>2. /\ Verifying(run[r], released, date) /\ run[r].at = "verify" /\ Waiting \notin Range(checks)
      /\ Remember(snapshot, given)
      /\ run' = [run EXCEPT ![r].at = "ready", ![r].started = 0, ![r].checks = <<>>]
      /\ date' = date /\ released' = released /\ file' = file
  BY LocalOf DEF GiveVerdict
<1>3. local \in Local /\ local.at = "ready" /\ run' = [run EXCEPT ![r] = local]
  BY <1>1, <1>2 DEF Local
<1>4. Verifying(local, released, date)
  BY <1>3, NotVerifying
<1>5. RunsKnown'
  BY <1>2, <1>3, <1>4, RunMoves DEF Local
<1>6. /\ checks \in [Sources -> Int] /\ run[r].started \in Nat /\ date <= run[r].started + 1
      /\ \A s \in Sources : checks[s] # Waiting
      /\ \A s \in Sources : checks[s] \notin {Waiting, Failed} =>
           \A release \in released : release[1] = s /\ release[2] < run[r].started => release[2] <= checks[s]
  BY <1>2 DEF Verifying, Range
<1>7. snapshot \in Snapshots /\ snapshot.asOf \in Nat
  BY <1>1 DEF Local, Snapshots, NoSnapshot
<1>8. ASSUME given = "current"
      PROVE  Cardinality(SupersededSites(snapshot, date, released)) <= Cardinality(Sources) - Needed
  <2> DEFINE answered == {s \in Sources : checks[s] # Failed}
             newer == {s \in answered : checks[s] > snapshot.asOf}
             silent == Sources \ answered
             sites == SupersededSites(snapshot, date, released)
  <2>1. newer = {} /\ ~(Cardinality(answered) < Needed)
    <3> DEFINE old == run[r].started - snapshot.asOf > MaxAge
               short == Cardinality(answered) < Needed
    <3>1. old <=> ~(run[r].started - snapshot.asOf <= MaxAge)
      BY <1>6, <1>7, FreshnessAssumption
    <3>2. given = CASE newer # {} \/ old -> "stale"
                     [] short /\ newer = {} /\ ~old -> "unverified"
                     [] OTHER -> "current"
      BY <3>1 DEF Status
    <3> HIDE DEF given, newer, old, short
    <3>3. newer = {} /\ ~old /\ ~short
      BY <1>8, <3>2
    <3>4. QED
      BY <3>3 DEF short
  <2>2. ASSUME NEW s \in sites
        PROVE  s \in silent
    <3>1. PICK d \in snapshot.asOf + 1..date - 2 : <<s, d>> \in released
      BY DEF SupersededSites
    <3>2. d \in Int /\ d > snapshot.asOf /\ d < run[r].started
      BY <1>1, <1>6, <1>7, <3>1
    <3>3. s \in Sources
      BY DEF SupersededSites
    <3>4. CASE s \in answered
      <4>1. checks[s] \notin {Waiting, Failed} /\ checks[s] \in Int
        BY <1>6, <3>3, <3>4
      <4>2. d <= checks[s]
        BY <1>6, <3>1, <3>2, <3>3, <4>1
      <4>3. checks[s] > snapshot.asOf
        BY <1>7, <3>2, <4>1, <4>2
      <4>4. QED
        BY <2>1, <3>4, <4>3
    <3>5. QED
      BY <3>3, <3>4
  <2>3. IsFiniteSet(Sources) /\ Needed \in Nat
    BY FreshnessAssumption
  <2>4. sites \subseteq silent /\ answered \subseteq Sources
    BY <2>2
  <2> HIDE DEF sites, answered
  <2>5. /\ IsFiniteSet(answered) /\ IsFiniteSet(silent) /\ Cardinality(sites) <= Cardinality(silent)
        /\ Cardinality(silent) = Cardinality(Sources) - Cardinality(Sources \cap answered)
    BY <2>3, <2>4, FS_Subset, FS_Difference
  <2>6. Sources \cap answered = answered
    BY <2>4
  <2>7. /\ Cardinality(answered) \in Nat /\ Cardinality(silent) \in Nat /\ Cardinality(Sources) \in Nat
        /\ Cardinality(sites) \in Nat
    BY <2>3, <2>4, <2>5, FS_CardinalityType, FS_Subset
  <2>8. QED
    BY <2>1, <2>3, <2>5, <2>6, <2>7 DEF sites
<1>9. VerdictsHold'
  <2> SUFFICES ASSUME NEW v \in verdicts'
               PROVE  /\ v.snapshot \in Snapshots /\ v.checked \in Nat /\ v.checked <= date
                      /\ Cardinality(SupersededSites(v.snapshot, v.checked, released)) <= Cardinality(Sources) - Needed
    BY <1>2 DEF VerdictsHold
  <2>1. v \in verdicts \/ (given = "current" /\ v = [snapshot |-> snapshot, checked |-> date])
    BY <1>2 DEF Remember
  <2>2. CASE v \in verdicts
    BY <2>2 DEF FreshInv, VerdictsHold
  <2>3. CASE given = "current" /\ v = [snapshot |-> snapshot, checked |-> date]
    BY <1>1, <1>7, <1>8, <2>3
  <2>4. QED
    BY <2>1, <2>2, <2>3
<1>10. QED
  BY <1>2, <1>5, <1>9 DEF FreshInv

LEMMA EndRunStep ==
  ASSUME FreshInv, NEW r \in Run, EndRun(r)
  PROVE  FreshInv'
<1>1. NoRun \in Local /\ NoRun.at = "idle"
  BY DEF NoRun, Local, Snapshots
<1>2. Verifying(NoRun, released, date)
  BY <1>1, NotVerifying
<1>3. QED
  BY <1>1, <1>2, QuietStep DEF EndRun, FreshInv

\* A release of today is too recent for every verdict and every verification.
LEMMA PublishStep ==
  ASSUME FreshInv, NEW s \in Sources, Publish(s)
  PROVE  FreshInv'
<1>1. /\ released' = released \cup {<<s, date>>} /\ date' = date /\ file' = file
      /\ verdicts' = verdicts /\ run' = run /\ date \in Nat
  BY DEF Publish, FreshInv
<1>2. /\ released' \in SUBSET (Sources \X Nat) /\ IsFiniteSet(released')
      /\ \A release \in released' : release[2] <= date
  <2>1. IsFiniteSet(released')
    BY <1>1, FS_AddElement DEF FreshInv
  <2>2. QED
    BY <1>1, <2>1 DEF FreshInv
<1>3. ASSUME NEW r \in Run
      PROVE  Verifying(run[r], released', date)
  <2>1. Verifying(run[r], released, date)
    BY LocalOf
  <2>2. \A release \in released' : release \in released \/ (release[1] = s /\ release[2] = date)
    BY <1>1
  <2>3. QED
    BY <1>1, <2>1, <2>2 DEF Verifying
<1>4. RunsKnown'
  BY <1>1, <1>3 DEF FreshInv, RunsKnown
<1>5. ASSUME NEW v \in verdicts
      PROVE  SupersededSites(v.snapshot, v.checked, released') = SupersededSites(v.snapshot, v.checked, released)
  <2>1. v.checked \in Nat /\ v.checked <= date /\ v.snapshot.asOf \in Nat
    BY DEF FreshInv, VerdictsHold, Snapshots, NoSnapshot
  <2>2. \A d \in v.snapshot.asOf + 1..v.checked - 2 : d # date
    BY <1>1, <2>1
  <2>3. \A q \in Sources, d \in v.snapshot.asOf + 1..v.checked - 2 : <<q, d>> \in released' <=> <<q, d>> \in released
    BY <1>1, <2>2
  <2>4. QED
    BY <2>3 DEF SupersededSites
<1>6. VerdictsHold'
  BY <1>1, <1>5 DEF FreshInv, VerdictsHold
<1>7. QED
  BY <1>1, <1>2, <1>4, <1>6 DEF FreshInv

LEMMA MidnightStep ==
  ASSUME FreshInv, Midnight
  PROVE  FreshInv'
<1>1. /\ date' = date + 1 /\ released' = released /\ file' = file /\ verdicts' = verdicts /\ run' = run
      /\ \A r \in Run : run[r].at = "verify" => run[r].started = date
  BY DEF Midnight
<1>2. date \in Nat /\ date' \in Nat /\ \A x \in Nat : x <= date => x <= date'
  BY <1>1 DEF FreshInv
<1>3. \A release \in released : release[2] <= date'
  BY <1>1, <1>2 DEF FreshInv
<1>4. ASSUME NEW r \in Run
      PROVE  Verifying(run[r], released, date')
  <2>1. Verifying(run[r], released, date)
    BY LocalOf
  <2>2. QED
    BY <1>1, <1>2, <2>1 DEF Verifying
<1>5. RunsKnown'
  BY <1>1, <1>4 DEF FreshInv, RunsKnown
<1>6. VerdictsHold'
  BY <1>1, <1>2 DEF FreshInv, VerdictsHold
<1>7. QED
  BY <1>1, <1>2, <1>3, <1>5, <1>6 DEF FreshInv

LEMMA IdleRunsKnown ==
  ASSUME NEW rel, NEW day
  PROVE  NoRun \in Local /\ Verifying(NoRun, rel, day)
BY DEF NoRun, Local, Snapshots, Verifying

LEMMA FreshStep == FreshInv /\ [NextFreshness]_freshnessVars => FreshInv'
<1> SUFFICES ASSUME FreshInv, [NextFreshness]_freshnessVars
             PROVE  FreshInv'
  OBVIOUS
<1>1. ASSUME NEW r \in Run, RunStep(r)
      PROVE  FreshInv'
  BY <1>1, LoadSteps, VerifyStep, CheckStep, GiveVerdictStep, EndRunStep DEF RunStep
<1>2. ASSUME NEW s \in Sources, Publish(s)
      PROVE  FreshInv'
  BY <1>2, PublishStep
<1>3. CASE Midnight
  BY <1>3, MidnightStep
<1>4. CASE Restart
  <2>1. /\ verdicts' = {} /\ run' = [r \in Run |-> NoRun]
        /\ date' = date /\ released' = released /\ file' = file
    BY <1>4 DEF Restart
  <2>2. RunsKnown'
    BY <2>1, IdleRunsKnown DEF RunsKnown, Local
  <2>3. VerdictsHold'
    BY <2>1 DEF VerdictsHold
  <2>4. QED
    BY <2>1, <2>2, <2>3 DEF FreshInv
<1>5. CASE UNCHANGED freshnessVars
  BY <1>5 DEF freshnessVars, FreshInv, RunsKnown, VerdictsHold
<1>6. QED
  BY <1>1, <1>2, <1>3, <1>4, <1>5 DEF NextFreshness

LEMMA FreshInit == InitFreshness => FreshInv
<1> SUFFICES ASSUME InitFreshness
             PROVE  FreshInv
  OBVIOUS
<1>1. date = 1 /\ released = {} /\ file = NoSnapshot /\ verdicts = {} /\ run = [r \in Run |-> NoRun]
  BY DEF InitFreshness
<1>2. RunsKnown
  BY <1>1, IdleRunsKnown DEF RunsKnown, Local
<1>3. VerdictsHold
  BY <1>1 DEF VerdictsHold
<1>4. IsFiniteSet(released)
  BY <1>1, FS_EmptySet
<1>5. QED
  BY <1>1, <1>2, <1>3, <1>4 DEF FreshInv, Snapshots

\* For any number of runs, sites and days, whatever is published and when, and
\* whichever pages fail: an overlay of a day comes from a snapshot that at most
\* the sites that may stay silent had superseded two days before
\* (snapshot_is_verified_current).
THEOREM OverlaysAreFresh == SpecFreshness => []OverlayIsFresh
<1>1. FreshInv => OverlayIsFresh
  <2> SUFFICES ASSUME FreshInv, NEW r \in Run, NEW end \in 1..date, Overlaid(r, end)
               PROVE  Cardinality({s \in Sources : \E day \in run[r].snapshot.asOf + 1..date - 2 : <<s, day>> \in released})
                        <= Cardinality(Sources) - Needed
    BY DEF OverlayIsFresh
  <2>1. PICK v \in verdicts : v.snapshot = run[r].snapshot /\ v.checked = date
    BY DEF Overlaid, VerifiedCurrent
  <2>2. Cardinality(SupersededSites(v.snapshot, v.checked, released)) <= Cardinality(Sources) - Needed
    BY DEF FreshInv, VerdictsHold
  <2>3. QED
    BY <2>1, <2>2 DEF SupersededSites
<1>2. QED
  BY <1>1, FreshInit, FreshStep, PTL DEF SpecFreshness

-----------------------------------------------------------------------------
(* Weekly and monthly bars. *)

PriceBar == [day : DOMAIN Calendar, open : Int, high : Int, low : Int, close : Int]

\* a series: bars in the order of their days
Series(bs) ==
    /\ bs \in Seq(PriceBar)
    /\ \A i, j \in DOMAIN bs : i < j => bs[i].day < bs[j].day

LEMMA SeriesFacts ==
  ASSUME NEW bs, Series(bs)
  PROVE  /\ Len(bs) \in Nat /\ DOMAIN bs = 1..Len(bs)
         /\ \A i \in 1..Len(bs) : bs[i].day \in DOMAIN Calendar
         /\ \A i, j \in 1..Len(bs) : i < j => bs[i].day < bs[j].day
         /\ DOMAIN Calendar \subseteq Nat
<1>1. \A i \in 1..Len(bs) : bs[i] \in PriceBar
  BY DEF Series
<1>2. Len(bs) \in Nat /\ DOMAIN bs = 1..Len(bs)
  BY DEF Series
<1>3. DOMAIN Calendar \subseteq Nat
  <2>1. Len(Calendar) \in Nat /\ DOMAIN Calendar = 1..Len(Calendar)
    BY CalendarAssumption
  <2>2. QED
    BY <2>1
<1>4. QED
  BY <1>1, <1>2, <1>3 DEF Series, PriceBar

LEMMA OpeningsAreNumbers ==
  ASSUME NEW bs, Series(bs), NEW frame
  PROVE  /\ Openings(bs, frame) \in SUBSET Nat /\ IsFiniteSet(Openings(bs, frame))
         /\ Openings(bs, frame) \subseteq 1..Len(bs)
<1>1. Openings(bs, frame) \subseteq 1..Len(bs) /\ Len(bs) \in Nat
  BY SeriesFacts DEF Openings
<1>2. IsFiniteSet(1..Len(bs))
  BY <1>1, FS_Interval
<1>3. QED
  BY <1>1, <1>2, FS_Subset

\* A period that is over after n bars ends there: the next bar begins another.
LEMMA OverIsOver ==
  ASSUME NEW bs, Series(bs), NEW n \in DOMAIN bs, n + 1 \in DOMAIN bs, NEW frame \in Frames,
         LatestComplete(bs[n].day, frame, bs[n].day)
  PROVE  n + 1 \in Openings(bs, frame)
<1> DEFINE d == bs[n].day
           e == bs[n + 1].day
<1>1. /\ Len(bs) \in Nat /\ n \in 1..Len(bs) /\ n + 1 \in 1..Len(bs)
      /\ (n + 1) - 1 = n /\ n + 1 # 1 /\ n < n + 1
  BY SeriesFacts
<1>2. d \in DOMAIN Calendar /\ e \in DOMAIN Calendar /\ d < e /\ d \in Nat /\ e \in Nat
  BY <1>1, SeriesFacts
<1> HIDE DEF d, e
<1>3. /\ Calendar[d] \in [week : Nat, weekday : 0..4, month : Nat]
      /\ Calendar[e] \in [week : Nat, weekday : 0..4, month : Nat]
  <2> DEFINE Dates == [week : Nat, weekday : 0..4, month : Nat]
  <2>1. Calendar \in Seq(Dates)
    BY CalendarAssumption
  <2> HIDE DEF Dates
  <2>2. Calendar[d] \in Dates /\ Calendar[e] \in Dates
    BY <1>2, <2>1
  <2>3. QED
    BY <2>2 DEF Dates
<1>4. \/ Calendar[d].week < Calendar[e].week
      \/ Calendar[d].week = Calendar[e].week /\ Calendar[d].weekday < Calendar[e].weekday
  BY <1>2, CalendarAssumption
<1>5. PeriodKey(e, frame) # PeriodKey(d, frame)
  <2>1. CASE frame = "daily"
    BY <1>2, <2>1 DEF PeriodKey
  <2>2. CASE frame = "weekly"
    <3>1. PeriodKey(d, frame) = Calendar[d].week /\ PeriodKey(e, frame) = Calendar[e].week
      BY <2>2 DEF PeriodKey
    <3>2. Calendar[d].weekday >= 4
      BY <1>3, <2>2, <3>1 DEF LatestComplete, d
    <3>3. QED
      BY <1>3, <1>4, <3>1, <3>2
  <2>3. CASE frame = "monthly"
    <3>1. PeriodKey(d, frame) = Calendar[d].month
      BY <2>3 DEF PeriodKey
    <3>2. ~LatestComplete(d, frame, d)
      BY <1>3, <2>3, <3>1 DEF LatestComplete
    <3>3. QED
      BY <3>2 DEF d
  <2>4. QED
    BY <2>1, <2>2, <2>3 DEF Frames
<1>6. QED
  BY <1>1, <1>5 DEF Openings, d, e

\* The days of a series rise, so its periods do.
LEMMA KeysRise ==
  ASSUME NEW bs, Series(bs), NEW frame \in Frames, NEW i \in 1..Len(bs), NEW j \in 1..Len(bs), i <= j
  PROVE  /\ PeriodKey(bs[i].day, frame) \in Nat /\ PeriodKey(bs[j].day, frame) \in Nat
         /\ PeriodKey(bs[i].day, frame) <= PeriodKey(bs[j].day, frame)
<1> DEFINE d == bs[i].day
           e == bs[j].day
           Dates == [week : Nat, weekday : 0..4, month : Nat]
<1>1. d \in DOMAIN Calendar /\ e \in DOMAIN Calendar /\ d \in Nat /\ e \in Nat /\ (d = e \/ d < e)
  BY SeriesFacts
<1> HIDE DEF d, e
<1>2. Calendar[d] \in Dates /\ Calendar[e] \in Dates
  <2>1. Calendar \in Seq(Dates)
    BY CalendarAssumption
  <2> HIDE DEF Dates
  <2>2. QED
    BY <1>1, <2>1
<1>3. Calendar[d].week <= Calendar[e].week /\ Calendar[d].month <= Calendar[e].month
  <2>1. Calendar[d].week \in Nat /\ Calendar[d].month \in Nat
        /\ Calendar[e].week \in Nat /\ Calendar[e].month \in Nat
    BY <1>2
  <2>2. CASE d = e
    BY <2>1, <2>2
  <2>3. CASE d < e
    <3>1. /\ Calendar[d].month <= Calendar[e].month
          /\ \/ Calendar[d].week < Calendar[e].week
             \/ Calendar[d].week = Calendar[e].week /\ Calendar[d].weekday < Calendar[e].weekday
      BY <1>1, <2>3, CalendarAssumption
    <3>2. QED
      BY <2>1, <3>1
  <2>4. QED
    BY <1>1, <2>2, <2>3
<1>4. PeriodKey(d, frame) \in Nat /\ PeriodKey(e, frame) \in Nat
      /\ PeriodKey(d, frame) <= PeriodKey(e, frame)
  BY <1>1, <1>2, <1>3 DEF PeriodKey, Frames
<1>5. QED
  BY <1>4 DEF d, e

\* The k-th period runs from the k-th opening to its closing: these are the bars of
\* its key, and behind them there are others unless it is the last one.
LEMMA PeriodRuns ==
  ASSUME NEW s, Series(s), NEW frame \in Frames, NEW k \in 1..Cardinality(Openings(s, frame))
  PROVE  LET F == Openings(s, frame)
             a == Ith(F, k)
             b == Closing(s, F, k)
         IN  /\ a \in 1..Len(s) /\ b \in 1..Len(s) /\ a <= b
             /\ \A i \in 1..Len(s) :
                  PeriodKey(s[i].day, frame) = PeriodKey(s[b].day, frame) <=> i \in a..b
             /\ k # Cardinality(F) => b < Len(s)
             /\ k = Cardinality(F) => b = Len(s)
<1> DEFINE F == Openings(s, frame)
           c == Cardinality(F)
           a == Ith(F, k)
           b == Closing(s, F, k)
           f == Ith(F, k + 1)
           n == Len(s)
           Key(i) == PeriodKey(s[i].day, frame)
           Upto(x) == {e \in F : e <= x}
<1>1. F \in SUBSET Nat /\ IsFiniteSet(F) /\ F \subseteq 1..n /\ n \in Nat /\ c \in Nat
  BY OpeningsAreNumbers, SeriesFacts, FS_CardinalityType
<1>2. a \in F /\ Cardinality(Upto(a)) = k
  BY <1>1, IthIsElement
<1>3. \A i, j \in 1..n : i <= j => Key(i) \in Nat /\ Key(j) \in Nat /\ Key(i) <= Key(j)
  BY KeysRise
<1>4. \A i \in 1..n : i \in F <=> i = 1 \/ Key(i) # Key(i - 1)
  BY SeriesFacts DEF Openings
<1>5. \A x : IsFiniteSet(Upto(x)) /\ Cardinality(Upto(x)) \in Nat /\ Cardinality(Upto(x)) <= c
  BY <1>1, FS_Subset, FS_CardinalityType
<1>6. \A x, y \in F : x < y => Cardinality(Upto(x)) < Cardinality(Upto(y))
  <2> SUFFICES ASSUME NEW x \in F, NEW y \in F, x < y
               PROVE  Cardinality(Upto(x)) < Cardinality(Upto(y))
    OBVIOUS
  <2>1. Cardinality(Upto(x)) # Cardinality(Upto(y))
    BY <1>1, CountsGrow
  <2>2. Upto(x) \subseteq Upto(y)
    BY <1>1
  <2>3. Cardinality(Upto(x)) <= Cardinality(Upto(y))
    BY <1>5, <2>2, FS_Subset
  <2>4. QED
    BY <1>5, <2>1, <2>3
<1> HIDE DEF F, c, a, Key, Upto, n
<1>7. /\ b \in 1..n /\ a <= b
      /\ \A e \in F : ~(a < e /\ e <= b)
      /\ b < n => b + 1 \in F
      /\ k # c => b < n
      /\ k = c => b = n
  <2>1. CASE k = c
    <3>1. b = n
      BY <2>1 DEF Closing, c, n
    <3>2. \A e \in F : ~(a < e)
      BY <1>2, <1>5, <1>6, <2>1
    <3>3. QED
      BY <1>1, <1>2, <2>1, <3>1, <3>2
  <2>2. CASE k # c
    <3>1. b = f - 1 /\ k + 1 \in 1..c
      <4>1. k \in 1..c
        BY DEF c, F
      <4>2. b = f - 1
        BY <2>2 DEF Closing, c
      <4>3. QED
        BY <1>1, <2>2, <4>1, <4>2
    <3>2. f \in F /\ Cardinality(Upto(f)) = k + 1
      <4>1. k + 1 \in 1..Cardinality(F)
        BY <3>1 DEF c
      <4>2. QED
        BY <1>1, <4>1, IthIsElement DEF Upto
    <3> HIDE DEF f
    <3>3. a < f
      <4>1. a # f
        BY <1>2, <3>2
      <4>2. ~(f < a)
        BY <1>2, <1>6, <3>2
      <4>3. QED
        BY <1>1, <1>2, <3>2, <4>1, <4>2
    <3>4. \A e \in F : ~(a < e /\ e < f)
      <4> SUFFICES ASSUME NEW e \in F, a < e, e < f
                   PROVE  FALSE
        OBVIOUS
      <4>1. k < Cardinality(Upto(e)) /\ Cardinality(Upto(e)) < k + 1
        BY <1>2, <1>6, <3>2
      <4>2. QED
        BY <1>5, <4>1
    <3>5. QED
      BY <1>1, <1>2, <2>2, <3>1, <3>2, <3>3, <3>4
  <2>3. QED
    BY <2>1, <2>2
<1> HIDE DEF b
<1>8. a \in 1..n
  BY <1>1, <1>2
<1>9. \A i \in a..b : Key(i) = Key(a)
  <2> DEFINE P == {i \in a..b : Key(i) = Key(a)}
  <2>1. a \in P
    BY <1>7, <1>8
  <2>2. ASSUME NEW i \in a..b - 1, i \in P
        PROVE  i + 1 \in P
    <3>1. i + 1 \in 1..n /\ i + 1 \in a..b /\ a < i + 1 /\ i + 1 # 1 /\ (i + 1) - 1 = i
          /\ i + 1 <= b
      BY <1>1, <1>7, <1>8
    <3>2. i + 1 \notin F
      BY <1>7, <3>1
    <3>3. Key(i + 1) = Key(i)
      BY <1>4, <3>1, <3>2
    <3>4. QED
      BY <2>2, <3>1, <3>3
  <2>3. a \in Nat /\ b \in Nat
    BY <1>1, <1>7, <1>8
  <2> HIDE DEF P
  <2>4. \A i \in a..b : i \in P
    BY <2>1, <2>2, <2>3, Along
  <2>5. QED
    BY <2>4 DEF P
<1>10. ASSUME NEW i \in 1..n, i < a
       PROVE  Key(i) < Key(a)
  <2>1. a - 1 \in 1..n /\ i <= a - 1 /\ a - 1 <= a /\ a # 1
    BY <1>1, <1>8, <1>10
  <2>2. Key(a - 1) # Key(a)
    BY <1>2, <1>4, <1>8, <2>1
  <2>3. Key(i) \in Nat /\ Key(a - 1) \in Nat /\ Key(a) \in Nat
        /\ Key(i) <= Key(a - 1) /\ Key(a - 1) <= Key(a)
    BY <1>3, <1>8, <2>1
  <2>4. QED
    BY <2>2, <2>3
<1>11. ASSUME NEW i \in 1..n, b < i
       PROVE  Key(b) < Key(i)
  <2>1. b + 1 \in 1..n /\ b + 1 <= i /\ b <= b + 1 /\ b + 1 # 1 /\ (b + 1) - 1 = b /\ b < n
    BY <1>1, <1>7, <1>11
  <2>2. Key(b + 1) # Key(b)
    BY <1>4, <1>7, <2>1
  <2>3. Key(b) \in Nat /\ Key(b + 1) \in Nat /\ Key(i) \in Nat
        /\ Key(b) <= Key(b + 1) /\ Key(b + 1) <= Key(i)
    BY <1>3, <1>7, <2>1
  <2>4. QED
    BY <2>2, <2>3
<1>12. \A i \in 1..n : Key(i) = Key(b) <=> i \in a..b
  <2> SUFFICES ASSUME NEW i \in 1..n
               PROVE  Key(i) = Key(b) <=> i \in a..b
    OBVIOUS
  <2>1. Key(a) = Key(b) /\ Key(a) \in Nat /\ Key(i) \in Nat /\ Key(b) \in Nat
    <3>1. b \in a..b /\ i <= i /\ a <= a
      BY <1>1, <1>7, <1>8
    <3>2. QED
      BY <1>3, <1>7, <1>8, <1>9, <3>1
  <2>2. CASE i \in a..b
    BY <1>9, <2>1, <2>2
  <2>3. CASE i < a
    BY <1>1, <1>8, <1>10, <2>1, <2>3
  <2>4. CASE b < i
    BY <1>1, <1>7, <1>11, <2>1, <2>4
  <2>5. QED
    BY <1>1, <1>7, <1>8, <2>2, <2>3, <2>4
<1>13. QED
  BY <1>7, <1>8, <1>12 DEF F, c, a, b, n, Key

\* Every bar lies in some period.
LEMMA PeriodOf ==
  ASSUME NEW s, Series(s), NEW frame \in Frames, NEW i \in 1..Len(s)
  PROVE  LET F == Openings(s, frame)
         IN  \E k \in 1..Cardinality(F) : i \in Ith(F, k)..Closing(s, F, k)
<1> DEFINE F == Openings(s, frame)
           c == Cardinality(F)
           U == {e \in F : e <= i}
           a == Max(U)
           k == Cardinality({e \in F : e <= a})
<1>1. F \in SUBSET Nat /\ IsFiniteSet(F) /\ F \subseteq 1..Len(s) /\ Len(s) \in Nat /\ c \in Nat
  BY OpeningsAreNumbers, SeriesFacts, FS_CardinalityType
<1>2. 1 \in U
  BY <1>1, SeriesFacts DEF Openings
<1>3. a \in U /\ \A y \in U : y <= a
  <2>1. U \in SUBSET Nat /\ U # {} /\ i \in Nat /\ \A y \in U : y <= i
    BY <1>1, <1>2
  <2> HIDE DEF U
  <2>2. QED
    BY <2>1, MaxOfNumbers
<1> HIDE DEF a
<1>4. a \in F /\ a <= i /\ a \in Nat
  BY <1>1, <1>3
<1>5. {e \in F : e <= a} \in SUBSET F /\ a \in {e \in F : e <= a}
  BY <1>4
<1>6. k \in 1..c
  <2>1. IsFiniteSet({e \in F : e <= a}) /\ k \in Nat /\ k <= c
    BY <1>1, <1>5, FS_Subset, FS_CardinalityType
  <2>2. k # 0
    BY <1>5, <2>1, FS_EmptySet
  <2>3. QED
    BY <1>1, <2>1, <2>2
<1>7. Ith(F, k) = a
  BY <1>1, <1>4, IthIs
<1> HIDE DEF k, F
<1>8. i <= Closing(s, F, k)
  <2>1. CASE k = c
    BY <1>1, <2>1 DEF Closing
  <2>2. CASE k # c
    <3> DEFINE f == Ith(F, k + 1)
    <3>1. k + 1 \in 1..c /\ Closing(s, F, k) = f - 1 /\ k \in Nat
      BY <1>1, <1>6, <2>2 DEF Closing
    <3>2. f \in F /\ Cardinality({e \in F : e <= f}) = k + 1
      BY <1>1, <3>1, IthIsElement
    <3> HIDE DEF f
    <3>3. f \in Nat
      BY <1>1, <3>2
    <3>4. ~(f <= a)
      <4> SUFFICES ASSUME f <= a
                   PROVE  FALSE
        OBVIOUS
      <4>1. {e \in F : e <= f} \in SUBSET {e \in F : e <= a}
        <5>1. \A e \in F : e \in Nat
          BY <1>1
        <5>2. \A e \in Nat : e <= f => e <= a
          BY <1>4, <3>3
        <5>3. QED
          BY <5>1, <5>2
      <4>2. IsFiniteSet({e \in F : e <= a})
        BY <1>1, <1>5, FS_Subset
      <4>3. Cardinality({e \in F : e <= f}) <= Cardinality({e \in F : e <= a})
        BY <4>1, <4>2, FS_Subset
      <4>4. QED
        BY <3>1, <3>2, <4>3 DEF k
    <3>5. f \notin U
      BY <1>3, <3>4
    <3>6. QED
      BY <1>1, <3>1, <3>2, <3>3, <3>5
  <2>3. QED
    BY <2>1, <2>2
<1>9. i \in Ith(F, k)..Closing(s, F, k)
  <2>1. Closing(s, F, k) \in Int
    BY <1>1, <1>6, PeriodRuns DEF F
  <2>2. QED
    BY <1>1, <1>4, <1>7, <1>8, <2>1
<1>10. QED
  BY <1>6, <1>9 DEF F

\* The bars of a period, wherever a series has them, and the bar they make.
PeriodBars(s, frame, key) ==
    {x \in {s[i] : i \in 1..Len(s)} : PeriodKey(x.day, frame) = key}
Makes(B, bar) ==
    \E f, l \in B :
        /\ \A x \in B : f.day <= x.day /\ x.day <= l.day
        /\ bar = [day |-> l.day, open |-> f.open, close |-> l.close,
                  high |-> Max({x.high : x \in B}), low |-> Min({x.low : x \in B})]

BarOf(s, frame, k) ==
    Merge(s, Ith(Openings(s, frame), k), Closing(s, Openings(s, frame), k))

LEMMA BarIsMade ==
  ASSUME NEW s, Series(s), NEW frame \in Frames, NEW k \in 1..Cardinality(Openings(s, frame))
  PROVE  LET bar == BarOf(s, frame, k)
         IN  /\ bar.day = s[Closing(s, Openings(s, frame), k)].day
             /\ Makes(PeriodBars(s, frame, PeriodKey(bar.day, frame)), bar)
<1> DEFINE F == Openings(s, frame)
           a == Ith(F, k)
           b == Closing(s, F, k)
           bar == BarOf(s, frame, k)
           B == PeriodBars(s, frame, PeriodKey(bar.day, frame))
<1>1. /\ a \in 1..Len(s) /\ b \in 1..Len(s) /\ a <= b
      /\ \A i \in 1..Len(s) :
           PeriodKey(s[i].day, frame) = PeriodKey(s[b].day, frame) <=> i \in a..b
  BY PeriodRuns
<1>2. bar = [day |-> s[b].day, open |-> s[a].open, close |-> s[b].close,
             high |-> Max({s[i].high : i \in a..b}), low |-> Min({s[i].low : i \in a..b})]
  BY DEF BarOf, Merge
<1>3. bar.day = s[b].day
  BY <1>2
<1> HIDE DEF bar, a, b
<1>4. Len(s) \in Nat /\ \A i, j \in 1..Len(s) : i < j => s[i].day < s[j].day
  BY SeriesFacts
<1>5. B = {s[i] : i \in a..b}
  <2>1. \A i \in a..b : i \in 1..Len(s)
    BY <1>1, <1>4
  <2>2. \A i \in a..b : s[i] \in B
    BY <1>1, <1>3, <2>1 DEF PeriodBars
  <2>3. \A x \in B : \E i \in a..b : x = s[i]
    BY <1>1, <1>3 DEF PeriodBars
  <2>4. QED
    BY <2>2, <2>3
<1> HIDE DEF B
<1>6. {x.high : x \in B} = {s[i].high : i \in a..b} /\ {x.low : x \in B} = {s[i].low : i \in a..b}
  BY <1>5
<1>7. s[a] \in B /\ s[b] \in B
  <2>1. a \in a..b /\ b \in a..b
    BY <1>1, <1>4
  <2>2. QED
    BY <1>5, <2>1
<1>8. \A x \in B : s[a].day <= x.day /\ x.day <= s[b].day
  <2> SUFFICES ASSUME NEW i \in a..b
               PROVE  s[a].day <= s[i].day /\ s[i].day <= s[b].day
    BY <1>5
  <2>1. i \in 1..Len(s) /\ (a = i \/ a < i) /\ (i = b \/ i < b)
    BY <1>1, <1>4
  <2>2. s[a].day \in Nat /\ s[i].day \in Nat /\ s[b].day \in Nat
    BY <1>1, <2>1, SeriesFacts
  <2>3. s[a].day <= s[i].day
    BY <1>1, <1>4, <2>1, <2>2
  <2>4. s[i].day <= s[b].day
    BY <1>1, <1>4, <2>1, <2>2
  <2>5. QED
    BY <2>3, <2>4
<1>9. Makes(B, bar)
  BY <1>2, <1>6, <1>7, <1>8 DEF Makes
<1>10. QED
  BY <1>3, <1>9 DEF bar, B, b

\* The bars of one series make one bar.
LEMMA OneIsMade ==
  ASSUME NEW bs, Series(bs), NEW B \in SUBSET {bs[i] : i \in 1..Len(bs)},
         NEW x, Makes(B, x), NEW y, Makes(B, y)
  PROVE  x = y
<1>1. PICK f, l \in B :
        /\ \A z \in B : f.day <= z.day /\ z.day <= l.day
        /\ x = [day |-> l.day, open |-> f.open, close |-> l.close,
                high |-> Max({z.high : z \in B}), low |-> Min({z.low : z \in B})]
  BY DEF Makes
<1>2. PICK g, m \in B :
        /\ \A z \in B : g.day <= z.day /\ z.day <= m.day
        /\ y = [day |-> m.day, open |-> g.open, close |-> m.close,
                high |-> Max({z.high : z \in B}), low |-> Min({z.low : z \in B})]
  BY DEF Makes
<1>3. \A u, v \in B : u.day \in Nat /\ v.day \in Nat /\ (u.day = v.day => u = v)
  <2> SUFFICES ASSUME NEW i \in 1..Len(bs), NEW j \in 1..Len(bs)
               PROVE  /\ bs[i].day \in Nat /\ bs[j].day \in Nat
                      /\ bs[i].day = bs[j].day => bs[i] = bs[j]
    OBVIOUS
  <2>1. i < j \/ j < i \/ i = j
    BY SeriesFacts
  <2>2. QED
    BY <2>1, SeriesFacts
<1>4. f = g /\ l = m
  <2>1. f.day = g.day /\ l.day = m.day
    BY <1>1, <1>2, <1>3
  <2>2. QED
    BY <1>3, <2>1
<1>5. QED
  BY <1>1, <1>2, <1>4

\* A window of a series is a series.
LEMMA WindowIsSeries ==
  ASSUME NEW bs, Series(bs), NEW n \in 1..Len(bs), NEW lo \in 1..n
  PROVE  LET s == SubSeq(bs, lo, n)
         IN  /\ Series(s) /\ Len(s) = n - lo + 1 /\ s # <<>>
             /\ \A i \in 1..Len(s) : lo + i - 1 \in lo..n /\ s[i] = bs[lo + i - 1]
             /\ Head(s) = bs[lo] /\ Last(s) = bs[n]
<1> DEFINE s == SubSeq(bs, lo, n)
<1>1. bs \in Seq(PriceBar) /\ Len(bs) \in Nat /\ \A i, j \in 1..Len(bs) : i < j => bs[i].day < bs[j].day
  BY SeriesFacts DEF Series
<1>2. lo \in Nat /\ n \in Nat /\ lo <= n /\ n <= Len(bs) /\ 1 <= lo
  BY <1>1
<1>3. /\ s \in Seq(PriceBar) /\ Len(s) = n - lo + 1 /\ DOMAIN s = 1..(n - lo + 1)
      /\ \A i \in 1..(n - lo + 1) : s[i] = bs[lo + i - 1]
  <2> DEFINE R == PriceBar
  <2> HIDE DEF R
  <2>1. bs \in Seq(R)
    BY <1>1 DEF R
  <2>2. /\ s \in Seq(R) /\ Len(s) = n - lo + 1 /\ DOMAIN s = 1..(n - lo + 1)
        /\ \A i \in 1..(n - lo + 1) : s[i] = bs[lo + i - 1]
    BY <1>2, <2>1
  <2>3. QED
    BY <2>2 DEF R
<1> HIDE DEF s
<1>4. \A i \in 1..(n - lo + 1) : lo + i - 1 \in lo..n /\ lo + i - 1 \in 1..Len(bs)
  BY <1>2
<1>5. Series(s)
  <2> SUFFICES ASSUME NEW i \in DOMAIN s, NEW j \in DOMAIN s, i < j
               PROVE  s[i].day < s[j].day
    BY <1>3 DEF Series
  <2>1. i \in 1..(n - lo + 1) /\ j \in 1..(n - lo + 1) /\ lo + i - 1 < lo + j - 1
    BY <1>2, <1>3
  <2>2. QED
    BY <1>1, <1>3, <1>4, <2>1
<1>6. Head(s) = bs[lo] /\ Last(s) = bs[n] /\ s # <<>>
  <2>1. 1 \in 1..(n - lo + 1) /\ n - lo + 1 \in 1..(n - lo + 1)
        /\ lo + 1 - 1 = lo /\ lo + (n - lo + 1) - 1 = n
    BY <1>2
  <2>2. s[1] = bs[lo] /\ s[Len(s)] = bs[n]
    BY <1>3, <2>1
  <2>3. s # <<>>
    BY <1>3, <2>1
  <2>4. QED
    BY <1>3, <2>2, <2>3 DEF Last
<1>7. QED
  BY <1>3, <1>4, <1>5, <1>6 DEF s

\* What an analysis decides by: the bar of every period but the last, which it takes
\* when it is over, or when there is no other.
LEMMA DecidedBy ==
  ASSUME NEW s, Series(s), NEW frame \in Frames
  PROVE  LET c == Cardinality(Openings(s, frame))
             over == LatestComplete(Last(s).day, frame, Last(s).day)
             used == Range(DecisionBars(s, frame))
         IN  /\ \A bar \in used : \E k \in 1..c : bar = BarOf(s, frame, k) /\ (k = c => over \/ c = 1)
             /\ \A k \in 1..c : k # c => BarOf(s, frame, k) \in used
<1> DEFINE c == Cardinality(Openings(s, frame))
           over == LatestComplete(Last(s).day, frame, Last(s).day)
           all == [k \in 1..c |-> BarOf(s, frame, k)]
           built == AggregateBars(s, frame, Last(s).day)
           used == DecisionBars(s, frame)
<1>1. c \in Nat
  BY OpeningsAreNumbers, FS_CardinalityType
<1>2. built.bars = all /\ built.complete = over
  BY DEF AggregateBars, BarOf
<1>3. used = IF ~built.complete /\ Len(built.bars) > 1 THEN Front(built.bars) ELSE built.bars
  BY DEF DecisionBars
<1> HIDE DEF built, over, used, c
<1>4. Len(all) = c /\ DOMAIN all = 1..c
  BY <1>1
<1>5. CASE over \/ c <= 1
  <2>1. used = all
    BY <1>1, <1>2, <1>3, <1>4, <1>5
  <2>2. DOMAIN used = 1..c /\ \A k \in 1..c : used[k] = BarOf(s, frame, k)
    BY <2>1
  <2>3. \A k \in 1..c : k = c => over \/ c = 1
    BY <1>1, <1>5
  <2>4. QED
    BY <2>2, <2>3 DEF Range, c, over, used
<1>6. CASE ~over /\ c > 1
  <2>1. used = Front(all)
    BY <1>2, <1>3, <1>4, <1>6
  <2>2. used = SubSeq(all, 1, c - 1)
    BY <1>4, <2>1 DEF Front
  <2>3. DOMAIN used = 1..c - 1 /\ \A k \in 1..c - 1 : used[k] = BarOf(s, frame, k)
    BY <1>1, <1>6, <2>2
  <2>4. \A k \in 1..c : (k # c <=> k \in 1..c - 1)
    BY <1>1
  <2>5. \A k \in 1..c - 1 : k \in 1..c /\ k # c
    BY <1>1
  <2>6. QED
    BY <2>3, <2>4, <2>5 DEF Range, c, over, used
<1>7. QED
  BY <1>1, <1>5, <1>6

\* A bar of a whole period that the window lo..n of an analysis made is made again in
\* a window of a later one, as long as that window holds the period whole.
LEMMA UsedAgain ==
  ASSUME NEW bs, Series(bs), NEW frame \in Frames,
         NEW n \in 1..Len(bs), NEW lo \in 1..n, NEW m \in 1..Len(bs), NEW lo2 \in 1..m, n < m,
         NEW bar \in WholeBars(SubSeq(bs, lo, n), frame),
         PeriodKey(bar.day, frame) > PeriodKey(Head(SubSeq(bs, lo2, m)).day, frame)
  PROVE  bar \in WholeBars(SubSeq(bs, lo2, m), frame)
<1> DEFINE s == SubSeq(bs, lo, n)
           t == SubSeq(bs, lo2, m)
           Key(i) == PeriodKey(bs[i].day, frame)
           key == PeriodKey(bar.day, frame)
           c == Cardinality(Openings(s, frame))
           d == Cardinality(Openings(t, frame))
           over == LatestComplete(Last(s).day, frame, Last(s).day)
<1>1. /\ Series(s) /\ Len(s) = n - lo + 1 /\ Head(s) = bs[lo] /\ Last(s) = bs[n]
      /\ \A i \in 1..Len(s) : lo + i - 1 \in lo..n /\ s[i] = bs[lo + i - 1]
  BY WindowIsSeries
<1>2. /\ Series(t) /\ Len(t) = m - lo2 + 1 /\ Head(t) = bs[lo2] /\ Last(t) = bs[m]
      /\ \A i \in 1..Len(t) : lo2 + i - 1 \in lo2..m /\ t[i] = bs[lo2 + i - 1]
  BY WindowIsSeries
<1>3. /\ bar \in Range(DecisionBars(s, frame)) /\ key > PeriodKey(Head(s).day, frame)
      /\ key > PeriodKey(Head(t).day, frame)
  BY DEF WholeBars
<1> HIDE DEF s, t
<1>4. key > Key(lo) /\ key > Key(lo2)
  BY <1>1, <1>2, <1>3
<1>5. /\ Len(bs) \in Nat /\ n \in Nat /\ m \in Nat /\ lo \in Nat /\ lo2 \in Nat
      /\ 1 <= lo /\ lo <= n /\ n <= Len(bs) /\ 1 <= lo2 /\ lo2 <= m /\ m <= Len(bs)
  BY SeriesFacts
<1>6. \A i, j \in 1..Len(bs) : i <= j => Key(i) \in Nat /\ Key(j) \in Nat /\ Key(i) <= Key(j)
  BY KeysRise
<1>7. PICK k \in 1..c : bar = BarOf(s, frame, k) /\ (k = c => over \/ c = 1)
  BY <1>1, <1>3, DecidedBy
<1> DEFINE a == Ith(Openings(s, frame), k)
           b == Closing(s, Openings(s, frame), k)
           e == lo + b - 1
<1>8. /\ bar.day = s[b].day /\ Makes(PeriodBars(s, frame, key), bar)
      /\ b \in 1..Len(s)
      /\ \A i \in 1..Len(s) :
           PeriodKey(s[i].day, frame) = PeriodKey(s[b].day, frame) <=> i \in a..b
      /\ k # c => b < Len(s)
      /\ k = c => b = Len(s)
  BY <1>1, <1>7, BarIsMade, PeriodRuns
<1> HIDE DEF a, b
<1>9. e \in lo..n /\ key = Key(e) /\ e \in 1..Len(bs) /\ s[b] = bs[e]
  <2>1. e \in lo..n /\ s[b] = bs[e]
    BY <1>1, <1>8
  <2>2. QED
    BY <1>5, <1>8, <2>1
<1>10. /\ e \in Int /\ b \in Int /\ (b = Len(s) => e = n) /\ (b < Len(s) => e < n) /\ lo + b = e + 1
  BY <1>1, <1>5, <1>8
<1> HIDE DEF e, key, Key
<1>11. Key(n + 1) > key /\ n + 1 \in 1..Len(bs)
  <2>1. n + 1 \in 1..Len(bs) /\ e <= n + 1
    BY <1>5, <1>9, <1>10
  <2>2. Key(e) \in Nat /\ Key(n + 1) \in Nat /\ Key(e) <= Key(n + 1)
    BY <1>6, <1>9, <2>1
  <2>3. CASE k # c
    <3>1. b + 1 \in 1..Len(s) /\ b + 1 \notin a..b
      <4>1. b < Len(s) /\ Len(s) \in Nat /\ b \in 1..Len(s)
        BY <1>1, <1>5, <1>8, <2>3
      <4>2. QED
        BY <4>1
    <3>2. PeriodKey(s[b + 1].day, frame) # PeriodKey(s[b].day, frame)
      BY <1>8, <3>1
    <3>3. s[b + 1] = bs[e + 1] /\ e + 1 \in lo..n
      <4>1. lo + (b + 1) - 1 = e + 1
        BY <1>5, <1>10
      <4>2. lo + (b + 1) - 1 \in lo..n /\ s[b + 1] = bs[lo + (b + 1) - 1]
        BY <1>1, <3>1
      <4>3. QED
        BY <4>1, <4>2
    <3>4. Key(e + 1) # Key(e)
      BY <1>9, <3>2, <3>3 DEF Key
    <3>5. e + 1 \in 1..Len(bs) /\ e <= e + 1 /\ e + 1 <= n + 1
      BY <1>5, <1>10, <3>3
    <3>6. Key(e + 1) \in Nat /\ Key(e) <= Key(e + 1) /\ Key(e + 1) <= Key(n + 1)
      BY <1>6, <1>9, <2>1, <3>5
    <3>7. QED
      BY <1>9, <2>1, <2>2, <3>4, <3>6
  <2>4. CASE k = c /\ over
    <3>1. e = n
      BY <1>8, <1>10, <2>4
    <3>2. n + 1 \in Openings(bs, frame)
      <4>1. n \in DOMAIN bs /\ n + 1 \in DOMAIN bs
        BY <1>5, <2>1, SeriesFacts
      <4>2. LatestComplete(bs[n].day, frame, bs[n].day)
        BY <1>1, <2>4 DEF over
      <4>3. QED
        BY <4>1, <4>2, OverIsOver
    <3>3. Key(n + 1) # Key(n)
      <4>1. n + 1 # 1 /\ (n + 1) - 1 = n
        BY <1>5
      <4>2. QED
        BY <3>2, <4>1 DEF Openings, Key
    <3>4. QED
      BY <1>9, <2>1, <2>2, <3>1, <3>3
  <2>5. CASE k = c /\ c = 1
    <3>1. 1 \in 1..Len(s)
      BY <1>1, <1>5
    <3>2. PICK j \in 1..c : 1 \in Ith(Openings(s, frame), j)..Closing(s, Openings(s, frame), j)
      BY <1>1, <3>1, PeriodOf
    <3>3. j = k
      BY <2>5, <3>2
    <3>4. 1 \in a..b
      BY <3>2, <3>3 DEF a, b
    <3>5. PeriodKey(s[1].day, frame) = PeriodKey(s[b].day, frame)
      BY <1>8, <3>1, <3>4
    <3>6. s[1] = bs[lo]
      <4>1. lo + 1 - 1 = lo
        BY <1>5
      <4>2. QED
        BY <1>1, <3>1, <4>1
    <3>7. Key(lo) = Key(e)
      BY <1>9, <3>5, <3>6 DEF Key
    <3>8. QED
      BY <1>4, <1>9, <2>2, <3>7
  <2>6. QED
    BY <1>7, <2>3, <2>4, <2>5
<1>12. \A i \in 1..Len(bs) : Key(i) = key => i \in lo..n /\ i \in lo2..m
  <2> SUFFICES ASSUME NEW i \in 1..Len(bs), Key(i) = key
               PROVE  lo <= i /\ i <= n /\ lo2 <= i /\ i <= m
    BY <1>5
  <2>1. lo \in 1..Len(bs) /\ lo2 \in 1..Len(bs) /\ i \in Nat
    BY <1>5
  <2>2. ~(i <= lo) /\ ~(i <= lo2)
    BY <1>4, <1>6, <2>1
  <2>3. ~(n + 1 <= i)
    BY <1>6, <1>11
  <2>4. QED
    BY <1>5, <2>1, <2>2, <2>3
<1>13. PeriodBars(s, frame, key) = PeriodBars(bs, frame, key)
  <2>1. \A i \in 1..Len(s) : lo + i - 1 \in 1..Len(bs) /\ s[i] = bs[lo + i - 1]
    BY <1>1, <1>5
  <2>2. ASSUME NEW i \in lo..n
        PROVE  i - lo + 1 \in 1..Len(s) /\ s[i - lo + 1] = bs[i]
    <3>1. i - lo + 1 \in 1..Len(s) /\ lo + (i - lo + 1) - 1 = i
      BY <1>1, <1>5
    <3>2. QED
      BY <1>1, <3>1
  <2>3. PeriodBars(s, frame, key) \subseteq PeriodBars(bs, frame, key)
    BY <2>1 DEF PeriodBars
  <2>4. ASSUME NEW i \in 1..Len(bs), PeriodKey(bs[i].day, frame) = key
        PROVE  bs[i] \in PeriodBars(s, frame, key)
    <3>1. i \in lo..n
      BY <1>12, <2>4 DEF Key
    <3>2. QED
      BY <2>2, <2>4, <3>1 DEF PeriodBars
  <2>5. QED
    BY <2>3, <2>4 DEF PeriodBars
<1>14. PeriodBars(t, frame, key) = PeriodBars(bs, frame, key)
  <2>1. \A i \in 1..Len(t) : lo2 + i - 1 \in 1..Len(bs) /\ t[i] = bs[lo2 + i - 1]
    BY <1>2, <1>5
  <2>2. ASSUME NEW i \in lo2..m
        PROVE  i - lo2 + 1 \in 1..Len(t) /\ t[i - lo2 + 1] = bs[i]
    <3>1. i - lo2 + 1 \in 1..Len(t) /\ lo2 + (i - lo2 + 1) - 1 = i
      BY <1>2, <1>5
    <3>2. QED
      BY <1>2, <3>1
  <2>3. PeriodBars(t, frame, key) \subseteq PeriodBars(bs, frame, key)
    BY <2>1 DEF PeriodBars
  <2>4. ASSUME NEW i \in 1..Len(bs), PeriodKey(bs[i].day, frame) = key
        PROVE  bs[i] \in PeriodBars(t, frame, key)
    <3>1. i \in lo2..m
      BY <1>12, <2>4 DEF Key
    <3>2. QED
      BY <2>2, <2>4, <3>1 DEF PeriodBars
  <2>5. QED
    BY <2>3, <2>4 DEF PeriodBars
<1> DEFINE g == e - lo2 + 1
<1>15. g \in 1..Len(t) /\ t[g] = bs[e]
  <2>1. e \in lo2..m
    BY <1>9, <1>12
  <2>2. g \in 1..Len(t) /\ lo2 + g - 1 = e
    BY <1>2, <1>5, <1>10, <2>1
  <2>3. QED
    BY <1>2, <2>2
<1> HIDE DEF g
<1>16. PICK j \in 1..d : g \in Ith(Openings(t, frame), j)..Closing(t, Openings(t, frame), j)
  BY <1>2, <1>15, PeriodOf
<1> DEFINE h == Closing(t, Openings(t, frame), j)
           again == BarOf(t, frame, j)
<1>17. /\ again.day = t[h].day /\ Makes(PeriodBars(t, frame, PeriodKey(again.day, frame)), again)
       /\ PeriodKey(t[g].day, frame) = PeriodKey(t[h].day, frame)
       /\ j = d => h = Len(t)
  BY <1>2, <1>15, <1>16, BarIsMade, PeriodRuns
<1> HIDE DEF h, again
<1>18. PeriodKey(again.day, frame) = key
  BY <1>9, <1>15, <1>17 DEF Key
<1>19. again = bar
  <2> DEFINE B == PeriodBars(bs, frame, key)
  <2>1. B \in SUBSET {bs[i] : i \in 1..Len(bs)}
    BY DEF PeriodBars
  <2>2. Makes(B, again) /\ Makes(B, bar)
    BY <1>8, <1>13, <1>14, <1>17, <1>18
  <2> HIDE DEF B
  <2>3. QED
    BY <2>1, <2>2, OneIsMade
<1>20. j # d
  <2> SUFFICES ASSUME j = d
               PROVE  FALSE
    OBVIOUS
  <2>1. t[h] = bs[m]
    BY <1>2, <1>17 DEF Last
  <2>2. Key(m) = key
    BY <1>17, <1>18, <2>1 DEF Key
  <2>3. n + 1 <= m
    BY <1>5
  <2>4. QED
    BY <1>5, <1>6, <1>11, <2>2, <2>3
<1>21. again \in Range(DecisionBars(t, frame))
  BY <1>2, <1>20, DecidedBy DEF again
<1>22. QED
  BY <1>3, <1>19, <1>21 DEF WholeBars, t, key

-----------------------------------------------------------------------------
(* Screening. *)

\* No flag of a frame, no blocking phase: the phases that block a step of the
\* path are those of the flags.
LEMMA FlagsBlock ==
  ASSUME NEW frame, NEW f, f.phase = Phase(f.relation, f.zone, f.cross, f, f.goldens),
         FlagsOf(frame, f) = {}
  PROVE  f.phase \notin {"second_top_risk", "repeated_cross_weakening"}
<1>1. <<frame, "divergence">> \notin FlagsOf(frame, f) /\ <<frame, "double_top">> \notin FlagsOf(frame, f)
      /\ <<frame, "weakening">> \notin FlagsOf(frame, f)
  OBVIOUS
<1>2. ~f.divergence
  BY <1>1 DEF FlagsOf
<1>3. ~f.doubleTop
  BY <1>1 DEF FlagsOf
<1>4. ~(f.goldens >= 2 /\ f.relation = "below_signal")
  BY <1>1 DEF FlagsOf
<1>5. QED
  BY <1>2, <1>3, <1>4 DEF Phase

\* When a moment is an entry, and what flags make of it.
LEMMA TimingIs ==
  ASSUME NEW direction, NEW wr, NEW flags
  PROVE  LET action == TimingDecision(direction, wr, flags).action
         IN  /\ action = "entry_watch" => direction = "bullish" /\ flags = {}
             /\ direction = "insufficient" => action = "insufficient"
             /\ direction # "insufficient" /\ flags # {} => action \in {"exit_watch", "risk_watch"}
<1> DEFINE overbought == "overbought" \in {wr["daily"].zone, wr["weekly"].zone}
           action == TimingDecision(direction, wr, flags).action
<1>1. \A a, n : Decision(a, n).action = a
  BY DEF Decision
<1>2. CASE direction = "insufficient"
  <2>1. action = "insufficient"
    BY <1>1, <1>2 DEF TimingDecision
  <2>2. QED
    BY <1>2, <2>1
<1>3. CASE direction # "insufficient" /\ flags # {}
  <2>1. action \in {"exit_watch", "risk_watch"}
    BY <1>1, <1>3 DEF TimingDecision
  <2>2. QED
    BY <1>3, <2>1
<1>4. CASE direction # "insufficient" /\ flags = {}
  <2>1. action = "entry_watch" => direction = "bullish"
    BY <1>1, <1>4 DEF TimingDecision
  <2>2. QED
    BY <1>4, <2>1
<1>5. QED
  BY <1>2, <1>3, <1>4

\* What is known of an analysis.
Analysed(a) ==
    /\ a.timing.action = "entry_watch" => a.direction = "bullish" /\ a.flags = {}
    /\ a.direction = "insufficient" => a.timing.action = "insufficient"
    /\ a.direction # "insufficient" /\ a.flags # {} => a.timing.action \in {"exit_watch", "risk_watch"}
    /\ a.timing.action = "entry_watch" => \A step \in DOMAIN a.path : a.path[step] # "block"

LEMMA ObservedIs ==
  ASSUME NEW m \in Months, NEW w \in Weeks, NEW d \in Days, NEW waves
  PROVE  Analysed(Observed(m, w, d, waves))
<1> DEFINE macd == [monthly |-> m, weekly |-> w, daily |-> d]
           direction == ResolveDirection(macd)
           flags == RiskFlags(macd)
           timing == TimingDecision(direction, waves, flags)
           path == DecisionPath(direction, macd, flags, timing)
           a == Observed(m, w, d, waves)
<1>1. a.direction = direction /\ a.flags = flags /\ a.timing = timing /\ a.path = path
  BY DEF Observed, Decide
<1>2. /\ timing.action = "entry_watch" => direction = "bullish" /\ flags = {}
      /\ direction = "insufficient" => timing.action = "insufficient"
      /\ direction # "insufficient" /\ flags # {} => timing.action \in {"exit_watch", "risk_watch"}
  BY TimingIs
<1>3. ASSUME timing.action = "entry_watch"
      PROVE  \A step \in DOMAIN path : path[step] # "block"
  <2>1. direction = "bullish" /\ flags = {}
    BY <1>2, <1>3
  <2>2. macd["weekly"] = w /\ FlagsOf("weekly", macd["weekly"]) = {}
    BY <2>1 DEF RiskFlags
  <2>3. w.phase \notin {"second_top_risk", "repeated_cross_weakening"}
    BY <2>2, FlagsBlock, FramesAssumption
  <2> HIDE DEF direction, flags, timing, macd
  <2>4. path.monthly = "satisfied" /\ path.top = "satisfied" /\ path.wr = "satisfied" /\ path.final = "satisfied"
    BY <1>3, <2>1 DEF DecisionPath
  <2>5. path.weekly # "block"
    BY <2>2, <2>3 DEF DecisionPath
  <2>6. DOMAIN path = {"monthly", "weekly", "top", "wr", "final"}
    BY DEF DecisionPath
  <2> HIDE DEF path
  <2>7. QED
    BY <2>4, <2>5, <2>6
<1> HIDE DEF direction, flags, timing, path, a
<1>4. QED
  BY <1>1, <1>2, <1>3 DEF Analysed, a

\* The gate is open only for a bullish security in a bullish market.
LEMMA GateIs ==
  ASSUME NEW direction, NEW benchmark, NEW proxy, MarketConfluence(direction, benchmark, proxy).gate
  PROVE  direction = "bullish" /\ benchmark = "bullish" /\ proxy \in {"bullish", NotLoaded}
<1>1. \A s, n, g : Confluence(s, n, g).gate = g
  BY DEF Confluence
<1>2. benchmark # Unavailable
  BY <1>1 DEF MarketConfluence, Unavailable
<1>3. ~(direction = "bullish" /\ benchmark \notin {"bullish", Unavailable})
  BY <1>1, <1>2 DEF MarketConfluence
<1>4. direction = "bullish" /\ benchmark = "bullish"
  BY <1>1, <1>2, <1>3 DEF MarketConfluence, Unavailable
<1>5. proxy # Unavailable /\ (proxy = NotLoaded \/ proxy = "bullish")
  <2>1. CASE proxy = NotLoaded
    BY <2>1 DEF NotLoaded, Unavailable
  <2>2. CASE proxy # NotLoaded
    BY <1>1, <1>4, <2>2 DEF MarketConfluence, Unavailable, NotLoaded
  <2>3. QED
    BY <2>1, <2>2
<1>6. QED
  BY <1>4, <1>5

\* What the advice says of a moment.
LEMMA ActionIs ==
  ASSUME NEW a, NEW holding, NEW gate
  PROVE  LET action == ActionFor(a, holding, gate)
         IN  /\ action \in {"buy", "add"} => a.timing.action = "entry_watch" /\ gate
             /\ a.timing.action \in {"exit_watch", "risk_watch"} => action \in {"sell", "reduce", "avoid"}
             /\ a.timing.action \notin {"entry_watch", "exit_watch", "risk_watch"} =>
                  action \in (IF a.direction = "bearish" THEN {"reduce", "avoid"} ELSE {"hold", "wait"})
BY DEF ActionFor

ScreenInv ==
    /\ Analysed(case.analysis)
    /\ advice = Advise(case, sector)
    /\ listed = "candidate" => PlatformAllowed(case, advice)

LEMMA ScreenInit == InitScreening => ScreenInv
<1> SUFFICES ASSUME InitScreening
             PROVE  ScreenInv
  OBVIOUS
<1>1. PICK m \in Months, w \in Weeks, d \in Days, waves \in Waves : case.analysis = Observed(m, w, d, waves)
  BY DEF InitScreening
<1>2. Analysed(case.analysis)
  BY <1>1, ObservedIs
<1>3. QED
  BY <1>2 DEF InitScreening, ScreenInv

LEMMA ScreenStep == ScreenInv /\ [NextScreening]_screeningVars => ScreenInv'
<1> SUFFICES ASSUME ScreenInv, [NextScreening]_screeningVars
             PROVE  ScreenInv'
  OBVIOUS
<1>1. ASSUME NEW proxy, AttachSector(proxy)
      PROVE  ScreenInv'
  BY <1>1 DEF AttachSector, ScreenInv
<1>2. ASSUME NEW strategy, Screen(strategy)
      PROVE  ScreenInv'
  BY <1>2 DEF Screen, ScreenInv
<1>3. CASE UNCHANGED screeningVars
  BY <1>3 DEF screeningVars, ScreenInv
<1>4. QED
  BY <1>1, <1>2, <1>3 DEF NextScreening

\* For any states of the frames and waves, any market and sector, holding, history
\* and strategies of the user: no candidate is a security the rules say to leave,
\* and one to buy or add has market, sector and every step of its path with it
\* (rank_strategy_candidates).
THEOREM ScreensAreSafe == SpecScreening => []ScreenIsSafe
<1>1. ScreenInv => ScreenIsSafe
  <2> SUFFICES ASSUME ScreenInv, listed = "candidate"
               PROVE  /\ case.analysis.direction # "bearish"
                      /\ case.holding => ExitPriority(case, advice) \in {"medium", "low"}
                      /\ IF case.analysis.direction = "insufficient" THEN advice.action \in {"hold", "wait"}
                         ELSE case.analysis.flags = {}
                      /\ advice.action \in {"buy", "add"} =>
                           /\ case.benchmark = "bullish" /\ sector \in {"bullish", NotLoaded}
                           /\ \A step \in DOMAIN case.analysis.path : case.analysis.path[step] # "block"
    BY DEF ScreenIsSafe
  <2> DEFINE a == case.analysis
             gate == MarketConfluence(a.direction, case.benchmark, sector).gate
  <2>1. Analysed(a) /\ advice.action = ActionFor(a, case.holding, gate)
    BY DEF ScreenInv, Advise
  <2>2. a.timing.action # "exit_watch" /\ advice.action \notin {"sell", "reduce", "avoid"}
    BY DEF ScreenInv, PlatformAllowed
  <2>3. /\ advice.action \in {"buy", "add"} => a.timing.action = "entry_watch" /\ gate
        /\ a.timing.action \in {"exit_watch", "risk_watch"} => advice.action \in {"sell", "reduce", "avoid"}
        /\ a.timing.action \notin {"entry_watch", "exit_watch", "risk_watch"} =>
             advice.action \in (IF a.direction = "bearish" THEN {"reduce", "avoid"} ELSE {"hold", "wait"})
    BY <2>1, ActionIs
  <2>4. gate => case.benchmark = "bullish" /\ sector \in {"bullish", NotLoaded}
    BY GateIs
  <2> HIDE DEF gate
  <2>5. a.timing.action # "risk_watch"
    BY <2>2, <2>3
  <2>6. a.direction # "bearish"
    BY <2>1, <2>2, <2>3, <2>5 DEF Analysed
  <2>7. ExitPriority(case, advice) \in {"medium", "low"}
    BY <2>2, <2>5 DEF ExitPriority
  <2>8. IF a.direction = "insufficient" THEN advice.action \in {"hold", "wait"} ELSE a.flags = {}
    BY <2>1, <2>2, <2>3, <2>5 DEF Analysed
  <2>9. advice.action \in {"buy", "add"} =>
          /\ case.benchmark = "bullish" /\ sector \in {"bullish", NotLoaded}
          /\ \A step \in DOMAIN a.path : a.path[step] # "block"
    BY <2>1, <2>3, <2>4 DEF Analysed
  <2>10. QED
    BY <2>6, <2>7, <2>8, <2>9
<1>2. QED
  BY <1>1, ScreenInit, ScreenStep, PTL DEF SpecScreening

-----------------------------------------------------------------------------
(* The two research plans. *)

Statuses == {"pending", "succeeded", "failed", "skipped"}
Places == {"none", "queued", "working", "reporting"}

\* whatever finished did so after what it waits for
Closed(req, done) == \A t \in done : DependsOn(req, t) \subseteq done

\* The tasks of a plan, one by one.
LEMMA StockTasks ==
  ASSUME NEW req \in Stock
  PROVE  /\ req.kind = "stock"
         /\ \A t : t \in Tasks(req) <=>
              \/ t \in {"market_data", "indicators", "benchmark_market", "timing", "advice", "facts", "guardrail"}
              \/ t = "macro_linkage" /\ req.macro
              \/ t = "portfolio" /\ req.position
              \/ t = "model" /\ req.model
<1>1. req.kind = "stock"
  BY DEF Stock
<1>2. QED
  BY <1>1 DEF Tasks

LEMMA MacroTasks ==
  ASSUME NEW req \in Macro
  PROVE  /\ req.kind = "macro" /\ ~req.model /\ ~req.position
         /\ Tasks(req) = {"macro_data", "freshness_gate", "capital_flow", "cost_transfer",
                          "macro_synthesis", "guardrail"}
<1>1. req.kind = "macro" /\ ~req.model /\ ~req.position
  BY DEF Macro
<1>2. QED
  BY <1>1 DEF Tasks

\* What has succeeded before a task of a stock plan starts.
LEMMA StockOrder ==
  ASSUME NEW req \in Stock, NEW done, Closed(req, done), NEW t \in Tasks(req), DependsOn(req, t) \subseteq done
  PROVE  /\ t = "indicators" \/ t = "benchmark_market" => "market_data" \in done
         /\ t = "timing" => {"market_data", "indicators", "benchmark_market"} \subseteq done
         /\ t \in {"macro_linkage", "advice"} => {"market_data", "indicators", "benchmark_market", "timing"} \subseteq done
         /\ t = "portfolio" => {"market_data", "indicators", "timing", "advice"} \subseteq done
         /\ t = "facts" => {"market_data", "indicators", "timing", "advice"} \subseteq done
         /\ t = "model" => "facts" \in done
         /\ t = "guardrail" => "facts" \in done /\ (req.model => "model" \in done)
<1>1. /\ DependsOn(req, "indicators") = {"market_data"} /\ DependsOn(req, "benchmark_market") = {"market_data"}
      /\ DependsOn(req, "timing") = {"indicators", "benchmark_market"}
      /\ DependsOn(req, "macro_linkage") = {"timing"} /\ DependsOn(req, "model") = {"facts"}
      /\ DependsOn(req, "portfolio") = {"advice"}
  BY DEF DependsOn
<1>2. DependsOn(req, "advice") = {"timing"} \/ DependsOn(req, "advice") = {"macro_linkage"}
  BY DEF DependsOn
<1>3. DependsOn(req, "facts") = {"portfolio"} \/ DependsOn(req, "facts") = {"advice"}
  BY DEF DependsOn, FactsWaitFor
<1>4. /\ req.model => DependsOn(req, "guardrail") = {"model"}
      /\ ~req.model => DependsOn(req, "guardrail") = {"facts"}
  BY StockTasks DEF DependsOn, GuardWaitsFor
<1> DEFINE D(x) == DependsOn(req, x)
<1>5. \A x \in done : D(x) \subseteq done
  BY DEF Closed
<1> HIDE DEF D
<1>6. D(t) \subseteq done
  BY DEF D
<1>7. t = "indicators" \/ t = "benchmark_market" => "market_data" \in done
  BY <1>1, <1>6 DEF D
<1>8. ASSUME NEW x, D(x) \subseteq done, x = "timing"
      PROVE  {"market_data", "indicators", "benchmark_market"} \subseteq done
  BY <1>1, <1>5, <1>8 DEF D
<1>9. ASSUME NEW x, D(x) \subseteq done, x \in {"macro_linkage", "advice"}
      PROVE  {"market_data", "indicators", "benchmark_market", "timing"} \subseteq done
  <2>1. "timing" \in done
    BY <1>1, <1>2, <1>5, <1>9 DEF D
  <2>2. QED
    BY <1>5, <1>8, <2>1
<1>10. ASSUME NEW x, D(x) \subseteq done, x \in {"portfolio", "facts"}
      PROVE  {"market_data", "indicators", "timing", "advice"} \subseteq done
  <2>1. "advice" \in done
    BY <1>1, <1>3, <1>5, <1>10 DEF D
  <2>2. QED
    BY <1>5, <1>9, <2>1
<1>11. t = "model" => "facts" \in done
  BY <1>1, <1>6 DEF D
<1>12. t = "guardrail" => "facts" \in done /\ (req.model => "model" \in done)
  BY <1>1, <1>4, <1>5, <1>6 DEF D
<1>13. QED
  BY <1>6, <1>7, <1>8, <1>9, <1>10, <1>11, <1>12

\* The same of the macro plan.
LEMMA MacroOrder ==
  ASSUME NEW req \in Macro, NEW done, Closed(req, done), NEW t \in Tasks(req), DependsOn(req, t) \subseteq done
  PROVE  /\ t \in {"freshness_gate", "capital_flow", "cost_transfer"} => "macro_data" \in done
         /\ t = "macro_synthesis" => {"macro_data", "freshness_gate", "capital_flow", "cost_transfer"} \subseteq done
         /\ t = "guardrail" => "macro_synthesis" \in done
<1>1. /\ DependsOn(req, "freshness_gate") = {"macro_data"} /\ DependsOn(req, "capital_flow") = {"macro_data"}
      /\ DependsOn(req, "cost_transfer") = {"macro_data"}
      /\ DependsOn(req, "macro_synthesis") = {"freshness_gate", "capital_flow", "cost_transfer"}
  BY DEF DependsOn
<1>2. DependsOn(req, "guardrail") = {"macro_synthesis"}
  BY MacroTasks DEF DependsOn, GuardWaitsFor
<1> DEFINE D(x) == DependsOn(req, x)
<1>3. \A x \in done : D(x) \subseteq done
  BY DEF Closed
<1> HIDE DEF D
<1>4. D(t) \subseteq done
  BY DEF D
<1>5. t \in {"freshness_gate", "capital_flow", "cost_transfer"} => "macro_data" \in done
  BY <1>1, <1>4 DEF D
<1>6. t = "macro_synthesis" => {"macro_data", "freshness_gate", "capital_flow", "cost_transfer"} \subseteq done
  BY <1>1, <1>3, <1>4 DEF D
<1>7. t = "guardrail" => "macro_synthesis" \in done
  BY <1>2, <1>4 DEF D
<1>8. QED
  BY <1>5, <1>6, <1>7

-----------------------------------------------------------------------------
(* The invariant. *)

Done == With("succeeded")

PlanShape ==
    /\ request \in Stock \cup Macro
    /\ status \in [Tasks(request) -> Statuses] /\ pc \in [Tasks(request) -> Places]
    /\ pc["guardrail"] # "working"
    /\ outcome \in {"none", "returned", "raised", "incomplete"} /\ disturbed \in BOOLEAN

\* a task starts once what it waits for has succeeded
InOrder ==
    /\ Closed(request, Done)
    /\ \A t \in Active : t \notin Done /\ DependsOn(request, t) \subseteq Done

\* who is past its work has filled its fields
Filled ==
    \A t \in Task : pc[t] = "reporting" \/ t \in Done =>
        IF t = "model" THEN {"model_summary", "model_warning"} \cap held # {} ELSE Gives(t) \subseteq held

\* no field of a task that is not in the plan
OnlyAsked ==
    /\ "holding_assessment" \in held => request.position
    /\ {"model_summary", "model_warning"} \cap held # {} => request.model

\* the guard has seen every text there is
SeenByGuard ==
    pc["guardrail"] = "reporting" \/ "guardrail" \in Done => held \cap Texts \subseteq checked

\* without disturbance only the guard fails, over a text
OnlyGuardFails ==
    ~disturbed =>
        /\ \A t \in Task : t # "guardrail" => status[t] \in {"pending", "succeeded"}
        /\ status["guardrail"] # "skipped"
        /\ status["guardrail"] = "failed" => failure = "guardrail" /\ unsafe # {}

\* a result stands
Ended ==
    outcome # "none" =>
        /\ Active = {}
        /\ outcome = "returned" => Done = Task
        /\ UndisturbedResearchReturns

PipelineInv ==
    PlanShape /\ InOrder /\ Filled /\ OnlyAsked /\ SeenByGuard /\ OnlyGuardFails /\ Ended

LEMMA PipelineInit == InitPipeline => PipelineInv
<1> SUFFICES ASSUME InitPipeline
             PROVE  PipelineInv
  OBVIOUS
<1>1. /\ request \in Stock \cup Macro /\ Task = Tasks(request)
      /\ status \in [Tasks(request) -> Statuses] /\ pc \in [Tasks(request) -> Places]
      /\ \A t \in Tasks(request) : status[t] = "pending" /\ pc[t] = "none"
      /\ held = {} /\ outcome = "none" /\ disturbed = FALSE
  BY DEF InitPipeline, Task, Statuses, Places
<1>2. "guardrail" \in Tasks(request)
  BY <1>1, StockTasks, MacroTasks
<1>3. Done = {} /\ Active = {}
  BY <1>1 DEF Done, With, Active
<1>4. PlanShape
  BY <1>1, <1>2 DEF PlanShape
<1>5. InOrder /\ Filled /\ OnlyAsked /\ SeenByGuard
  BY <1>1, <1>2, <1>3 DEF InOrder, Closed, Filled, OnlyAsked, SeenByGuard
<1>6. OnlyGuardFails /\ Ended
  BY <1>1, <1>2 DEF OnlyGuardFails, Ended
<1>7. QED
  BY <1>4, <1>5, <1>6 DEF PipelineInv

LEMMA InvFacts ==
  ASSUME PipelineInv
  PROVE  /\ Task = Tasks(request) /\ "guardrail" \in Task
         /\ \A t \in Task : status[t] \in Statuses /\ pc[t] \in Places
         /\ \A t \in Active : t \in Task /\ outcome = "none"
         /\ Done = {t \in Task : status[t] = "succeeded"}
<1>1. Task = Tasks(request)
  BY DEF PipelineInv, PlanShape, Task
<1>2. "guardrail" \in Task
  BY <1>1, StockTasks, MacroTasks DEF PipelineInv, PlanShape
<1>3. \A t \in Active : t \in Task /\ outcome = "none"
  BY DEF PipelineInv, Ended, Active
<1>4. QED
  BY <1>1, <1>2, <1>3 DEF PipelineInv, PlanShape, Task, Done, With

\* No task finds a field it reads still None.
LEMMA NeedsMet ==
  ASSUME PipelineInv, NEW t \in Active
  PROVE  Needs(t) \subseteq held
<1>1. /\ t \in Tasks(request) /\ Task = Tasks(request) /\ Done \subseteq Task
      /\ Closed(request, Done) /\ DependsOn(request, t) \subseteq Done
  BY InvFacts DEF PipelineInv, InOrder
<1>2. \A d \in Done : d # "model" => Gives(d) \subseteq held
  BY <1>1 DEF PipelineInv, Filled
<1>3. /\ Gives("market_data") = {"data"} /\ Gives("indicators") = {"indicators"}
      /\ Gives("benchmark_market") = {"benchmark"} /\ Gives("timing") = {"strategy", "market_context"}
      /\ Gives("advice") = {"investment_advice"} /\ Gives("facts") = {"snapshot", "deterministic"}
      /\ Gives("macro_data") = {"snapshot"} /\ Gives("freshness_gate") = {"validity"}
      /\ Gives("capital_flow") = {"capital_flow"} /\ Gives("cost_transfer") = {"cost_transfer"}
      /\ Gives("macro_synthesis") = {"analysis", "report"}
  BY DEF Gives
<1>4. /\ Needs("market_data") = {} /\ Needs("benchmark_market") = {} /\ Needs("macro_linkage") = {}
      /\ Needs("macro_data") = {} /\ Needs("indicators") = {"data"}
      /\ Needs("timing") = {"data", "indicators", "benchmark"}
      /\ Needs("advice") = {"data", "indicators", "strategy", "market_context"}
      /\ Needs("portfolio") = {"data", "strategy", "investment_advice"}
      /\ Needs("facts") = {"data", "indicators", "strategy", "investment_advice"}
      /\ Needs("model") = {"snapshot"} /\ Needs("freshness_gate") = {"snapshot"}
      /\ Needs("capital_flow") = {"snapshot"} /\ Needs("cost_transfer") = {"snapshot"}
      /\ Needs("macro_synthesis") = {"snapshot", "validity", "capital_flow", "cost_transfer"}
      /\ request.kind = "macro" => Needs("guardrail") = {"report"}
      /\ request.kind # "macro" => Needs("guardrail") = {"deterministic"}
  BY DEF Needs
<1>5. CASE request \in Stock
  <2>1. /\ t \in {"market_data", "indicators", "benchmark_market", "timing", "advice", "facts", "guardrail",
                  "macro_linkage", "portfolio", "model"}
        /\ request.kind = "stock"
    BY <1>1, <1>5, StockTasks
  <2>2. /\ t = "indicators" => "market_data" \in Done
        /\ t = "timing" => {"market_data", "indicators", "benchmark_market"} \subseteq Done
        /\ t = "advice" => {"market_data", "indicators", "benchmark_market", "timing"} \subseteq Done
        /\ t = "portfolio" => {"market_data", "indicators", "timing", "advice"} \subseteq Done
        /\ t = "facts" => {"market_data", "indicators", "timing", "advice"} \subseteq Done
        /\ t = "model" => "facts" \in Done
        /\ t = "guardrail" => "facts" \in Done
    BY <1>1, <1>5, StockOrder
  <2>3. CASE t \in {"market_data", "benchmark_market", "macro_linkage"}
    BY <1>4, <2>3
  <2>4. CASE t \in {"indicators", "timing"}
    BY <1>2, <1>3, <1>4, <2>2, <2>4
  <2>5. CASE t \in {"advice", "portfolio", "facts"}
    BY <1>2, <1>3, <1>4, <2>2, <2>5
  <2>6. CASE t \in {"model", "guardrail"}
    BY <1>2, <1>3, <1>4, <2>1, <2>2, <2>6
  <2>7. QED
    BY <2>1, <2>3, <2>4, <2>5, <2>6
<1>6. CASE request \in Macro
  <2>1. /\ t \in {"macro_data", "freshness_gate", "capital_flow", "cost_transfer", "macro_synthesis", "guardrail"}
        /\ request.kind = "macro"
    BY <1>1, <1>6, MacroTasks
  <2>2. /\ t \in {"freshness_gate", "capital_flow", "cost_transfer"} => "macro_data" \in Done
        /\ t = "macro_synthesis" => {"macro_data", "freshness_gate", "capital_flow", "cost_transfer"} \subseteq Done
        /\ t = "guardrail" => "macro_synthesis" \in Done
    BY <1>1, <1>6, MacroOrder
  <2>3. QED
    BY <1>2, <1>3, <1>4, <2>1, <2>2
<1>7. QED
  BY <1>5, <1>6 DEF PipelineInv, PlanShape

\* Once the guard has started nobody who writes a text is at work.
LEMMA GuardIsLast ==
  ASSUME PipelineInv, "guardrail" \in Active \/ "guardrail" \in Done, NEW t \in Active
  PROVE  t # "model" /\ Gives(t) \cap Texts = {}
<1>1. /\ Task = Tasks(request) /\ Done \subseteq Task /\ t \in Task /\ "guardrail" \in Task /\ t \notin Done
      /\ Closed(request, Done) /\ DependsOn(request, "guardrail") \subseteq Done
  BY InvFacts DEF PipelineInv, InOrder, Closed
<1>2. t \notin {"facts", "model", "macro_synthesis"}
  <2>1. CASE request \in Stock
    BY <1>1, <2>1, StockOrder, StockTasks
  <2>2. CASE request \in Macro
    BY <1>1, <2>2, MacroOrder, MacroTasks
  <2>3. QED
    BY <2>1, <2>2 DEF PipelineInv, PlanShape
<1>3. Gives(t) \cap Texts = {}
  BY <1>2 DEF Gives, Texts
<1>4. QED
  BY <1>2, <1>3

-----------------------------------------------------------------------------
(* Steps. *)

\* Some tasks are started or go on, nothing else.
LEMMA MoveKeeps ==
  ASSUME PipelineInv, outcome = "none", NEW S \in SUBSET Task, NEW place \in {"queued", "working"},
         \A t \in S : t \notin Done /\ DependsOn(request, t) \subseteq Done,
         "guardrail" \in S => place # "working",
         pc' = [t \in Task |-> IF t \in S THEN place ELSE pc[t]],
         UNCHANGED <<request, status, held, unsafe, checked, failure, outcome, disturbed>>
  PROVE  PipelineInv'
<1>1. /\ Task = Tasks(request) /\ "guardrail" \in Task /\ Task' = Task /\ Done' = Done
      /\ \A t \in Task : pc[t] \in Places
  BY InvFacts DEF Task, Done, With
<1>2. \A t \in Task : /\ t \in S => pc'[t] = place
                      /\ t \notin S => pc'[t] = pc[t]
  BY <1>1
<1>3. PlanShape'
  <2>1. pc' \in [Tasks(request) -> Places] /\ pc'["guardrail"] # "working"
    BY <1>1, <1>2 DEF PipelineInv, PlanShape, Places
  <2>2. QED
    BY <2>1 DEF PipelineInv, PlanShape
<1>4. Active' \subseteq Active \cup S
  BY <1>1, <1>2 DEF Active
<1>5. InOrder'
  BY <1>1, <1>4 DEF PipelineInv, InOrder
<1>6. Filled' /\ SeenByGuard'
  <2>1. \A t \in Task : pc'[t] = "reporting" => pc[t] = "reporting"
    BY <1>2
  <2>2. QED
    BY <1>1, <2>1 DEF PipelineInv, Filled, SeenByGuard
<1>7. OnlyAsked' /\ OnlyGuardFails' /\ Ended'
  BY <1>1 DEF PipelineInv, OnlyAsked, OnlyGuardFails, Ended
<1>8. QED
  BY <1>3, <1>5, <1>6, <1>7 DEF PipelineInv

LEMMA WaveStep == PipelineInv /\ Wave => PipelineInv'
<1> SUFFICES ASSUME PipelineInv, Wave
             PROVE  PipelineInv'
  OBVIOUS
<1>1. \A t \in Ready : t \in Task /\ t \notin Done /\ DependsOn(request, t) \subseteq Done
  BY DEF Ready, With, Done
<1>2. /\ outcome = "none" /\ pc' = [t \in Task |-> IF t \in Ready THEN "queued" ELSE pc[t]]
      /\ UNCHANGED <<request, status, held, unsafe, checked, failure, outcome, disturbed>>
  BY DEF Wave
<1>3. QED
  BY <1>1, <1>2, MoveKeeps

\* A task other than the guard fills its fields.
LEMMA FillKeeps ==
  ASSUME PipelineInv, NEW t \in Active, t # "guardrail", NEW fields,
         IF t = "model" THEN fields \in {{"model_summary"}, {"model_warning"}} ELSE fields = Gives(t),
         Fill(fields), pc' = [pc EXCEPT ![t] = "reporting"],
         UNCHANGED <<request, status, checked, failure, outcome, disturbed>>
  PROVE  PipelineInv'
<1>1. /\ Task = Tasks(request) /\ "guardrail" \in Task /\ Task' = Task /\ Done' = Done /\ t \in Task
      /\ outcome = "none" /\ DOMAIN pc = Task /\ \A d \in Task : pc[d] \in Places
  BY InvFacts DEF Task, Done, With, PipelineInv, PlanShape
<1>2. held' = held \cup fields /\ unsafe \subseteq unsafe'
  BY DEF Fill
<1>3. \A d \in Task : pc'[d] = IF d = t THEN "reporting" ELSE pc[d]
  BY <1>1
<1>4. PlanShape'
  <2>1. pc' \in [Tasks(request) -> Places] /\ pc'["guardrail"] # "working"
    BY <1>1, <1>3 DEF PipelineInv, PlanShape, Places
  <2>2. QED
    BY <2>1 DEF PipelineInv, PlanShape
<1>5. InOrder'
  <2>1. Active' \subseteq Active
    BY <1>1, <1>3 DEF Active
  <2>2. QED
    BY <1>1, <2>1 DEF PipelineInv, InOrder
<1>6. Filled'
  <2> SUFFICES ASSUME NEW d \in Task, pc'[d] = "reporting" \/ d \in Done
               PROVE  IF d = "model" THEN {"model_summary", "model_warning"} \cap held' # {}
                      ELSE Gives(d) \subseteq held'
    BY <1>1 DEF Filled, Gives
  <2>1. CASE d = t
    BY <1>2, <2>1
  <2>2. CASE d # t
    BY <1>2, <1>3, <2>2 DEF PipelineInv, Filled
  <2>3. QED
    BY <2>1, <2>2
<1>7. OnlyAsked'
  <2>1. t = "model" => request.model
    BY <1>1, StockTasks, MacroTasks DEF PipelineInv, PlanShape
  <2>2. t = "portfolio" => request.position
    BY <1>1, StockTasks, MacroTasks DEF PipelineInv, PlanShape
  <2>3. "holding_assessment" \in fields => t = "portfolio"
    BY DEF Gives
  <2>4. {"model_summary", "model_warning"} \cap fields # {} => t = "model"
    BY DEF Gives
  <2>5. QED
    BY <1>2, <2>1, <2>2, <2>3, <2>4 DEF PipelineInv, OnlyAsked
<1>8. SeenByGuard'
  <2> SUFFICES ASSUME pc'["guardrail"] = "reporting" \/ "guardrail" \in Done
               PROVE  held' \cap Texts \subseteq checked
    BY <1>1 DEF SeenByGuard, Texts
  <2>1. pc["guardrail"] = "reporting" \/ "guardrail" \in Done
    BY <1>1, <1>3
  <2>2. "guardrail" \in Active \/ "guardrail" \in Done
    BY <1>1, <2>1 DEF Active
  <2>3. fields \cap Texts = {}
    BY <2>2, GuardIsLast
  <2>4. held \cap Texts \subseteq checked
    BY <2>1 DEF PipelineInv, SeenByGuard
  <2>5. QED
    BY <1>2, <2>3, <2>4
<1>9. OnlyGuardFails' /\ Ended'
  BY <1>1, <1>2 DEF PipelineInv, OnlyGuardFails, Ended
<1>10. QED
  BY <1>4, <1>5, <1>6, <1>7, <1>8, <1>9 DEF PipelineInv

LEMMA BeginStep ==
  ASSUME PipelineInv, NEW t \in Task, Begin(t)
  PROVE  PipelineInv'
<1>1. /\ t \in Active /\ t # "guardrail"
  BY DEF Begin, Admitted, Active
<1>2. Needs(t) \subseteq held
  BY <1>1, NeedsMet
<1>3. CASE t \in Awaiting
  <2>1. pc' = [pc EXCEPT ![t] = "working"]
        /\ UNCHANGED <<request, status, held, unsafe, checked, failure, outcome, disturbed>>
    BY <1>2, <1>3 DEF Begin
  <2>2. outcome = "none" /\ t \notin Done /\ DependsOn(request, t) \subseteq Done /\ DOMAIN pc = Task
    BY <1>1, InvFacts DEF PipelineInv, InOrder, PlanShape
  <2>3. pc' = [d \in Task |-> IF d \in {t} THEN "working" ELSE pc[d]]
    BY <2>1, <2>2
  <2>4. QED
    BY <1>1, <2>1, <2>2, <2>3, MoveKeeps
<1>4. CASE t \notin Awaiting
  <2>1. /\ pc' = [pc EXCEPT ![t] = "reporting"] /\ Fill(Gives(t))
        /\ UNCHANGED <<request, status, checked, failure, outcome, disturbed>>
    BY <1>2, <1>4 DEF Begin
  <2>2. t # "model"
    BY <1>4 DEF Awaiting
  <2>3. QED
    BY <1>1, <2>1, <2>2, FillKeeps
<1>5. QED
  BY <1>3, <1>4

LEMMA WorkedStep ==
  ASSUME PipelineInv, NEW t \in Task, Worked(t)
  PROVE  PipelineInv'
<1>1. t \in Active /\ t # "model"
  BY DEF Worked, Active
<1>2. t # "guardrail"
  BY DEF Worked, PipelineInv, PlanShape
<1>3. QED
  BY <1>1, <1>2, FillKeeps DEF Worked

LEMMA ModelAnswersStep == PipelineInv /\ ModelAnswers => PipelineInv'
<1> SUFFICES ASSUME PipelineInv, ModelAnswers
             PROVE  PipelineInv'
  OBVIOUS
<1>1. "model" \in Active
  BY DEF ModelAnswers, Active
<1>2. PICK given \in {"model_summary", "model_warning"} : Fill({given})
  BY DEF ModelAnswers
<1>3. /\ {given} \in {{"model_summary"}, {"model_warning"}} /\ "model" # "guardrail"
  BY <1>2
<1>4. /\ pc' = [pc EXCEPT !["model"] = "reporting"]
      /\ UNCHANGED <<request, status, checked, failure, outcome, disturbed>>
  BY DEF ModelAnswers
<1>5. QED
  BY <1>1, <1>2, <1>3, <1>4, FillKeeps

LEMMA ReportedStep ==
  ASSUME PipelineInv, NEW t \in Task, Reported(t)
  PROVE  PipelineInv'
<1>1. /\ Task = Tasks(request) /\ "guardrail" \in Task /\ outcome = "none"
      /\ \A d \in Task : pc[d] \in Places /\ status[d] \in Statuses
      /\ Done = {d \in Task : status[d] = "succeeded"}
      /\ t \in Active /\ t \notin Done /\ DependsOn(request, t) \subseteq Done
      /\ DOMAIN pc = Task /\ DOMAIN status = Task
  BY InvFacts DEF PipelineInv, InOrder, PlanShape, Active, Reported
<1>2. /\ status' = [status EXCEPT ![t] = "succeeded"] /\ pc' = [pc EXCEPT ![t] = "none"]
      /\ UNCHANGED <<request, held, unsafe, checked, failure, outcome, disturbed>>
      /\ pc[t] = "reporting"
  BY DEF Reported, Succeed
<1>3. /\ Task' = Task
      /\ \A d \in Task : /\ status'[d] = IF d = t THEN "succeeded" ELSE status[d]
                         /\ pc'[d] = IF d = t THEN "none" ELSE pc[d]
  BY <1>1, <1>2 DEF Task
<1>4. Done' = Done \cup {t}
  <2>1. Done' = {d \in Task : status'[d] = "succeeded"}
    BY <1>3 DEF Done, With
  <2>2. QED
    BY <1>1, <1>3, <2>1
<1>5. Active' \subseteq Active \ {t}
  BY <1>3 DEF Active
<1>6. PlanShape'
  <2>1. /\ status' \in [Tasks(request) -> Statuses] /\ pc' \in [Tasks(request) -> Places]
        /\ pc'["guardrail"] # "working"
    BY <1>1, <1>2, <1>3 DEF PipelineInv, PlanShape, Statuses, Places
  <2>2. QED
    BY <1>2, <2>1 DEF PipelineInv, PlanShape
<1>7. InOrder'
  <2>1. Closed(request, Done \cup {t})
    BY <1>1 DEF PipelineInv, InOrder, Closed
  <2>2. QED
    BY <1>2, <1>4, <1>5, <2>1 DEF PipelineInv, InOrder
<1>8. Filled' /\ SeenByGuard'
  <2>1. \A d \in Task : pc'[d] = "reporting" \/ d \in Done' => pc[d] = "reporting" \/ d \in Done
    BY <1>2, <1>3, <1>4
  <2>2. Filled'
    <3> SUFFICES ASSUME NEW d \in Task, pc'[d] = "reporting" \/ d \in Done'
                 PROVE  IF d = "model" THEN {"model_summary", "model_warning"} \cap held # {}
                        ELSE Gives(d) \subseteq held
      BY <1>2, <1>3 DEF Filled, Gives
    <3>1. QED
      BY <2>1 DEF PipelineInv, Filled
  <2>3. SeenByGuard'
    BY <1>1, <1>2, <2>1 DEF PipelineInv, SeenByGuard, Texts
  <2>4. QED
    BY <2>2, <2>3
<1>9. OnlyAsked' /\ Ended'
  BY <1>1, <1>2 DEF PipelineInv, OnlyAsked, Ended
<1>10. OnlyGuardFails'
  BY <1>1, <1>2, <1>3 DEF PipelineInv, OnlyGuardFails
<1>11. QED
  BY <1>6, <1>7, <1>8, <1>9, <1>10 DEF PipelineInv

\* Nothing waits for the guard, so that its failure skips nothing.
LEMMA NothingAfterGuard ==
  ASSUME PipelineInv
  PROVE  Blocked("guardrail") \subseteq {"guardrail"}
<1> DEFINE D(x) == DependsOn(request, x)
           step(f) == [d \in Task |-> d = "guardrail" \/ \E e \in D(d) : f[e]]
           down == CHOOSE f : f = step(f)
           only == [d \in Task |-> d = "guardrail"]
<1>1. Task = Tasks(request) /\ "guardrail" \in Task
  BY InvFacts
<1>2. Blocked("guardrail") = {d \in With("pending") : down[d]}
  BY DEF Blocked
<1>3. \A d \in Task : D(d) \subseteq Task \ {"guardrail"}
  <2>1. CASE request \in Stock
    BY <1>1, <2>1, StockTasks DEF DependsOn, FactsWaitFor, GuardWaitsFor
  <2>2. CASE request \in Macro
    BY <1>1, <2>2, MacroTasks DEF DependsOn, FactsWaitFor, GuardWaitsFor
  <2>3. QED
    BY <2>1, <2>2 DEF PipelineInv, PlanShape
<1>4. only = step(only)
  BY <1>3
<1>5. down = step(down)
  BY <1>4
<1> HIDE DEF down
<1>6. \A d \in Task : d # "guardrail" /\ down[d] => \E e \in D(d) : down[e]
  BY <1>5
<1> DEFINE Free(d) == d \notin Task \/ ~down[d]
<1>7. \A d : d # "guardrail" /\ (\A e \in D(d) : Free(e)) => Free(d)
  BY <1>3, <1>6
<1> HIDE DEF D, Free
<1>8. \A d \in Task : d # "guardrail" => Free(d)
  <2>1. CASE request \in Stock
    <3>1. D("market_data") = {} /\ D("indicators") = {"market_data"} /\ D("benchmark_market") = {"market_data"}
          /\ D("timing") = {"indicators", "benchmark_market"} /\ D("macro_linkage") = {"timing"}
          /\ D("advice") \subseteq {"macro_linkage", "timing"} /\ D("portfolio") = {"advice"}
          /\ D("facts") \subseteq {"portfolio", "advice"} /\ D("model") = {"facts"}
      BY DEF D, DependsOn, FactsWaitFor
    <3>2. Free("market_data")
      BY <1>7, <3>1
    <3>3. Free("indicators") /\ Free("benchmark_market")
      BY <1>7, <3>1, <3>2
    <3>4. Free("timing")
      BY <1>7, <3>1, <3>3
    <3>5. Free("macro_linkage")
      BY <1>7, <3>1, <3>4
    <3>6. Free("advice")
      BY <1>7, <3>1, <3>4, <3>5
    <3>7. Free("portfolio")
      BY <1>7, <3>1, <3>6
    <3>8. Free("facts")
      BY <1>7, <3>1, <3>6, <3>7
    <3>9. Free("model")
      BY <1>7, <3>1, <3>8
    <3>10. QED
      BY <1>1, <2>1, <3>2, <3>3, <3>4, <3>5, <3>6, <3>7, <3>8, <3>9, StockTasks
  <2>2. CASE request \in Macro
    <3>1. D("macro_data") = {} /\ D("freshness_gate") = {"macro_data"} /\ D("capital_flow") = {"macro_data"}
          /\ D("cost_transfer") = {"macro_data"}
          /\ D("macro_synthesis") = {"freshness_gate", "capital_flow", "cost_transfer"}
      BY DEF D, DependsOn
    <3>2. Free("macro_data")
      BY <1>7, <3>1
    <3>3. Free("freshness_gate") /\ Free("capital_flow") /\ Free("cost_transfer")
      BY <1>7, <3>1, <3>2
    <3>4. Free("macro_synthesis")
      BY <1>7, <3>1, <3>3
    <3>5. QED
      BY <1>1, <2>2, <3>2, <3>3, <3>4, MacroTasks
  <2>3. QED
    BY <2>1, <2>2 DEF PipelineInv, PlanShape
<1>9. QED
  BY <1>2, <1>8 DEF Free, With

\* A task fails, by the world or by the guard's verdict.
LEMMA FailKeeps ==
  ASSUME PipelineInv, NEW t \in Active, Fail(t), disturbed' \in BOOLEAN,
         ~disturbed' => ~disturbed /\ t = "guardrail" /\ failure' = "guardrail" /\ unsafe # {},
         UNCHANGED <<request, held, unsafe, checked, outcome>>
  PROVE  PipelineInv'
<1>1. /\ Task = Tasks(request) /\ "guardrail" \in Task /\ t \in Task /\ outcome = "none"
      /\ \A d \in Task : pc[d] \in Places /\ status[d] \in Statuses
      /\ Done = {d \in Task : status[d] = "succeeded"}
      /\ t \notin Done /\ DOMAIN pc = Task
  BY InvFacts DEF PipelineInv, InOrder, PlanShape
<1>2. /\ status' = [d \in Task |-> CASE d = t -> "failed"
                                     [] d # t /\ d \in Blocked(t) -> "skipped"
                                     [] OTHER -> status[d]]
      /\ pc' = [pc EXCEPT ![t] = "none"]
  BY DEF Fail
<1>3. /\ Task' = Task
      /\ \A d \in Task : pc'[d] = IF d = t THEN "none" ELSE pc[d]
  BY <1>1, <1>2 DEF Task
<1>4. \A d \in Task : /\ d = t => status'[d] = "failed"
                      /\ d # t /\ d \in Blocked(t) => status'[d] = "skipped"
                      /\ d # t /\ d \notin Blocked(t) => status'[d] = status[d]
  BY <1>2
<1>5. \A d \in Blocked(t) : status[d] = "pending"
  BY DEF Blocked, With
<1>6. Done' = Done
  <2>1. Done' = {d \in Task : status'[d] = "succeeded"}
    BY <1>3 DEF Done, With
  <2>2. \A d \in Task : status'[d] = "succeeded" <=> status[d] = "succeeded"
    BY <1>1, <1>4, <1>5
  <2>3. QED
    BY <1>1, <2>1, <2>2
<1>7. Active' \subseteq Active
  BY <1>3 DEF Active
<1>8. PlanShape'
  <2>1. \A d \in Task : status'[d] \in Statuses /\ pc'[d] \in Places
    BY <1>1, <1>3, <1>4 DEF Statuses, Places
  <2>2. pc'["guardrail"] # "working"
    BY <1>1, <1>3 DEF PipelineInv, PlanShape
  <2>3. DOMAIN status' = Task /\ status' = [d \in Task |-> status'[d]]
    BY <1>2
  <2>4. DOMAIN pc' = Task /\ pc' = [d \in Task |-> pc'[d]]
    BY <1>1, <1>2
  <2>5. status' \in [Tasks(request) -> Statuses] /\ pc' \in [Tasks(request) -> Places]
    BY <1>1, <2>1, <2>3, <2>4
  <2>6. QED
    BY <2>2, <2>5 DEF PipelineInv, PlanShape
<1>9. InOrder'
  BY <1>6, <1>7 DEF PipelineInv, InOrder
<1>10. Filled' /\ SeenByGuard'
  <2>1. \A d \in Task : pc'[d] = "reporting" => pc[d] = "reporting"
    BY <1>3
  <2>2. Filled'
    <3> SUFFICES ASSUME NEW d \in Task, pc'[d] = "reporting" \/ d \in Done
                 PROVE  IF d = "model" THEN {"model_summary", "model_warning"} \cap held # {}
                        ELSE Gives(d) \subseteq held
      BY <1>3, <1>6 DEF Filled, Gives
    <3>1. QED
      BY <2>1 DEF PipelineInv, Filled
  <2>3. SeenByGuard'
    BY <1>1, <1>6, <2>1 DEF PipelineInv, SeenByGuard, Texts
  <2>4. QED
    BY <2>2, <2>3
<1>11. OnlyAsked' /\ Ended'
  BY <1>1 DEF PipelineInv, OnlyAsked, Ended
<1>12. OnlyGuardFails'
  <2> SUFFICES ASSUME ~disturbed'
               PROVE  /\ \A d \in Task : d # "guardrail" => status'[d] \in {"pending", "succeeded"}
                      /\ status'["guardrail"] = "failed" /\ failure' = "guardrail" /\ unsafe # {}
    BY <1>3 DEF OnlyGuardFails
  <2>1. Blocked("guardrail") \subseteq {"guardrail"}
    BY NothingAfterGuard
  <2>2. \A d \in Task : d # "guardrail" => status'[d] = status[d]
    BY <1>4, <2>1
  <2>3. QED
    BY <1>1, <1>4, <2>2 DEF PipelineInv, OnlyGuardFails
<1>13. QED
  BY <1>8, <1>9, <1>10, <1>11, <1>12 DEF PipelineInv

LEMMA WorldFailsStep ==
  ASSUME PipelineInv, NEW t \in Task, WorldFails(t) \/ TimesOut(t)
  PROVE  PipelineInv'
<1>1. t \in Active
  BY DEF WorldFails, TimesOut, Active
<1>2. /\ Fail(t) /\ disturbed' = TRUE
      /\ UNCHANGED <<request, held, unsafe, checked, outcome>>
  BY DEF WorldFails, TimesOut, Raise
<1>3. QED
  BY <1>1, <1>2, FailKeeps

LEMMA GuardStep == PipelineInv /\ Guard => PipelineInv'
<1> SUFFICES ASSUME PipelineInv, Guard
             PROVE  PipelineInv'
  OBVIOUS
<1> DEFINE texts == held \cap Texts
<1>1. "guardrail" \in Active
  BY DEF Guard, Admitted, Active
<1>2. Needs("guardrail") \subseteq held
  BY <1>1, NeedsMet
<1>3. CASE ~Passes(texts)
  <2>1. unsafe # {}
    BY <1>2, <1>3 DEF Passes
  <2>2. /\ Fail("guardrail") /\ failure' = "guardrail"
        /\ UNCHANGED <<request, held, unsafe, checked, outcome, disturbed>>
    BY <1>3 DEF Guard, Raise, Recording
  <2>3. disturbed' \in BOOLEAN
    BY <2>2 DEF PipelineInv, PlanShape
  <2>4. QED
    BY <1>1, <2>1, <2>2, <2>3, FailKeeps
<1>4. CASE Passes(texts)
  <2>1. /\ checked' = texts /\ pc' = [pc EXCEPT !["guardrail"] = "reporting"]
        /\ UNCHANGED <<request, status, held, unsafe, failure, outcome, disturbed>>
    BY <1>4 DEF Guard
  <2>2. /\ Task = Tasks(request) /\ "guardrail" \in Task /\ Task' = Task /\ Done' = Done
        /\ outcome = "none" /\ DOMAIN pc = Task /\ \A d \in Task : pc[d] \in Places
    BY <1>1, <2>1, InvFacts DEF Task, Done, With, PipelineInv, PlanShape
  <2>3. \A d \in Task : pc'[d] = IF d = "guardrail" THEN "reporting" ELSE pc[d]
    BY <2>1, <2>2
  <2>4. PlanShape'
    <3>1. pc' \in [Tasks(request) -> Places] /\ pc'["guardrail"] # "working"
      BY <2>1, <2>2, <2>3 DEF PipelineInv, PlanShape, Places
    <3>2. QED
      BY <2>1, <3>1 DEF PipelineInv, PlanShape
  <2>5. InOrder'
    <3>1. Active' \subseteq Active
      BY <1>1, <2>2, <2>3 DEF Active
    <3>2. QED
      BY <2>1, <2>2, <3>1 DEF PipelineInv, InOrder
  <2>6. Filled'
    <3> SUFFICES ASSUME NEW d \in Task, pc'[d] = "reporting" \/ d \in Done
                 PROVE  IF d = "model" THEN {"model_summary", "model_warning"} \cap held # {}
                        ELSE Gives(d) \subseteq held
      BY <2>1, <2>2 DEF Filled, Gives
    <3>1. Gives("guardrail") = {}
      BY DEF Gives
    <3>2. QED
      BY <2>3, <3>1 DEF PipelineInv, Filled
  <2>7. SeenByGuard'
    BY <2>1 DEF SeenByGuard, Texts
  <2>8. OnlyAsked' /\ OnlyGuardFails' /\ Ended'
    BY <2>1, <2>2 DEF PipelineInv, OnlyAsked, OnlyGuardFails, Ended
  <2>9. QED
    BY <2>4, <2>5, <2>6, <2>7, <2>8 DEF PipelineInv
<1>5. QED
  BY <1>3, <1>4

\* The plan has no dead end: undisturbed, what cannot go on has gone through
\* every task up to the guard.
LEMMA GoneThrough ==
  ASSUME PipelineInv, ~disturbed, Ready = {}
  PROVE  /\ \A t \in Task : t # "guardrail" => t \in Done
         /\ "guardrail" \in Done \/ status["guardrail"] = "failed"
<1> DEFINE D(x) == DependsOn(request, x)
<1>1. /\ Task = Tasks(request) /\ "guardrail" \in Task /\ \A t \in Task : status[t] \in Statuses
      /\ Done = {t \in Task : status[t] = "succeeded"}
  BY InvFacts
<1>2. \A t \in Task : D(t) \subseteq Done => status[t] # "pending"
  BY DEF Ready, With, Done
<1>3. \A t \in Task : t # "guardrail" /\ D(t) \subseteq Done => t \in Done
  BY <1>1, <1>2 DEF PipelineInv, OnlyGuardFails
<1>4. D("guardrail") \subseteq Done => "guardrail" \in Done \/ status["guardrail"] = "failed"
  BY <1>1, <1>2 DEF PipelineInv, OnlyGuardFails, Statuses
<1> HIDE DEF D
<1>5. CASE request \in Stock
  <2>1. \A t : t \in Task <=>
              \/ t \in {"market_data", "indicators", "benchmark_market", "timing", "advice", "facts", "guardrail"}
              \/ t = "macro_linkage" /\ request.macro
              \/ t = "portfolio" /\ request.position
              \/ t = "model" /\ request.model
    BY <1>1, <1>5, StockTasks
  <2>2. D("market_data") = {} /\ D("indicators") = {"market_data"} /\ D("benchmark_market") = {"market_data"}
        /\ D("timing") = {"indicators", "benchmark_market"} /\ D("macro_linkage") = {"timing"}
        /\ D("portfolio") = {"advice"} /\ D("model") = {"facts"}
    BY DEF D, DependsOn
  <2>3. /\ request.macro => D("advice") = {"macro_linkage"}
        /\ ~request.macro => D("advice") = {"timing"}
        /\ request.position => D("facts") = {"portfolio"}
        /\ ~request.position => D("facts") = {"advice"}
    BY DEF D, DependsOn, FactsWaitFor
  <2>4. /\ request.model => D("guardrail") = {"model"}
        /\ ~request.model => D("guardrail") = {"facts"}
    BY <1>5, StockTasks DEF D, DependsOn, GuardWaitsFor
  <2>5. "market_data" \in Done
    BY <1>3, <2>1, <2>2
  <2>6. "indicators" \in Done /\ "benchmark_market" \in Done
    BY <1>3, <2>1, <2>2, <2>5
  <2>7. "timing" \in Done
    BY <1>3, <2>1, <2>2, <2>6
  <2>8. request.macro => "macro_linkage" \in Done
    BY <1>3, <2>1, <2>2, <2>7
  <2>9. "advice" \in Done
    BY <1>3, <2>1, <2>3, <2>7, <2>8
  <2>10. request.position => "portfolio" \in Done
    BY <1>3, <2>1, <2>2, <2>9
  <2>11. "facts" \in Done
    BY <1>3, <2>1, <2>3, <2>9, <2>10
  <2>12. request.model => "model" \in Done
    BY <1>3, <2>1, <2>2, <2>11
  <2>13. D("guardrail") \subseteq Done
    BY <2>4, <2>11, <2>12
  <2>14. QED
    BY <1>4, <2>1, <2>5, <2>6, <2>7, <2>8, <2>9, <2>10, <2>11, <2>12, <2>13
<1>6. CASE request \in Macro
  <2>1. Task = {"macro_data", "freshness_gate", "capital_flow", "cost_transfer", "macro_synthesis", "guardrail"}
    BY <1>1, <1>6, MacroTasks
  <2>2. D("macro_data") = {} /\ D("freshness_gate") = {"macro_data"} /\ D("capital_flow") = {"macro_data"}
        /\ D("cost_transfer") = {"macro_data"}
        /\ D("macro_synthesis") = {"freshness_gate", "capital_flow", "cost_transfer"}
    BY DEF D, DependsOn
  <2>3. D("guardrail") = {"macro_synthesis"}
    BY <1>6, MacroTasks DEF D, DependsOn, GuardWaitsFor
  <2>4. "macro_data" \in Done
    BY <1>3, <2>1, <2>2
  <2>5. "freshness_gate" \in Done /\ "capital_flow" \in Done /\ "cost_transfer" \in Done
    BY <1>3, <2>1, <2>2, <2>4
  <2>6. "macro_synthesis" \in Done
    BY <1>3, <2>1, <2>2, <2>5
  <2>7. QED
    BY <1>4, <2>1, <2>3, <2>4, <2>5, <2>6
<1>7. QED
  BY <1>5, <1>6 DEF PipelineInv, PlanShape

\* A plan that has gone through has filled what the result is made of.
LEMMA AllFilled ==
  ASSUME PipelineInv, \A t \in Task : t # "guardrail" => t \in Done
  PROVE  /\ Complete \subseteq held
         /\ request.position <=> "holding_assessment" \in held
         /\ request.model <=> {"model_summary", "model_warning"} \cap held # {}
<1>1. Task = Tasks(request)
  BY InvFacts
<1>2. \A t \in Task : t # "guardrail" => IF t = "model" THEN {"model_summary", "model_warning"} \cap held # {}
                                         ELSE Gives(t) \subseteq held
  BY DEF PipelineInv, Filled
<1>3. /\ Gives("market_data") = {"data"} /\ Gives("indicators") = {"indicators"}
      /\ Gives("timing") = {"strategy", "market_context"} /\ Gives("advice") = {"investment_advice"}
      /\ Gives("portfolio") = {"holding_assessment"} /\ Gives("facts") = {"snapshot", "deterministic"}
      /\ Gives("freshness_gate") = {"validity"} /\ Gives("macro_synthesis") = {"analysis", "report"}
  BY DEF Gives
<1>4. /\ "holding_assessment" \in held => request.position
      /\ {"model_summary", "model_warning"} \cap held # {} => request.model
  BY DEF PipelineInv, OnlyAsked
<1>5. CASE request \in Stock
  <2>1. /\ {"market_data", "indicators", "timing", "advice", "facts"} \subseteq Task
        /\ request.kind = "stock" /\ (request.position => "portfolio" \in Task) /\ (request.model => "model" \in Task)
    BY <1>1, <1>5, StockTasks
  <2>2. Complete = {"data", "indicators", "market_context", "strategy", "investment_advice", "snapshot",
                    "deterministic"}
    BY <2>1 DEF Complete
  <2>3. Complete \subseteq held
    BY <1>2, <1>3, <2>1, <2>2
  <2>4. request.position => "holding_assessment" \in held
    BY <1>2, <1>3, <2>1
  <2>5. request.model => {"model_summary", "model_warning"} \cap held # {}
    BY <1>2, <2>1
  <2>6. QED
    BY <1>4, <2>3, <2>4, <2>5
<1>6. CASE request \in Macro
  <2>1. /\ {"freshness_gate", "macro_synthesis"} \subseteq Task /\ request.kind = "macro"
        /\ ~request.model /\ ~request.position
    BY <1>1, <1>6, MacroTasks
  <2>2. Complete = {"analysis", "validity", "report"}
    BY <2>1 DEF Complete
  <2>3. Complete \subseteq held
    BY <1>2, <1>3, <2>1, <2>2
  <2>4. QED
    BY <1>4, <2>1, <2>3
<1>7. QED
  BY <1>5, <1>6 DEF PipelineInv, PlanShape

LEMMA EndStep == PipelineInv /\ End => PipelineInv'
<1> SUFFICES ASSUME PipelineInv, End
             PROVE  PipelineInv'
  OBVIOUS
<1>1. /\ Active = {} /\ Ready = {}
      /\ outcome' = CASE Done = Task /\ Complete \subseteq held -> "returned"
                      [] Done # Task /\ failure # NoFailure -> "raised"
                      [] OTHER -> "incomplete"
      /\ UNCHANGED <<request, status, pc, held, unsafe, checked, failure, disturbed>>
  BY DEF End, Done
<1>2. Task' = Task /\ Done' = Done /\ Active' = {}
  BY <1>1 DEF Task, Done, With, Active
<1>3. \/ outcome' = "returned" /\ Done = Task /\ Complete \subseteq held
      \/ outcome' = "raised" /\ Done # Task
      \/ outcome' = "incomplete"
  BY <1>1
<1>4. PlanShape' /\ InOrder' /\ Filled' /\ OnlyAsked' /\ SeenByGuard' /\ OnlyGuardFails'
  <2>1. PlanShape'
    BY <1>1, <1>3 DEF PipelineInv, PlanShape
  <2>2. InOrder' /\ Filled' /\ OnlyAsked' /\ SeenByGuard' /\ OnlyGuardFails'
    BY <1>1, <1>2 DEF PipelineInv, InOrder, Filled, OnlyAsked, SeenByGuard, OnlyGuardFails, Gives, Texts
  <2>3. QED
    BY <2>1, <2>2
<1>5. UndisturbedResearchReturns'
  <2> SUFFICES ASSUME ~disturbed
               PROVE  \/ /\ outcome' = "returned"
                         /\ request.position <=> "holding_assessment" \in held
                         /\ request.model <=> {"model_summary", "model_warning"} \cap held # {}
                      \/ outcome' = "raised" /\ failure = "guardrail" /\ unsafe # {}
    BY <1>1 DEF UndisturbedResearchReturns
  <2>1. /\ \A t \in Task : t # "guardrail" => t \in Done
        /\ "guardrail" \in Done \/ status["guardrail"] = "failed"
    BY <1>1, GoneThrough
  <2>2. /\ Complete \subseteq held
        /\ request.position <=> "holding_assessment" \in held
        /\ request.model <=> {"model_summary", "model_warning"} \cap held # {}
    BY <2>1, AllFilled
  <2>3. CASE "guardrail" \in Done
    <3>1. Done = Task
      BY <2>1, <2>3, InvFacts
    <3>2. outcome' = "returned"
      BY <1>1, <2>2, <3>1
    <3>3. QED
      BY <2>2, <3>2
  <2>4. CASE "guardrail" \notin Done
    <3>1. failure = "guardrail" /\ unsafe # {}
      BY <2>1, <2>4 DEF PipelineInv, OnlyGuardFails
    <3>2. Done # Task
      BY <2>4, InvFacts
    <3>3. outcome' = "raised"
      BY <1>1, <3>1, <3>2 DEF NoFailure
    <3>4. QED
      BY <3>1, <3>3
  <2>5. QED
    BY <2>3, <2>4
<1>6. Ended'
  BY <1>2, <1>3, <1>5 DEF Ended
<1>7. QED
  BY <1>4, <1>6 DEF PipelineInv

LEMMA PipelineStep == PipelineInv /\ [NextPipeline]_pipelineVars => PipelineInv'
<1> SUFFICES ASSUME PipelineInv, [NextPipeline]_pipelineVars
             PROVE  PipelineInv'
  OBVIOUS
<1>1. ASSUME NEW t \in Task, \/ Begin(t) \/ Worked(t) \/ Reported(t) \/ WorldFails(t) \/ TimesOut(t)
      PROVE  PipelineInv'
  BY <1>1, BeginStep, WorkedStep, ReportedStep, WorldFailsStep
<1>2. CASE Wave \/ Guard \/ ModelAnswers \/ End
  BY <1>2, WaveStep, GuardStep, ModelAnswersStep, EndStep
<1>3. CASE UNCHANGED pipelineVars
  BY <1>3 DEF pipelineVars, PipelineInv, PlanShape, InOrder, Filled, OnlyAsked, SeenByGuard, OnlyGuardFails,
              Ended, UndisturbedResearchReturns, Task, Done, With, Active, Gives, Texts, Closed
<1>4. QED
  BY <1>1, <1>2, <1>3 DEF NextPipeline

\* Whatever was asked for, in whatever order parallel tasks finish and whatever
\* fails: what is returned has passed the output guard, every text of it (guardrail).
THEOREM ReturnsAreChecked == SpecPipeline => []ReturnedIsChecked
<1>1. PipelineInv => ReturnedIsChecked
  <2>1. ASSUME PipelineInv
        PROVE  outcome = "returned" => "guardrail" \in Done
    BY <2>1, InvFacts DEF PipelineInv, Ended
  <2>2. QED
    BY <2>1 DEF PipelineInv, SeenByGuard, ReturnedIsChecked
<1>2. QED
  BY <1>1, PipelineInit, PipelineStep, PTL DEF SpecPipeline

\* Research nothing disturbs returns, complete, or its guard refused a text: no
\* task of either plan ever finds a field it reads still None
\* (run_research_pipeline, run_macro_research).
THEOREM ResearchReturns == SpecPipeline => []UndisturbedResearchReturns
<1>1. PipelineInv => UndisturbedResearchReturns
  BY DEF PipelineInv, Ended, UndisturbedResearchReturns
<1>2. QED
  BY <1>1, PipelineInit, PipelineStep, PTL DEF SpecPipeline

-----------------------------------------------------------------------------
(* The backtest's bars. *)

\* The walk's bars are those of consecutive trading days, and its report is theirs.
WalkInv ==
    /\ Series(bars)
    /\ Len(bars) <= MaxBars
    /\ \A i \in DOMAIN bars : bars[i].day = i
    /\ report = IF bars = <<>> THEN NoReport ELSE WalkForward(bars)

LEMMA WalkInit ==
  ASSUME WalkAssumption, InitWalk
  PROVE  WalkInv
<1>1. bars = <<>> /\ report = NoReport /\ <<>> \in Seq(PriceBar) /\ Len(<<>>) = 0 /\ DOMAIN <<>> = {}
  BY DEF InitWalk
<1>2. 0 <= MaxBars
  <2>1. Len(Calendar) \in Nat /\ MaxBars \in 0..Len(Calendar)
    BY CalendarAssumption DEF WalkAssumption
  <2>2. QED
    BY <2>1
<1>3. QED
  BY <1>1, <1>2 DEF WalkInv, Series

LEMMA WalkStep ==
  ASSUME WalkAssumption, WalkInv, [NextWalk]_walkVars
  PROVE  WalkInv'
<1>1. CASE NextWalk
  <2>1. PICK prices \in Prices : Close(prices)
    BY <1>1 DEF NextWalk
  <2> DEFINE n == Len(bars) + 1
             bar == BarOn(n, prices)
             bs == Append(bars, bar)
  <2>2. /\ Len(bars) \in Nat /\ DOMAIN bars = 1..Len(bars) /\ bars \in Seq(PriceBar)
        /\ \A i, j \in 1..Len(bars) : i < j => bars[i].day < bars[j].day
        /\ \A i \in 1..Len(bars) : bars[i].day = i
    BY SeriesFacts DEF WalkInv, Series
  <2>3. Len(bars) < MaxBars /\ bars' = bs /\ report' = WalkForward(bars')
    BY <2>1 DEF Close
  <2>4. n \in DOMAIN Calendar /\ n <= MaxBars
    <3>1. Len(Calendar) \in Nat /\ DOMAIN Calendar = 1..Len(Calendar)
      BY CalendarAssumption
    <3>2. MaxBars \in 0..Len(Calendar)
      BY DEF WalkAssumption
    <3>3. QED
      BY <2>2, <2>3, <3>1, <3>2
  <2>5. bar \in PriceBar /\ bar.day = n
    <3>1. prices \in [open : Int, high : Int, low : Int, close : Int]
      BY DEF WalkAssumption
    <3>2. QED
      BY <2>4, <3>1 DEF BarOn, PriceBar
  <2> HIDE DEF bar
  <2>6. /\ bs \in Seq(PriceBar) /\ Len(bs) = n /\ DOMAIN bs = 1..n /\ bs # <<>>
        /\ \A i \in 1..Len(bars) : bs[i] = bars[i]
        /\ bs[n] = bar
    <3> DEFINE R == PriceBar
    <3> HIDE DEF R
    <3>1. bar \in R /\ bars \in Seq(R)
      BY <2>2, <2>5 DEF R
    <3>2. /\ bs \in Seq(R) /\ Len(bs) = n /\ DOMAIN bs = 1..n /\ bs # <<>>
          /\ \A i \in 1..Len(bars) : bs[i] = bars[i]
          /\ bs[n] = bar
      BY <2>2, <3>1
    <3>3. QED
      BY <3>2 DEF R
  <2> HIDE DEF bs
  <2>7. \A i \in 1..n : bs[i].day = i
    BY <2>2, <2>5, <2>6
  <2>8. Series(bs)
    BY <2>2, <2>6, <2>7 DEF Series
  <2>9. QED
    BY <2>3, <2>4, <2>6, <2>7, <2>8 DEF WalkInv
<1>2. CASE UNCHANGED walkVars
  BY <1>2 DEF WalkInv, Series, walkVars
<1>3. QED
  BY <1>1, <1>2

\* The window of an analysis is not empty, and ends at its bar.
LEMMA SeenIs ==
  ASSUME WalkAssumption, NEW bs, Series(bs), NEW n \in 1..Len(bs)
  PROVE  \E lo \in 1..n : Seen(bs, n) = SubSeq(bs, lo, n)
<1> DEFINE lo == Max({1, n + 1 - Window})
<1>1. Window \in Nat /\ Window >= 2 /\ n \in Nat
  BY SeriesFacts DEF WalkAssumption
<1>2. lo \in {1, n + 1 - Window} /\ \A y \in {1, n + 1 - Window} : lo >= y
  <2>1. \E x \in {1, n + 1 - Window} : \A y \in {1, n + 1 - Window} : x >= y
    BY <1>1
  <2>2. QED
    BY <2>1 DEF Max
<1> HIDE DEF lo
<1>3. lo \in 1..n
  BY <1>1, <1>2
<1>4. QED
  BY <1>3 DEF Seen, lo

\* For any calendar, analyzer, window, prices and number of bars: a weekly or monthly
\* bar an analysis has used is used again, unchanged, in every later analysis whose
\* window holds its period from the first day on (analyze_multi_timeframe).
THEOREM NothingRepaints ==
  ASSUME WalkAssumption
  PROVE  SpecWalk => []NoRepaint
<1>1. WalkInv => NoRepaint
  <2> SUFFICES ASSUME WalkInv, NEW n \in DOMAIN bars, NEW m \in DOMAIN bars, n < m,
                      NEW frame \in Frames, NEW bar \in WholeBars(Seen(bars, n), frame),
                      PeriodKey(bar.day, frame) > PeriodKey(Head(Seen(bars, m)).day, frame)
               PROVE  bar \in WholeBars(Seen(bars, m), frame)
    BY DEF NoRepaint
  <2>1. Series(bars) /\ n \in 1..Len(bars) /\ m \in 1..Len(bars)
    BY SeriesFacts DEF WalkInv
  <2>2. PICK lo \in 1..n : Seen(bars, n) = SubSeq(bars, lo, n)
    BY <2>1, SeenIs
  <2>3. PICK lo2 \in 1..m : Seen(bars, m) = SubSeq(bars, lo2, m)
    BY <2>1, SeenIs
  <2>4. QED
    BY <2>1, <2>2, <2>3, UsedAgain
<1>2. QED
  BY <1>1, WalkInit, WalkStep, PTL DEF SpecWalk

-----------------------------------------------------------------------------
(* Walks. *)

IsWalk(f, bs, signals, first, last) ==
    f = [i \in first - 1..last |-> IF i < first THEN OpenBooks ELSE Walked(f[i - 1], bs, signals, i)]

\* Walks exist: the books before the first bar and after each.
LEMMA BooksExist ==
  ASSUME NEW bs, NEW signals, NEW first \in Nat \ {0}, NEW last \in Nat, first <= last
  PROVE  \E f : IsWalk(f, bs, signals, first, last)
<1> DEFINE Onward(b, i) == Walked(b, bs, signals, i)
           Walk(f, n) == f = [i \in first - 1..n |-> IF i < first THEN OpenBooks ELSE Onward(f[i - 1], i)]
           P == {n \in first - 1..last : \E f : Walk(f, n)}
<1> HIDE DEF Onward
<1>1. first - 1 \in P
  <2>1. Walk([i \in {first - 1} |-> OpenBooks], first - 1)
    <3>1. first - 1..first - 1 = {first - 1}
      OBVIOUS
    <3>2. QED
      BY <3>1
  <2>2. QED
    BY <2>1
<1>2. ASSUME NEW k \in first - 1..last - 1, k \in P
      PROVE  k + 1 \in P
  <2>1. PICK f : Walk(f, k)
    BY <1>2
  <2> DEFINE g == [i \in first - 1..k + 1 |-> IF i = k + 1 THEN Onward(f[k], k + 1) ELSE f[i]]
             h == [i \in first - 1..k + 1 |-> IF i < first THEN OpenBooks ELSE Onward(g[i - 1], i)]
  <2>2. ASSUME NEW i \in first - 1..k + 1
        PROVE  g[i] = h[i]
    <3>1. CASE i = k + 1
      <4>1. g[i] = Onward(f[k], k + 1)
        BY <3>1
      <4>2. k \in first - 1..k + 1 /\ k # k + 1 /\ i - 1 = k /\ ~(i < first)
        BY <3>1
      <4>3. g[i - 1] = f[k]
        BY <4>2
      <4>4. QED
        BY <3>1, <4>1, <4>2, <4>3
    <3>2. CASE i # k + 1
      <4>1. i \in first - 1..k /\ g[i] = f[i]
        BY <3>2
      <4>2. f[i] = IF i < first THEN OpenBooks ELSE Onward(f[i - 1], i)
        BY <2>1, <4>1
      <4>3. ~(i < first) => i - 1 \in first - 1..k + 1 /\ i - 1 # k + 1
        BY <4>1
      <4>4. ~(i < first) => g[i - 1] = f[i - 1]
        BY <4>3
      <4>5. QED
        BY <4>1, <4>2, <4>4
    <3>3. QED
      BY <3>1, <3>2
  <2>3. g = h
    BY <2>2
  <2>4. Walk(g, k + 1)
    BY <2>3
  <2> HIDE DEF g, h, Walk
  <2>5. k + 1 \in first - 1..last
    OBVIOUS
  <2>6. QED
    BY <2>4, <2>5
<1> HIDE DEF P
<1>3. last \in first - 1..last
  OBVIOUS
<1>4. last \in P
  BY <1>1, <1>2, <1>3, Along
<1>5. QED
  BY <1>4 DEF P, Onward, IsWalk

\* The books before the first bar are open, and each bar goes on from those before it.
LEMMA BooksFacts ==
  ASSUME NEW bs, NEW signals, NEW first \in Nat \ {0}, NEW last \in Nat, first <= last,
         first = Min(Evaluated(bs)), last = Max(Evaluated(bs))
  PROVE  LET books == BooksOf(bs, signals)
         IN  /\ books[first - 1] = OpenBooks
             /\ \A i \in first..last : books[i] = Walked(books[i - 1], bs, signals, i)
<1> DEFINE Onward(b, i) == Walked(b, bs, signals, i)
           books == CHOOSE f : IsWalk(f, bs, signals, first, last)
<1>1. BooksOf(bs, signals) = books
  BY DEF BooksOf, IsWalk
<1>2. \E f : IsWalk(f, bs, signals, first, last)
  BY BooksExist
<1>3. IsWalk(books, bs, signals, first, last)
  BY <1>2
<1> HIDE DEF books, Onward
<1>4. books = [i \in first - 1..last |-> IF i < first THEN OpenBooks ELSE Onward(books[i - 1], i)]
  BY <1>3 DEF IsWalk, Onward
<1>5. first - 1 \in first - 1..last /\ first - 1 < first
  OBVIOUS
<1>6. \A i \in first..last : i \in first - 1..last /\ ~(i < first)
  OBVIOUS
<1>7. books[first - 1] = OpenBooks
  BY <1>4, <1>5
<1>8. \A i \in first..last : books[i] = Onward(books[i - 1], i)
  BY <1>4, <1>6
<1>9. QED
  BY <1>1, <1>7, <1>8 DEF Onward

-----------------------------------------------------------------------------
(* What one unit becomes. *)

\* The products of the first trades exist.
LEMMA ProductsExist ==
  ASSUME NEW trades, Len(trades) \in Nat
  PROVE  \E f : f = [k \in 0..Len(trades) |->
                       IF k = 0 THEN <<1, 1>> ELSE Times(f[k - 1], trades[k].sell, trades[k].buy)]
<1> DEFINE Onward(x, k) == Times(x, trades[k].sell, trades[k].buy)
           Builds(f, n) == f = [k \in 0..n |-> IF k = 0 THEN <<1, 1>> ELSE Onward(f[k - 1], k)]
           P == {n \in 0..Len(trades) : \E f : Builds(f, n)}
<1> HIDE DEF Onward
<1>1. 0 \in P
  <2>1. Builds([k \in {0} |-> <<1, 1>>], 0)
    <3>1. 0..0 = {0}
      OBVIOUS
    <3>2. QED
      BY <3>1
  <2>2. 0 \in 0..Len(trades)
    OBVIOUS
  <2> HIDE DEF Builds
  <2>3. QED
    BY <2>1, <2>2
<1>2. ASSUME NEW n \in 0..Len(trades) - 1, n \in P
      PROVE  n + 1 \in P
  <2>1. PICK f : Builds(f, n)
    BY <1>2
  <2> DEFINE g == [k \in 0..n + 1 |-> IF k = n + 1 THEN Onward(f[n], n + 1) ELSE f[k]]
             h == [k \in 0..n + 1 |-> IF k = 0 THEN <<1, 1>> ELSE Onward(g[k - 1], k)]
  <2>2. ASSUME NEW k \in 0..n + 1
        PROVE  g[k] = h[k]
    <3>1. CASE k = n + 1
      <4>1. g[k] = Onward(f[n], n + 1)
        BY <3>1
      <4>2. n \in 0..n + 1 /\ n # n + 1 /\ k - 1 = n /\ k # 0
        BY <3>1
      <4>3. g[k - 1] = f[n]
        BY <4>2
      <4>4. QED
        BY <3>1, <4>1, <4>2, <4>3
    <3>2. CASE k # n + 1
      <4>1. k \in 0..n /\ g[k] = f[k]
        BY <3>2
      <4>2. f[k] = IF k = 0 THEN <<1, 1>> ELSE Onward(f[k - 1], k)
        BY <2>1, <4>1
      <4>3. k # 0 => k - 1 \in 0..n + 1 /\ k - 1 # n + 1
        BY <4>1
      <4>4. k # 0 => g[k - 1] = f[k - 1]
        BY <4>3
      <4>5. QED
        BY <4>1, <4>2, <4>4
    <3>3. QED
      BY <3>1, <3>2
  <2>3. g = h
    BY <2>2
  <2>4. Builds(g, n + 1)
    BY <2>3
  <2> HIDE DEF g, h, Builds
  <2>5. n + 1 \in 0..Len(trades)
    OBVIOUS
  <2>6. QED
    BY <2>4, <2>5
<1> HIDE DEF P
<1>3. Len(trades) \in 0..Len(trades)
  OBVIOUS
<1>4. Len(trades) \in P
  BY <1>1, <1>2, <1>3, Along
<1>5. QED
  BY <1>4 DEF P, Onward

\* No trade leaves the unit, and each one multiplies it.
LEMMA ProductFacts ==
  ASSUME NEW T, NEW trades \in Seq(T), NEW trade \in T
  PROVE  /\ Product(<<>>) = <<1, 1>>
         /\ Product(Append(trades, trade)) = Times(Product(trades), trade.sell, trade.buy)
<1> DEFINE Builds(f, ts) == f = [k \in 0..Len(ts) |->
                                 IF k = 0 THEN <<1, 1>> ELSE Times(f[k - 1], ts[k].sell, ts[k].buy)]
           Upto(ts) == CHOOSE f : Builds(f, ts)
           more == Append(trades, trade)
           n == Len(trades)
<1>1. \A ts : Product(ts) = Upto(ts)[Len(ts)]
  BY DEF Product
<1>2. ASSUME NEW ts, Len(ts) \in Nat
      PROVE  Builds(Upto(ts), ts)
  <2>1. \E f : Builds(f, ts)
    BY <1>2, ProductsExist
  <2>2. QED
    BY <2>1
<1>3. n \in Nat /\ Len(more) = n + 1 /\ Len(<<>>) = 0 /\ more[n + 1] = trade
      /\ \A k \in 1..n : more[k] = trades[k]
  OBVIOUS
<1> HIDE DEF more, n, Builds, Upto
<1> DEFINE none == Upto(<<>>)
           f == Upto(trades)
           g == Upto(more)
           P == {k \in 0..n : f[k] = g[k]}
<1>4. Builds(none, <<>>) /\ Builds(f, trades) /\ Builds(g, more)
  BY <1>2, <1>3 DEF n
<1> HIDE DEF none, f, g
<1> USE DEF Builds
<1>5. none[0] = <<1, 1>>
  BY <1>3, <1>4
<1>6. /\ f[0] = <<1, 1>> /\ \A k \in 1..n : f[k] = Times(f[k - 1], trades[k].sell, trades[k].buy)
      /\ g[0] = <<1, 1>> /\ \A k \in 1..n + 1 : g[k] = Times(g[k - 1], more[k].sell, more[k].buy)
  <2>1. /\ 0 \in 0..n /\ \A k \in 1..n : k \in 0..n /\ k # 0
        /\ 0 \in 0..n + 1 /\ \A k \in 1..n + 1 : k \in 0..n + 1 /\ k # 0
    BY <1>3
  <2> DEFINE S(k) == Times(f[k - 1], trades[k].sell, trades[k].buy)
             M(k) == Times(g[k - 1], more[k].sell, more[k].buy)
  <2> HIDE DEF S, M
  <2>2. f = [k \in 0..n |-> IF k = 0 THEN <<1, 1>> ELSE S(k)]
    BY <1>4 DEF S, n
  <2>3. g = [k \in 0..n + 1 |-> IF k = 0 THEN <<1, 1>> ELSE M(k)]
    BY <1>3, <1>4 DEF M
  <2>4. QED
    BY <2>1, <2>2, <2>3 DEF S, M
<1>7. 0 \in P
  BY <1>3, <1>6
<1>8. ASSUME NEW k \in 0..n - 1, k \in P
      PROVE  k + 1 \in P
  <2>1. k + 1 \in 1..n /\ k + 1 \in 1..n + 1 /\ k + 1 \in 0..n /\ (k + 1) - 1 = k
    BY <1>3
  <2>2. f[k + 1] = Times(f[k], trades[k + 1].sell, trades[k + 1].buy)
    BY <1>6, <2>1
  <2>3. g[k + 1] = Times(g[k], more[k + 1].sell, more[k + 1].buy)
    BY <1>6, <2>1
  <2>4. f[k] = g[k] /\ more[k + 1] = trades[k + 1]
    BY <1>3, <1>8, <2>1
  <2>5. f[k + 1] = g[k + 1]
    BY <2>2, <2>3, <2>4
  <2>6. QED
    BY <2>1, <2>5
<1>9. n \in P
  <2>1. n \in 0..n
    BY <1>3
  <2> HIDE DEF P
  <2>2. QED
    BY <1>3, <1>7, <1>8, <2>1, Along
<1>10. g[n + 1] = Times(g[n], trade.sell, trade.buy)
  <2>1. n + 1 \in 1..n + 1 /\ (n + 1) - 1 = n
    BY <1>3
  <2>2. QED
    BY <1>3, <1>6, <2>1
<1>11. g[n + 1] = Times(f[n], trade.sell, trade.buy)
  BY <1>9, <1>10
<1>12. QED
  BY <1>1, <1>3, <1>5, <1>11 DEF none, f, g, n, more

-----------------------------------------------------------------------------
(* The signals. *)

\* Judging begins at a bar with a bar before it.
LEMMA LoopStartIs ==
  ASSUME WalkAssumption, NEW bs, Series(bs), bs # <<>>
  PROVE  LoopStart(bs) \in Nat /\ LoopStart(bs) >= 2
<1> DEFINE in == {i \in DOMAIN bs : bs[i].day >= EvaluationStart}
           first == IF in = {} THEN Len(bs) ELSE Min(in)
           S == {2, MinHistory + 1, first - 1}
           top == MinHistory + Len(bs) + 2
<1>1. Len(bs) \in Nat /\ Len(bs) # 0 /\ DOMAIN bs = 1..Len(bs)
  <2>1. Len(bs) \in Nat /\ DOMAIN bs = 1..Len(bs)
    BY SeriesFacts
  <2>2. bs \in Seq(PriceBar)
    BY DEF Series
  <2>3. QED
    BY <2>1, <2>2
<1>2. MinHistory \in Nat
  BY DEF WalkAssumption
<1>3. first \in 1..Len(bs)
  <2>1. in \subseteq 1..Len(bs) /\ in \subseteq Nat
    BY <1>1
  <2> HIDE DEF in
  <2>2. in # {} => Min(in) \in 1..Len(bs)
    <3>1. in # {} => Min(in) \in in
      BY <2>1, MinOfNumbers
    <3>2. QED
      BY <2>1, <3>1
  <2>3. Len(bs) \in 1..Len(bs)
    BY <1>1
  <2>4. QED
    BY <2>2, <2>3
<1> HIDE DEF first
<1>4. S \subseteq Nat /\ 2 \in S /\ top \in Nat /\ \A y \in S : y <= top
  BY <1>1, <1>2, <1>3
<1>5. LoopStart(bs) = Max(S)
  BY DEF LoopStart, first
<1> HIDE DEF S, top
<1>6. Max(S) \in S /\ 2 <= Max(S)
  BY <1>4, MaxOfNumbers
<1>7. QED
  BY <1>4, <1>5, <1>6

\* A signal lies before the last bar and is executed at the bar after it.
LEMMA SignalFacts ==
  ASSUME WalkAssumption, NEW bs, Series(bs), bs # <<>>
  PROVE  LET signals == ValidateSignals(bs)
         IN  \A k \in DOMAIN signals :
               /\ signals[k].bar \in 1..Len(bs) - 1
               /\ signals[k].execution = signals[k].bar + 1
<1> DEFINE from == LoopStart(bs)
           judged == {i \in from..Len(bs) - 1 : bs[i].day <= EvaluationEnd}
           analysis == [i \in judged |-> Analyzer(Seen(bs, i))]
           before(i) == IF i = from THEN "wait" ELSE analysis[i - 1].action
           IsSignal(i) == /\ bs[i].day >= EvaluationStart
                          /\ analysis[i].action \in Actionable /\ analysis[i].action # before(i)
           Signal(i) == [bar |-> i, execution |-> ExecutionAt(i), action |-> analysis[i].action,
                         score |-> analysis[i].score, price |-> bs[ExecutionAt(i)].open,
                         outcomes |-> [h \in Horizons |-> Outcome(bs, i, analysis[i].action, h)]]
           given == {i \in judged : IsSignal(i)}
           signals == [k \in 1..Cardinality(given) |-> Signal(Ith(given, k))]
<1>1. ValidateSignals(bs) = signals
  BY DEF ValidateSignals
<1>2. \A i : Signal(i).bar = i /\ Signal(i).execution = i + 1
  BY DEF ExecutionAt
<1>3. given \subseteq from..Len(bs) - 1
  OBVIOUS
<1>4. from \in Nat /\ from >= 2 /\ Len(bs) \in Nat
  BY LoopStartIs, SeriesFacts
<1> HIDE DEF given, Signal, from
<1>5. given \in SUBSET Nat /\ given \subseteq 1..Len(bs) - 1 /\ IsFiniteSet(given)
  <2>1. from..Len(bs) - 1 \subseteq 1..Len(bs) - 1 /\ 1..Len(bs) - 1 \subseteq Nat
    BY <1>4
  <2>2. IsFiniteSet(1..Len(bs) - 1)
    BY <1>4, FS_Interval
  <2>3. given \subseteq 1..Len(bs) - 1
    BY <1>3, <2>1
  <2>4. QED
    BY <2>1, <2>2, <2>3, FS_Subset
<1>6. ASSUME NEW k \in DOMAIN signals
      PROVE  /\ signals[k].bar \in 1..Len(bs) - 1
             /\ signals[k].execution = signals[k].bar + 1
  <2>1. k \in 1..Cardinality(given) /\ signals[k] = Signal(Ith(given, k))
    BY <1>6
  <2>2. Ith(given, k) \in given
    BY <1>5, <2>1, IthIsElement
  <2>3. QED
    BY <1>2, <1>5, <2>1, <2>2
<1> HIDE DEF signals
<1>7. QED
  BY <1>1, <1>6

\* The signal a bar gave, if it gave one.
LEMMA SignalAtIs ==
  ASSUME NEW signals, \A k \in DOMAIN signals : signals[k].execution = signals[k].bar + 1,
         NEW i \in Nat \ {0}
  PROVE  LET given == SignalAt(signals, i)
         IN  given # None => given.bar = i /\ given.execution = i + 1
<1> DEFINE k == CHOOSE k \in DOMAIN signals : signals[k].bar = i
<1>1. CASE \E j \in DOMAIN signals : signals[j].bar = i
  <2>1. k \in DOMAIN signals /\ signals[k].bar = i
    BY <1>1
  <2>2. SignalAt(signals, i) = signals[k]
    BY <1>1 DEF SignalAt
  <2>3. QED
    BY <2>1, <2>2
<1>2. CASE ~\E j \in DOMAIN signals : signals[j].bar = i
  BY <1>2 DEF SignalAt
<1>3. QED
  BY <1>1, <1>2

-----------------------------------------------------------------------------
(* The books. *)

Amount == Int \X Int
Trade == [entrySignal : Nat, entry : Nat, exitSignal : Nat, exit : Nat, held : Int, buy : Int, sell : Int]

\* books are such a record
Booked(b) == b = [capital |-> b.capital, entry |-> b.entry, trades |-> b.trades,
                  invested |-> b.invested, pending |-> b.pending, equity |-> b.equity]

\* the k-th trade was entered and left on the bar after its signal, after the one before it
Follows(trades, k) ==
    /\ trades[k].entry = trades[k].entrySignal + 1
    /\ trades[k].entry \in 1..trades[k].exit
    /\ k > 1 => trades[k - 1].exit < trades[k].entry

\* what the books say of the bars up to i
Ledger(b, i) ==
    /\ Booked(b)
    /\ b.trades \in Seq(Trade)
    /\ b.capital \in Amount /\ b.capital = Product(b.trades)
    /\ \A k \in 1..Len(b.trades) :
         /\ Follows(b.trades, k)
         /\ b.trades[k].exitSignal # 0 /\ b.trades[k].exit = b.trades[k].exitSignal + 1
         /\ b.trades[k].exit <= i
    /\ b.entry # None =>
         /\ b.entry.bar \in 1..i /\ b.entry.signal \in Nat /\ b.entry.price \in Int
         /\ b.entry.bar = b.entry.signal + 1
         /\ \A k \in 1..Len(b.trades) : b.trades[k].exit < b.entry.bar

\* the closes up to bar i at which a trade was open
HeldBy(trades) == UNION {Closes(trades[k]) : k \in DOMAIN trades}
Held(b, i) == HeldBy(b.trades) \cup (IF b.entry = None THEN {} ELSE b.entry.bar..i)
Exposed(b, i) == IsFiniteSet(Held(b, i)) /\ b.invested = Cardinality(Held(b, i))

\* the books after bar i of a walk that began with the bar first
Balanced(b, first, i) ==
    /\ Ledger(b, i) /\ Exposed(b, i)
    /\ b.pending # None => first <= i /\ b.pending.bar = i /\ b.pending.execution = i + 1
    /\ b.equity \in Seq(Amount) /\ Len(b.equity) = (i - first) + 1
    /\ b.entry = None /\ first <= i => Last(b.equity) = b.capital

\* Amounts stay amounts.
LEMMA TimesIs ==
  ASSUME NEW x \in Amount, NEW num \in Int, NEW den \in Int
  PROVE  Times(x, num, den) \in Amount
<1>1. x[1] \in Int /\ x[2] \in Int
  BY DEF Amount
<1>2. x[1] * num \in Int /\ x[2] * den \in Int
  BY <1>1
<1>3. QED
  BY <1>2 DEF Times, Amount

LEMMA CostsAre ==
  ASSUME WalkAssumption, NEW price \in Int
  PROVE  Buying(price) \in Int /\ Selling(price) \in Int /\ Base * price \in Int
<1>1. CostBps \in Int /\ Base \in Int
  BY DEF WalkAssumption
<1>2. Base + CostBps \in Int /\ Base - CostBps \in Int
  BY <1>1
<1>3. QED
  BY <1>1, <1>2 DEF Buying, Selling

\* A sale adds the trade that began with the entry, and nothing else.
LEMMA SoldFacts ==
  ASSUME WalkAssumption, NEW b, NEW i \in Nat, Ledger(b, i), b.entry # None,
         NEW exit \in Nat, NEW at \in Nat, NEW price \in Int
  PROVE  LET s == Sold(b, exit, at, price)
             n == Len(b.trades)
         IN  /\ Booked(s) /\ s.entry = None
             /\ s.pending = b.pending /\ s.equity = b.equity /\ s.invested = b.invested
             /\ n \in Nat /\ s.trades \in Seq(Trade) /\ Len(s.trades) = n + 1
             /\ \A k \in 1..n : s.trades[k] = b.trades[k]
             /\ s.trades[n + 1].entrySignal = b.entry.signal /\ s.trades[n + 1].entry = b.entry.bar
             /\ s.trades[n + 1].exitSignal = exit /\ s.trades[n + 1].exit = at
             /\ s.capital \in Amount /\ s.capital = Product(s.trades)
<1> DEFINE s == Sold(b, exit, at, price)
           n == Len(b.trades)
           t == [entrySignal |-> b.entry.signal, entry |-> b.entry.bar,
                 exitSignal |-> exit, exit |-> at, held |-> at - b.entry.bar,
                 buy |-> Buying(b.entry.price), sell |-> Selling(price)]
           new == Worth(b, Selling(price))
           more == Append(b.trades, t)
<1>1. /\ b.trades \in Seq(Trade) /\ b.capital \in Amount /\ b.capital = Product(b.trades)
      /\ b.entry.bar \in 1..i /\ b.entry.signal \in Nat /\ b.entry.price \in Int
  BY DEF Ledger
<1>2. s = [capital |-> new, entry |-> None, trades |-> more, invested |-> b.invested,
           pending |-> b.pending, equity |-> b.equity]
  <2> DEFINE c == b.capital  e == b.entry  ts == b.trades  v == b.invested  p == b.pending  q == b.equity
  <2>1. b = [capital |-> c, entry |-> e, trades |-> ts, invested |-> v, pending |-> p, equity |-> q]
    BY DEF Ledger, Booked
  <2>2. s = [b EXCEPT !.capital = new, !.trades = more, !.entry = None]
    BY DEF Sold
  <2> HIDE DEF s, new, more, c, e, ts, v, p, q
  <2>3. s = [capital |-> new, entry |-> None, trades |-> more, invested |-> v, pending |-> p, equity |-> q]
    BY <2>1, <2>2
  <2>4. QED
    BY <2>3 DEF v, p, q
<1>3. Buying(b.entry.price) \in Int /\ Selling(price) \in Int
  BY <1>1, CostsAre
<1>4. t \in Trade
  BY <1>1, <1>3 DEF Trade
<1>5. new \in Amount
  BY <1>1, <1>3, TimesIs DEF Worth
<1>6. /\ t.entrySignal = b.entry.signal /\ t.entry = b.entry.bar /\ t.exitSignal = exit /\ t.exit = at
      /\ t.sell = Selling(price) /\ t.buy = Buying(b.entry.price)
  OBVIOUS
<1>7. new = Times(Product(b.trades), t.sell, t.buy)
  BY <1>1 DEF Worth
<1> HIDE DEF t
<1>8. /\ n \in Nat /\ more \in Seq(Trade) /\ Len(more) = n + 1 /\ more[n + 1] = t
      /\ \A k \in 1..n : more[k] = b.trades[k]
  <2> DEFINE R == Trade
  <2> HIDE DEF R
  <2>1. t \in R /\ b.trades \in Seq(R)
    BY <1>1, <1>4 DEF R
  <2>2. /\ n \in Nat /\ more \in Seq(R) /\ Len(more) = n + 1 /\ more[n + 1] = t
        /\ \A k \in 1..n : more[k] = b.trades[k]
    BY <2>1
  <2>3. QED
    BY <2>2 DEF R
<1>9. new = Product(more)
  BY <1>1, <1>4, <1>7, ProductFacts
<1> HIDE DEF new, more, n
<1>10. /\ s.capital = new /\ s.entry = None /\ s.trades = more /\ s.invested = b.invested
       /\ s.pending = b.pending /\ s.equity = b.equity /\ Booked(s)
  BY <1>2 DEF Booked
<1> HIDE DEF s
<1>11. QED
  BY <1>5, <1>6, <1>8, <1>9, <1>10 DEF s, n

LEMMA OpenIsBalanced ==
  ASSUME NEW first \in Nat \ {0}
  PROVE  Balanced(OpenBooks, first, first - 1)
<1> DEFINE b == OpenBooks
<1>1. /\ b.trades = <<>> /\ b.capital = <<1, 1>> /\ b.entry = None /\ b.pending = None
      /\ b.equity = <<>> /\ b.invested = 0 /\ Booked(b)
  BY DEF OpenBooks, Booked
<1>2. /\ <<>> \in Seq(Trade) /\ <<>> \in Seq(Amount) /\ Len(<<>>) = 0 /\ 1..0 = {}
      /\ (first - 1) - first + 1 = 0 /\ ~(first <= first - 1) /\ DOMAIN <<>> = {}
  OBVIOUS
<1>3. Product(<<>>) = <<1, 1>> /\ <<1, 1>> \in Amount
  <2> DEFINE trade == [entrySignal |-> 0, entry |-> 0, exitSignal |-> 0, exit |-> 0,
                       held |-> 0, buy |-> 0, sell |-> 0]
  <2>1. trade \in Trade
    BY DEF Trade
  <2> HIDE DEF trade
  <2>2. Product(<<>>) = <<1, 1>>
    BY <1>2, <2>1, ProductFacts
  <2>3. <<1, 1>> \in Amount
    BY DEF Amount
  <2>4. QED
    BY <2>2, <2>3
<1> HIDE DEF b
<1>4. Ledger(b, first - 1)
  BY <1>1, <1>2, <1>3 DEF Ledger
<1>5. Exposed(b, first - 1)
  <2>1. HeldBy(b.trades) = {}
    BY <1>1, <1>2 DEF HeldBy
  <2>2. Held(b, first - 1) = {}
    BY <1>1, <2>1 DEF Held
  <2>3. QED
    BY <1>1, <2>2, FS_EmptySet DEF Exposed
<1>6. QED
  BY <1>1, <1>2, <1>4, <1>5 DEF Balanced, b

\* One trade more is open at the closes of that trade, too.
LEMMA HeldGrows ==
  ASSUME NEW n \in Nat, NEW ts \in Seq(Trade), Len(ts) = n,
         NEW more \in Seq(Trade), Len(more) = n + 1, \A k \in 1..n : more[k] = ts[k]
  PROVE  HeldBy(more) = HeldBy(ts) \cup Closes(more[n + 1])
<1>1. DOMAIN ts = 1..n /\ DOMAIN more = 1..n + 1
  OBVIOUS
<1>2. \A k : k \in 1..n + 1 <=> k \in 1..n \/ k = n + 1
  OBVIOUS
<1>3. \A j : j \in HeldBy(more) <=> \E k \in 1..n + 1 : j \in Closes(more[k])
  BY <1>1 DEF HeldBy
<1>4. \A j : j \in HeldBy(ts) <=> \E k \in 1..n : j \in Closes(ts[k])
  BY <1>1 DEF HeldBy
<1>5. \A j : j \in HeldBy(more) <=> j \in HeldBy(ts) \/ j \in Closes(more[n + 1])
  BY <1>2, <1>3, <1>4
<1>6. QED
  BY <1>5

\* A closed trade was open at the closes before its exit.
LEMMA HeldBefore ==
  ASSUME NEW b, NEW i \in Nat, Ledger(b, i)
  PROVE  \A j \in HeldBy(b.trades) : j \in Nat /\ j < i
<1> SUFFICES ASSUME NEW j \in HeldBy(b.trades)
             PROVE  j \in Nat /\ j < i
  OBVIOUS
<1>1. b.trades \in Seq(Trade) /\ DOMAIN b.trades = 1..Len(b.trades)
  BY DEF Ledger
<1>2. PICK k \in 1..Len(b.trades) : j \in Closes(b.trades[k])
  BY <1>1 DEF HeldBy
<1>3. b.trades[k].exitSignal # 0 /\ b.trades[k].exit <= i
  BY DEF Ledger
<1>4. b.trades[k] \in Trade
  BY <1>1
<1>5. b.trades[k].exit \in Nat /\ b.trades[k].entry \in Nat
  BY <1>4 DEF Trade
<1>6. j \in b.trades[k].entry..b.trades[k].exit /\ j < b.trades[k].exit
  BY <1>2, <1>3 DEF Closes, Open
<1>7. QED
  BY <1>3, <1>5, <1>6

\* Executing what is pending keeps the ledger.
LEMMA ExecutedIs ==
  ASSUME WalkAssumption, NEW bs, Series(bs), NEW i \in 1..Len(bs),
         NEW first \in 1..i, NEW b, Balanced(b, first, i - 1)
  PROVE  LET done == Executed(b, bs, i)
         IN  Ledger(done, i) /\ Exposed(done, i - 1) /\ done.pending = None /\ done.equity = b.equity
<1> DEFINE n == Len(b.trades)
           entry == [bar |-> i, signal |-> b.pending.bar, price |-> bs[i].open]
           sold == Sold(b, b.pending.bar, i, bs[i].open)
           buys == b.pending.action = "entry_watch" /\ b.entry = None
           sells == b.pending.action = "exit_watch" /\ b.entry # None
           done == Executed(b, bs, i)
           j == i - 1
<1>1. i \in Nat /\ j \in Nat /\ first \in Nat /\ j + 1 = i /\ j < i /\ i # 0 /\ bs[i].open \in Int
  <2>1. Len(bs) \in Nat /\ DOMAIN bs = 1..Len(bs)
    BY SeriesFacts
  <2>2. bs[i] \in PriceBar
    BY <2>1 DEF Series
  <2>3. bs[i].open \in Int
    BY <2>2 DEF PriceBar
  <2>4. QED
    BY <2>1, <2>3
<1>2. /\ Ledger(b, j) /\ Exposed(b, j) /\ Booked(b)
      /\ b.pending # None => j # 0 /\ b.pending.bar = j /\ b.pending.execution = i
  <2>1. Ledger(b, j) /\ Exposed(b, j) /\ (b.pending # None => first <= j /\ b.pending.bar = j /\ b.pending.execution = j + 1)
    BY DEF Balanced
  <2>2. Booked(b)
    BY <2>1 DEF Ledger
  <2>3. first <= j => j # 0
    BY <1>1
  <2> HIDE DEF j
  <2>4. QED
    BY <1>1, <2>1, <2>2, <2>3
<1>3. /\ b.trades \in Seq(Trade) /\ n \in Nat /\ b.capital \in Amount /\ b.capital = Product(b.trades)
      /\ \A k \in 1..n :
           /\ Follows(b.trades, k)
           /\ b.trades[k].exitSignal # 0 /\ b.trades[k].exit = b.trades[k].exitSignal + 1
           /\ b.trades[k].exit <= j /\ b.trades[k].exit \in Nat
  <2>1. b.trades \in Seq(Trade)
    BY <1>2 DEF Ledger
  <2>2. n \in Nat /\ \A k \in 1..n : b.trades[k] \in Trade
    BY <2>1
  <2>3. \A k \in 1..n : b.trades[k].exit \in Nat
    BY <2>2 DEF Trade
  <2>4. QED
    BY <1>2, <2>1, <2>2, <2>3 DEF Ledger
<1>4. \A k \in 1..n : b.trades[k].exit <= i /\ b.trades[k].exit < i
  BY <1>1, <1>3
<1>5. b.entry # None =>
        /\ b.entry.bar \in 1..j /\ b.entry.bar \in 1..i /\ b.entry.signal \in Nat /\ b.entry.price \in Int
        /\ b.entry.bar = b.entry.signal + 1
        /\ \A k \in 1..n : b.trades[k].exit < b.entry.bar
  <2>1. b.entry # None =>
          /\ b.entry.bar \in 1..j /\ b.entry.signal \in Nat /\ b.entry.price \in Int
          /\ b.entry.bar = b.entry.signal + 1
          /\ \A k \in 1..n : b.trades[k].exit < b.entry.bar
    BY <1>2 DEF Ledger
  <2>2. 1..j \subseteq 1..i
    BY <1>1
  <2>3. QED
    BY <2>1, <2>2
<1>6. CASE b.pending = None
  <2>1. done = b
    BY <1>6 DEF Executed
  <2>2. Ledger(b, i)
    BY <1>2, <1>3, <1>4, <1>5 DEF Ledger
  <2>3. QED
    BY <1>2, <1>6, <2>1, <2>2
<1>7. CASE b.pending # None
  <2> DEFINE c == b.capital  e == b.entry  ts == b.trades  v == b.invested  q == b.equity
  <2>1. b.pending.bar = j /\ j # 0 /\ b.pending # None /\ b.pending.execution = i
    BY <1>2, <1>7
  <2>2. CASE buys
    <3>1. done = [[b EXCEPT !.entry = entry] EXCEPT !.pending = None]
      BY <2>1, <2>2 DEF Executed
    <3> HIDE DEF done, entry
    <3>2. done = [capital |-> b.capital, entry |-> entry, trades |-> b.trades, invested |-> b.invested,
                  pending |-> None, equity |-> b.equity]
      <4>1. b = [capital |-> c, entry |-> e, trades |-> ts, invested |-> v, pending |-> b.pending, equity |-> q]
        BY <1>2 DEF Booked
      <4> DEFINE bought == [b EXCEPT !.entry = entry]
      <4> HIDE DEF c, e, ts, v, q
      <4>2. bought = [capital |-> c, entry |-> entry, trades |-> ts, invested |-> v,
                      pending |-> b.pending, equity |-> q]
        BY <4>1
      <4>3. done = [bought EXCEPT !.pending = None]
        BY <3>1
      <4> HIDE DEF bought
      <4>4. done = [capital |-> c, entry |-> entry, trades |-> ts, invested |-> v, pending |-> None, equity |-> q]
        BY <4>2, <4>3
      <4>5. QED
        BY <4>4 DEF c, ts, v, q
    <3>3. /\ done.capital = b.capital /\ done.entry = entry /\ done.trades = b.trades
          /\ done.invested = b.invested /\ done.pending = None /\ done.equity = b.equity /\ Booked(done)
      BY <3>2 DEF Booked
    <3>4. /\ entry.bar = i /\ entry.signal = j /\ entry.price = bs[i].open /\ entry # None
      BY <1>1, <2>1 DEF entry, None
    <3>5. Ledger(done, i)
      <4>1. i \in 1..i /\ i = j + 1
        BY <1>1
      <4>2. QED
        BY <1>1, <1>3, <1>4, <3>3, <3>4, <4>1 DEF Ledger
    <3>6. Held(done, j) = Held(b, j)
      <4>1. i..j = {}
        BY <1>1
      <4>2. Held(b, j) = HeldBy(b.trades) \cup {} /\ Held(done, j) = HeldBy(b.trades) \cup (i..j)
        BY <2>2, <3>3, <3>4 DEF Held
      <4>3. QED
        BY <4>1, <4>2
    <3>7. Exposed(done, j)
      BY <1>2, <3>3, <3>6 DEF Exposed
    <3>8. QED
      BY <3>3, <3>5, <3>7 DEF done
  <2>3. CASE sells
    <3>1. done = [sold EXCEPT !.pending = None]
      <4>1. "entry_watch" # "exit_watch"
        OBVIOUS
      <4>2. QED
        BY <2>1, <2>3, <4>1 DEF Executed
    <3>2. /\ Booked(sold) /\ sold.entry = None
          /\ sold.pending = b.pending /\ sold.equity = b.equity /\ sold.invested = b.invested
          /\ sold.trades \in Seq(Trade) /\ Len(sold.trades) = n + 1
          /\ \A k \in 1..n : sold.trades[k] = b.trades[k]
          /\ sold.trades[n + 1].entrySignal = b.entry.signal /\ sold.trades[n + 1].entry = b.entry.bar
          /\ sold.trades[n + 1].exitSignal = j /\ sold.trades[n + 1].exit = i
          /\ sold.capital \in Amount /\ sold.capital = Product(sold.trades)
      <4>1. sold = Sold(b, j, i, bs[i].open)
        BY <2>1
      <4> HIDE DEF sold
      <4>2. Ledger(b, j) /\ b.entry # None
        BY <1>2, <2>3
      <4> DEFINE price == bs[i].open
                 s == Sold(b, j, i, price)
      <4>3. price \in Int /\ j \in Nat /\ i \in Nat
        BY <1>1
      <4> HIDE DEF j, price, sells
      <4>4. /\ Booked(s) /\ s.entry = None
            /\ s.pending = b.pending /\ s.equity = b.equity /\ s.invested = b.invested
            /\ s.trades \in Seq(Trade) /\ Len(s.trades) = Len(b.trades) + 1
            /\ \A k \in 1..Len(b.trades) : s.trades[k] = b.trades[k]
            /\ s.trades[Len(b.trades) + 1].entrySignal = b.entry.signal
            /\ s.trades[Len(b.trades) + 1].entry = b.entry.bar
            /\ s.trades[Len(b.trades) + 1].exitSignal = j /\ s.trades[Len(b.trades) + 1].exit = i
            /\ s.capital \in Amount /\ s.capital = Product(s.trades)
        BY <4>2, <4>3, SoldFacts, SMTT(30)
      <4>5. s = sold
        BY <4>1 DEF price
      <4>6. QED
        BY <4>4, <4>5
    <3> HIDE DEF done, sold
    <3>3. /\ done.capital = sold.capital /\ done.entry = None /\ done.trades = sold.trades
          /\ done.invested = b.invested /\ done.pending = None /\ done.equity = b.equity /\ Booked(done)
      <4> DEFINE c1 == sold.capital  e1 == sold.entry  ts1 == sold.trades  v1 == sold.invested  q1 == sold.equity
      <4>1. sold = [capital |-> c1, entry |-> e1, trades |-> ts1, invested |-> v1,
                    pending |-> sold.pending, equity |-> q1]
        BY <3>2 DEF Booked
      <4> HIDE DEF c1, e1, ts1, v1, q1
      <4>2. done = [capital |-> c1, entry |-> e1, trades |-> ts1, invested |-> v1, pending |-> None, equity |-> q1]
        BY <3>1, <4>1
      <4>3. /\ done.capital = c1 /\ done.entry = e1 /\ done.trades = ts1
            /\ done.invested = v1 /\ done.pending = None /\ done.equity = q1 /\ Booked(done)
        BY <4>2 DEF Booked
      <4>4. QED
        BY <3>2, <4>3 DEF c1, e1, ts1, v1, q1
    <3> DEFINE more == sold.trades
    <3>4. \A k \in 1..n + 1 : k \in 1..n \/ k = n + 1
      BY <1>3
    <3>5. \A k \in 1..n : k > 1 => k - 1 \in 1..n
      BY <1>3
    <3>6. (n + 1) - 1 = n /\ (n + 1 > 1 => n \in 1..n)
      BY <1>3
    <3>7. ASSUME NEW k \in 1..n + 1
          PROVE  /\ Follows(more, k)
                 /\ more[k].exitSignal # 0 /\ more[k].exit = more[k].exitSignal + 1
                 /\ more[k].exit <= i
      <4>1. CASE k \in 1..n
        <5>1. more[k] = b.trades[k] /\ (k > 1 => more[k - 1] = b.trades[k - 1])
          BY <3>2, <3>5, <4>1
        <5>2. Follows(more, k)
          BY <1>3, <4>1, <5>1 DEF Follows
        <5>3. QED
          BY <1>3, <1>4, <4>1, <5>1, <5>2
      <4>2. CASE k = n + 1
        <5>1. b.entry.bar \in 1..i /\ b.entry.bar = b.entry.signal + 1
          BY <1>5, <2>3
        <5>2. k > 1 => more[k - 1].exit < b.entry.bar
          <6>1. k > 1 => n \in 1..n /\ more[k - 1] = b.trades[n]
            BY <3>2, <3>6, <4>2
          <6>2. QED
            BY <1>5, <2>3, <6>1
        <5>3. Follows(more, k)
          BY <3>2, <4>2, <5>1, <5>2 DEF Follows
        <5>4. i <= i
          BY <1>1
        <5>5. QED
          BY <1>1, <2>1, <3>2, <4>2, <5>3, <5>4
      <4>3. QED
        BY <3>4, <4>1, <4>2
    <3>8. Ledger(done, i)
      BY <3>2, <3>3, <3>7 DEF Ledger
    <3>9. Held(done, j) = Held(b, j)
      <4>1. HeldBy(more) = HeldBy(b.trades) \cup Closes(more[n + 1])
        BY <1>3, <3>2, HeldGrows
      <4>2. Closes(more[n + 1]) = b.entry.bar..j
        <5>1. Closes(more[n + 1]) = {k \in b.entry.bar..i : k < i}
          BY <2>1, <3>2 DEF Closes, Open
        <5>2. b.entry.bar \in Nat
          BY <1>5, <2>3
        <5>3. QED
          BY <1>1, <5>1, <5>2
      <4>3. Held(done, j) = HeldBy(more) /\ Held(b, j) = HeldBy(b.trades) \cup (b.entry.bar..j)
        BY <2>3, <3>3 DEF Held
      <4>4. QED
        BY <4>1, <4>2, <4>3
    <3>10. Exposed(done, j)
      BY <1>2, <3>3, <3>9 DEF Exposed
    <3>11. QED
      BY <3>3, <3>8, <3>10 DEF done
  <2>4. CASE ~buys /\ ~sells
    <3>1. done = [b EXCEPT !.pending = None]
      BY <2>1, <2>4 DEF Executed
    <3> HIDE DEF done
    <3>2. /\ done.capital = b.capital /\ done.entry = b.entry /\ done.trades = b.trades
          /\ done.invested = b.invested /\ done.pending = None /\ done.equity = b.equity /\ Booked(done)
      <4>1. b = [capital |-> c, entry |-> e, trades |-> ts, invested |-> v, pending |-> b.pending, equity |-> q]
        BY <1>2 DEF Booked
      <4> HIDE DEF c, e, ts, v, q
      <4>2. done = [capital |-> c, entry |-> e, trades |-> ts, invested |-> v, pending |-> None, equity |-> q]
        BY <3>1, <4>1
      <4>3. /\ done.capital = c /\ done.entry = e /\ done.trades = ts
            /\ done.invested = v /\ done.pending = None /\ done.equity = q /\ Booked(done)
        BY <4>2 DEF Booked
      <4>4. QED
        BY <4>3 DEF c, e, ts, v, q
    <3>3. Ledger(done, i)
      BY <1>3, <1>4, <1>5, <3>2 DEF Ledger
    <3>4. Held(done, j) = Held(b, j)
      BY <3>2 DEF Held
    <3>5. Exposed(done, j)
      BY <1>2, <3>2, <3>4 DEF Exposed
    <3>6. QED
      BY <3>2, <3>3, <3>5 DEF done
  <2>5. QED
    BY <2>2, <2>3, <2>4
<1>8. QED
  BY <1>6, <1>7

\* One bar of the walk keeps the books balanced.
LEMMA WalkedIs ==
  ASSUME WalkAssumption, NEW bs, Series(bs), NEW i \in 1..Len(bs), NEW signals,
         \A k \in DOMAIN signals : signals[k].execution = signals[k].bar + 1,
         NEW first \in 1..i, NEW b, Balanced(b, first, i - 1)
  PROVE  Balanced(Walked(b, bs, signals, i), first, i)
<1> DEFINE done == Executed(b, bs, i)
           given == SignalAt(signals, i)
           holds == done.entry # None
           worth == Worth(done, Base * bs[i].close)
           walked == Walked(b, bs, signals, i)
           pending == IF given # None THEN given ELSE None
           invested == IF holds THEN done.invested + 1 ELSE done.invested
           amount == IF holds THEN worth ELSE done.capital
           equity == Append(b.equity, amount)
<1>1. i \in Nat \ {0} /\ first \in Nat /\ first <= i /\ bs[i].close \in Int
  <2>1. Len(bs) \in Nat /\ DOMAIN bs = 1..Len(bs)
    BY SeriesFacts
  <2>2. bs[i] \in PriceBar
    BY <2>1 DEF Series
  <2>3. bs[i].close \in Int
    BY <2>2 DEF PriceBar
  <2>4. QED
    BY <2>1, <2>3
<1>2. Ledger(done, i) /\ Exposed(done, i - 1) /\ done.pending = None /\ done.equity = b.equity /\ Booked(done)
  <2>1. Ledger(done, i) /\ Exposed(done, i - 1) /\ done.pending = None /\ done.equity = b.equity
    BY ExecutedIs
  <2>2. QED
    BY <2>1 DEF Ledger
<1>3. given # None => given.bar = i /\ given.execution = i + 1
  BY <1>1, SignalAtIs
<1>4. walked = [done EXCEPT !.pending = pending, !.invested = invested, !.equity = equity]
  <2> HIDE DEF done, given, worth
  <2>1. walked = [done EXCEPT !.pending = IF given # None THEN given ELSE done.pending,
                              !.invested = IF holds THEN done.invested + 1 ELSE done.invested,
                              !.equity = Append(done.equity, IF holds THEN worth ELSE done.capital)]
    BY DEF Walked, done, given, worth
  <2> HIDE DEF walked
  <2>2. QED
    BY <1>2, <2>1
<1> HIDE DEF done, given, walked, pending, invested, equity, worth
<1>5. /\ walked.capital = done.capital /\ walked.entry = done.entry /\ walked.trades = done.trades
      /\ walked.pending = pending /\ walked.invested = invested /\ walked.equity = equity /\ Booked(walked)
  <2> DEFINE c == done.capital  e == done.entry  ts == done.trades  v == done.invested  q == done.equity
             p == done.pending
  <2>1. done = [capital |-> c, entry |-> e, trades |-> ts, invested |-> v, pending |-> p, equity |-> q]
    BY <1>2 DEF Booked
  <2> HIDE DEF c, e, ts, v, q, p, holds, amount
  <2>2. walked = [capital |-> c, entry |-> e, trades |-> ts, invested |-> invested,
                  pending |-> pending, equity |-> equity]
    BY <1>4, <2>1
  <2>3. /\ walked.capital = c /\ walked.entry = e /\ walked.trades = ts
        /\ walked.pending = pending /\ walked.invested = invested /\ walked.equity = equity /\ Booked(walked)
    BY <2>2 DEF Booked
  <2>4. QED
    BY <2>3 DEF c, e, ts
<1>6. Ledger(walked, i)
  BY <1>2, <1>5 DEF Ledger
<1>7. Exposed(walked, i)
  <2> DEFINE before == Held(done, i - 1)
             closed == HeldBy(done.trades)
  <2>1. IsFiniteSet(before) /\ done.invested = Cardinality(before)
    BY <1>2 DEF Exposed
  <2>2. \A j \in closed : j \in Nat /\ j < i
    BY <1>1, <1>2, HeldBefore
  <2>3. CASE ~holds
    <3>1. before = closed \cup {} /\ Held(walked, i) = closed \cup {}
      BY <1>5, <2>3 DEF Held
    <3>2. walked.invested = done.invested
      BY <1>5, <2>3 DEF invested
    <3>3. QED
      BY <2>1, <3>1, <3>2 DEF Exposed
  <2>4. CASE holds
    <3> DEFINE from == done.entry.bar
    <3>1. from \in 1..i
      BY <1>2, <2>4 DEF Ledger
    <3>2. before = closed \cup (from..i - 1) /\ Held(walked, i) = closed \cup (from..i)
      BY <1>5, <2>4 DEF Held
    <3>3. from..i = (from..i - 1) \cup {i} /\ i \notin from..i - 1
      BY <1>1, <3>1
    <3>4. i \notin closed
      BY <1>1, <2>2
    <3> HIDE DEF from, before, closed
    <3>5. Held(walked, i) = before \cup {i} /\ i \notin before
      BY <3>2, <3>3, <3>4
    <3>6. Cardinality(before \cup {i}) = Cardinality(before) + 1 /\ IsFiniteSet(before \cup {i})
      BY <2>1, <3>5, FS_AddElement
    <3>7. walked.invested = done.invested + 1
      BY <1>5, <2>4 DEF invested
    <3>8. QED
      BY <2>1, <3>5, <3>6, <3>7 DEF Exposed
  <2>5. QED
    BY <2>3, <2>4
<1>8. walked.pending # None => first <= i /\ walked.pending.bar = i /\ walked.pending.execution = i + 1
  BY <1>1, <1>3, <1>5 DEF pending
<1>9. amount \in Amount
  <2>1. done.capital \in Amount
    BY <1>2 DEF Ledger
  <2>2. CASE holds
    <3>1. done.entry.price \in Int
      BY <1>2, <2>2 DEF Ledger
    <3>2. Base * bs[i].close \in Int /\ Buying(done.entry.price) \in Int
      BY <1>1, <3>1, CostsAre
    <3>3. worth \in Amount
      BY <2>1, <3>2, TimesIs DEF worth, Worth
    <3>4. QED
      BY <2>2, <3>3
  <2>3. QED
    BY <2>1, <2>2
<1>10. /\ walked.equity \in Seq(Amount) /\ Len(walked.equity) = (i - first) + 1
       /\ Last(walked.equity) = amount
  <2> DEFINE R == Amount
  <2>1. b.equity \in Seq(R) /\ Len(b.equity) = ((i - 1) - first) + 1 /\ amount \in R
    BY <1>9 DEF Balanced
  <2> HIDE DEF R, amount
  <2>2. equity \in Seq(R) /\ Len(equity) = Len(b.equity) + 1 /\ equity[Len(equity)] = amount
    BY <2>1 DEF equity
  <2>3. Len(equity) = (i - first) + 1
    BY <1>1, <2>1, <2>2
  <2>4. Last(equity) = amount
    BY <2>2 DEF Last
  <2>5. QED
    BY <1>5, <2>2, <2>3, <2>4 DEF R
<1>11. walked.entry = None => Last(walked.equity) = walked.capital
  BY <1>5, <1>10
<1>12. QED
  BY <1>6, <1>7, <1>8, <1>10, <1>11 DEF Balanced, walked

\* The books are balanced after every bar.
LEMMA BooksAreBalanced ==
  ASSUME WalkAssumption, NEW bs, Series(bs), bs # <<>>, NEW first \in Nat \ {0}, NEW last \in 1..Len(bs),
         first <= last, first = Min(Evaluated(bs)), last = Max(Evaluated(bs))
  PROVE  \A i \in first - 1..last : Balanced(BooksOf(bs, ValidateSignals(bs))[i], first, i)
<1> DEFINE signals == ValidateSignals(bs)
           books == BooksOf(bs, signals)
           P == {i \in first - 1..last : Balanced(books[i], first, i)}
<1>1. \A k \in DOMAIN signals : signals[k].execution = signals[k].bar + 1
  BY SignalFacts
<1>2. Len(bs) \in Nat /\ last \in Nat /\ last <= Len(bs) /\ first - 1 \in Nat /\ last \in first - 1..last
  BY SeriesFacts
<1> HIDE DEF signals
<1>3. books[first - 1] = OpenBooks /\ \A i \in first..last : books[i] = Walked(books[i - 1], bs, signals, i)
  BY <1>2, BooksFacts
<1> HIDE DEF books
<1>4. first - 1 \in P
  <2>1. Balanced(books[first - 1], first, first - 1)
    BY <1>3, OpenIsBalanced
  <2>2. first - 1 \in first - 1..last
    BY <1>2
  <2>3. QED
    BY <2>1, <2>2
<1>5. ASSUME NEW j \in first - 1..last - 1, j \in P
      PROVE  j + 1 \in P
  <2> DEFINE i == j + 1
             b == books[j]
  <2>1. /\ i \in 1..Len(bs) /\ first \in 1..i /\ i - 1 = j /\ i \in first..last
        /\ i \in first - 1..last
    BY <1>2
  <2>2. Balanced(b, first, i - 1)
    BY <1>5, <2>1
  <2> HIDE DEF i, b
  <2>3. Balanced(Walked(b, bs, signals, i), first, i)
    BY <1>1, <2>1, <2>2, WalkedIs
  <2>4. books[i] = Walked(b, bs, signals, i)
    BY <1>3, <2>1 DEF b
  <2>5. i \in P
    BY <2>1, <2>3, <2>4
  <2>6. QED
    BY <2>5 DEF i
<1> HIDE DEF P
<1>6. \A i \in first - 1..last : i \in P
  BY <1>2, <1>4, <1>5, Along
<1>7. QED
  BY <1>6 DEF P, books, signals

\* Of consecutive days the evaluated ones are consecutive.
LEMMA EvaluatedIs ==
  ASSUME WalkAssumption, NEW bs, Series(bs), \A i \in DOMAIN bs : bs[i].day = i, Evaluated(bs) # {}
  PROVE  LET first == Min(Evaluated(bs))
             last == Max(Evaluated(bs))
         IN  /\ first \in 1..Len(bs) /\ last \in 1..Len(bs) /\ first <= last
             /\ Cardinality(Evaluated(bs)) = (last - first) + 1
<1> DEFINE E == Evaluated(bs)
           first == Min(E)
           last == Max(E)
<1>1. Len(bs) \in Nat /\ DOMAIN bs = 1..Len(bs)
  BY SeriesFacts
<1>2. EvaluationStart \in Int /\ EvaluationEnd \in Int
  BY DEF WalkAssumption
<1>3. \A i : i \in E <=> i \in 1..Len(bs) /\ EvaluationStart <= i /\ i <= EvaluationEnd
  <2>1. \A i \in 1..Len(bs) : bs[i].day \in EvaluationStart..EvaluationEnd
                              <=> EvaluationStart <= i /\ i <= EvaluationEnd
    BY <1>1, <1>2
  <2>2. QED
    BY <1>1, <2>1 DEF Evaluated
<1> HIDE DEF E
<1>4. E \subseteq 1..Len(bs) /\ E \subseteq Nat /\ E # {}
  BY <1>1, <1>3 DEF E
<1>5. first \in E /\ \A y \in E : first <= y
  BY <1>4, MinOfNumbers
<1>6. last \in E /\ \A y \in E : y <= last
  <2>1. \A y \in E : y <= Len(bs)
    BY <1>1, <1>4
  <2>2. QED
    BY <1>1, <1>4, <2>1, MaxOfNumbers
<1> HIDE DEF first, last
<1>7. first \in 1..Len(bs) /\ last \in 1..Len(bs) /\ first <= last
  BY <1>4, <1>5, <1>6
<1>8. E = first..last
  <2>1. \A i : i \in E => i \in first..last
    BY <1>1, <1>4, <1>5, <1>6, <1>7
  <2>2. ASSUME NEW i \in first..last
        PROVE  i \in E
    <3>1. EvaluationStart <= first /\ last <= EvaluationEnd
      BY <1>3, <1>5, <1>6
    <3>2. QED
      BY <1>1, <1>2, <1>3, <1>7, <3>1
  <2>3. QED
    BY <2>1, <2>2
<1>9. Cardinality(first..last) = (last - first) + 1
  BY <1>1, <1>7, FS_Interval
<1>10. QED
  BY <1>7, <1>8, <1>9 DEF E, first, last

\* A report is made of two bars and days or more, and it tells of the settled books
\* of the last evaluated bar.
LEMMA WalkTells ==
  ASSUME WalkAssumption, NEW bs, Series(bs), \A i \in DOMAIN bs : bs[i].day = i,
         ~(Len(bs) < 2), ~(Cardinality(Evaluated(bs)) < 2)
  PROVE  LET first == Min(Evaluated(bs))
             last == Max(Evaluated(bs))
             b == BooksOf(bs, ValidateSignals(bs))[last]
             books == Settled(b, bs, last)
             told == WalkForward(bs)
         IN  /\ first \in 1..Len(bs) /\ last \in 1..Len(bs) /\ first <= last
             /\ Balanced(b, first, last)
             /\ told.signals = ValidateSignals(bs)
             /\ told.trades = books.trades /\ told.capital = books.capital
             /\ told.invested = books.invested /\ told.equity = books.equity
             /\ told.days = (last - first) + 1
<1> DEFINE first == Min(Evaluated(bs))
           last == Max(Evaluated(bs))
           signals == ValidateSignals(bs)
           b == BooksOf(bs, signals)[last]
           books == Settled(b, bs, last)
           days == Cardinality(Evaluated(bs))
           told == WalkForward(bs)
           made == [ok |-> TRUE, signals |-> signals, trades |-> books.trades, capital |-> books.capital,
                    invested |-> books.invested, days |-> days, equity |-> books.equity,
                    statistics |-> Statistics(signals)]
<1>1. told = IF Len(bs) < 2 \/ days < 2 THEN NoReport ELSE made
  BY DEF WalkForward
<1> HIDE DEF days, made, told
<1>2. ~(days < 2) /\ told = made
  BY <1>1 DEF days
<1>3. bs # <<>>
  BY Len(<<>>) = 0
<1>4. Evaluated(bs) # {}
  <2>1. Evaluated(bs) = {} => days = 0
    BY FS_EmptySet DEF days
  <2>2. 0 < 2
    OBVIOUS
  <2>3. QED
    BY <1>2, <2>1, <2>2
<1>5. /\ first \in 1..Len(bs) /\ last \in 1..Len(bs) /\ first <= last
      /\ days = (last - first) + 1
  BY <1>4, EvaluatedIs DEF days
<1>6. Balanced(b, first, last)
  <2>1. first \in Nat \ {0} /\ last \in first - 1..last
    BY <1>5
  <2>2. QED
    BY <1>3, <1>5, <2>1, BooksAreBalanced
<1> HIDE DEF books, signals
<1>7. /\ told.signals = signals
      /\ told.trades = books.trades /\ told.capital = books.capital
      /\ told.invested = books.invested /\ told.equity = books.equity /\ told.days = days
  BY <1>2 DEF made
<1>8. QED
  BY <1>5, <1>6, <1>7 DEF books, signals, told

LEMMA ReportIs ==
  ASSUME WalkInv, report.ok
  PROVE  /\ report = WalkForward(bars)
         /\ Series(bars) /\ \A i \in DOMAIN bars : bars[i].day = i
         /\ ~(Len(bars) < 2) /\ ~(Cardinality(Evaluated(bars)) < 2)
<1>1. ~NoReport.ok
  BY DEF NoReport
<1>2. report = WalkForward(bars) /\ Series(bars) /\ \A i \in DOMAIN bars : bars[i].day = i
  BY <1>1 DEF WalkInv
<1>3. Len(bars) < 2 \/ Cardinality(Evaluated(bars)) < 2 => WalkForward(bars) = NoReport
  BY DEF WalkForward
<1>4. QED
  BY <1>1, <1>2, <1>3

\* For any analyzer, any prices and any number of bars: the final capital is what the
\* listed trades make of one unit, and the trades and the exposure agree
\* (walk_forward_backtest).
THEOREM BooksAlwaysBalance ==
  ASSUME WalkAssumption
  PROVE  SpecWalk => []BooksBalance
<1>1. ASSUME WalkInv
      PROVE  BooksBalance
  <2> SUFFICES ASSUME report.ok
               PROVE  LET trades == report.trades
                      IN  /\ report.capital = Product(trades)
                          /\ Last(report.equity) = report.capital
                          /\ Len(report.equity) = report.days
                          /\ \A k \in DOMAIN trades :
                               /\ trades[k].entry = trades[k].entrySignal + 1
                               /\ trades[k].entry \in 1..trades[k].exit
                               /\ Open(trades[k]) => k = Len(trades)
                               /\ ~Open(trades[k]) => trades[k].exit = trades[k].exitSignal + 1
                               /\ k > 1 => trades[k - 1].exit < trades[k].entry
                          /\ report.invested = Cardinality(UNION {Closes(trades[k]) : k \in DOMAIN trades})
    BY DEF BooksBalance
  <2> DEFINE first == Min(Evaluated(bars))
             last == Max(Evaluated(bars))
             b == BooksOf(bars, ValidateSignals(bars))[last]
             books == Settled(b, bars, last)
             n == Len(b.trades)
             ts == books.trades
  <2>1. /\ first \in 1..Len(bars) /\ last \in 1..Len(bars) /\ first <= last
        /\ Balanced(b, first, last)
        /\ report.trades = ts /\ report.capital = books.capital
        /\ report.invested = books.invested /\ report.equity = books.equity
        /\ report.days = (last - first) + 1
    BY <1>1, ReportIs, WalkTells
  <2> HIDE DEF first, last, b
  <2>2. /\ Ledger(b, last) /\ Exposed(b, last)
        /\ b.equity \in Seq(Amount) /\ Len(b.equity) = (last - first) + 1
        /\ b.entry = None => Last(b.equity) = b.capital
    BY <2>1 DEF Balanced
  <2>3. /\ b.trades \in Seq(Trade) /\ n \in Nat /\ DOMAIN b.trades = 1..n
        /\ b.capital \in Amount /\ b.capital = Product(b.trades)
        /\ \A k \in 1..n :
             /\ Follows(b.trades, k)
             /\ b.trades[k].exitSignal # 0 /\ b.trades[k].exit = b.trades[k].exitSignal + 1
             /\ b.trades[k].exit <= last
    BY <2>2 DEF Ledger
  <2>4. last \in Nat /\ bars[last].close \in Int
    <3>1. Len(bars) \in Nat /\ DOMAIN bars = 1..Len(bars)
      BY <1>1, SeriesFacts DEF WalkInv
    <3>2. bars[last] \in PriceBar
      BY <1>1, <2>1, <3>1 DEF WalkInv, Series
    <3>3. bars[last].close \in Int
      BY <3>2 DEF PriceBar
    <3>4. QED
      BY <2>1, <3>1, <3>3
  <2>5. CASE b.entry = None
    <3>1. books = b
      BY <2>5 DEF Settled
    <3>2. ts = b.trades
      BY <3>1
    <3>3. b.invested = Cardinality(HeldBy(ts))
      <4>1. Held(b, last) = HeldBy(ts)
        BY <2>5, <3>2 DEF Held
      <4>2. QED
        BY <2>2, <4>1 DEF Exposed
    <3> HIDE DEF books
    <3>4. \A k \in DOMAIN ts :
            /\ ts[k].entry = ts[k].entrySignal + 1
            /\ ts[k].entry \in 1..ts[k].exit
            /\ Open(ts[k]) => k = Len(ts)
            /\ ~Open(ts[k]) => ts[k].exit = ts[k].exitSignal + 1
            /\ k > 1 => ts[k - 1].exit < ts[k].entry
      BY <2>3, <3>2 DEF Follows, Open
    <3>5. QED
      BY <2>1, <2>2, <2>3, <2>5, <3>1, <3>3, <3>4 DEF HeldBy
  <2>6. CASE b.entry # None
    <3> DEFINE price == bars[last].close
               sold == Sold(b, 0, last, price)
               equity == Append(Front(b.equity), sold.capital)
    <3>1. /\ Booked(sold) /\ sold.invested = b.invested /\ sold.equity = b.equity
          /\ sold.trades \in Seq(Trade) /\ Len(sold.trades) = n + 1
          /\ \A k \in 1..n : sold.trades[k] = b.trades[k]
          /\ sold.trades[n + 1].entrySignal = b.entry.signal /\ sold.trades[n + 1].entry = b.entry.bar
          /\ sold.trades[n + 1].exitSignal = 0 /\ sold.trades[n + 1].exit = last
          /\ sold.capital \in Amount /\ sold.capital = Product(sold.trades)
      <4> HIDE DEF price
      <4>1. price \in Int /\ 0 \in Nat
        BY <2>4 DEF price
      <4>2. QED
        BY <2>2, <2>4, <2>6, <4>1, SoldFacts
    <3>2. books = [sold EXCEPT !.equity = Append(Front(sold.equity), sold.capital)]
      BY <2>6 DEF Settled
    <3> HIDE DEF sold, books
    <3>3. /\ ts = sold.trades /\ books.capital = sold.capital /\ books.invested = b.invested
          /\ books.equity = equity
      <4> DEFINE c == sold.capital  e == sold.entry  s == sold.trades  v == sold.invested
                 p == sold.pending  q == sold.equity  new == Append(Front(q), c)
      <4>1. sold = [capital |-> c, entry |-> e, trades |-> s, invested |-> v, pending |-> p, equity |-> q]
        BY <3>1 DEF Booked
      <4>2. books = [sold EXCEPT !.equity = new]
        BY <3>2
      <4>3. new = equity /\ v = b.invested
        BY <3>1
      <4> HIDE DEF c, e, s, v, p, q, new, equity
      <4>4. books = [capital |-> c, entry |-> e, trades |-> s, invested |-> v, pending |-> p, equity |-> new]
        BY <4>1, <4>2
      <4>5. books.capital = c /\ books.trades = s /\ books.invested = v /\ books.equity = new
        BY <4>4
      <4>6. QED
        BY <4>3, <4>5 DEF c, s
    <3>4. Len(equity) = (last - first) + 1 /\ Last(equity) = sold.capital
      <4> DEFINE R == Amount
                 front == Front(b.equity)
      <4>1. b.equity \in Seq(R) /\ sold.capital \in R /\ Len(b.equity) \in Nat /\ Len(b.equity) # 0
        BY <2>1, <2>2, <3>1
      <4> HIDE DEF R
      <4>2. front \in Seq(R) /\ Len(front) = Len(b.equity) - 1
        BY <4>1 DEF Front
      <4> HIDE DEF front
      <4>3. Len(equity) = Len(front) + 1 /\ equity[Len(equity)] = sold.capital
        BY <4>1, <4>2 DEF front
      <4>4. Len(equity) = (last - first) + 1
        BY <2>1, <2>2, <4>1, <4>2, <4>3
      <4>5. QED
        BY <4>3, <4>4 DEF Last
    <3>5. /\ b.entry.bar \in 1..last /\ b.entry.bar = b.entry.signal + 1
          /\ \A k \in 1..n : b.trades[k].exit < b.entry.bar
      BY <2>2, <2>6 DEF Ledger
    <3>6. b.invested = Cardinality(HeldBy(ts))
      <4>1. HeldBy(sold.trades) = HeldBy(b.trades) \cup Closes(sold.trades[n + 1])
        <5> DEFINE few == b.trades
                   more == sold.trades
        <5>1. /\ few \in Seq(Trade) /\ Len(few) = n /\ n \in Nat
              /\ more \in Seq(Trade) /\ Len(more) = n + 1 /\ \A k \in 1..n : more[k] = few[k]
          BY <2>3, <3>1
        <5> HIDE DEF few, more, n
        <5>2. HeldBy(more) = HeldBy(few) \cup Closes(more[n + 1])
          BY <5>1, HeldGrows
        <5>3. QED
          BY <5>2 DEF few, more
      <4>2. Closes(sold.trades[n + 1]) = b.entry.bar..last
        BY <3>1 DEF Closes, Open
      <4>3. Held(b, last) = HeldBy(ts)
        BY <2>6, <3>3, <4>1, <4>2 DEF Held
      <4>4. QED
        BY <2>2, <4>3 DEF Exposed
    <3> HIDE DEF equity
    <3>7. ASSUME NEW k \in DOMAIN ts
          PROVE  /\ ts[k].entry = ts[k].entrySignal + 1
                 /\ ts[k].entry \in 1..ts[k].exit
                 /\ Open(ts[k]) => k = Len(ts)
                 /\ ~Open(ts[k]) => ts[k].exit = ts[k].exitSignal + 1
                 /\ k > 1 => ts[k - 1].exit < ts[k].entry
      <4>1. k \in 1..n + 1 /\ (k \in 1..n \/ k = n + 1) /\ Len(ts) = n + 1
        BY <2>3, <3>1, <3>3
      <4>2. CASE k \in 1..n
        <5>1. ts[k] = b.trades[k] /\ (k > 1 => ts[k - 1] = b.trades[k - 1])
          BY <2>3, <3>1, <3>3, <4>2
        <5>2. QED
          BY <2>3, <4>2, <5>1 DEF Follows, Open
      <4>3. CASE k = n + 1
        <5>1. k > 1 => ts[k - 1].exit < b.entry.bar
          <6>1. k > 1 => n \in 1..n /\ k - 1 = n
            BY <2>3, <4>3
          <6>2. QED
            BY <3>1, <3>3, <3>5, <6>1
        <5>2. QED
          BY <3>1, <3>3, <3>5, <4>1, <4>3, <5>1 DEF Open
      <4>4. QED
        BY <4>1, <4>2, <4>3
    <3>8. Len(report.equity) = report.days /\ Last(report.equity) = report.capital
          /\ report.capital = Product(report.trades)
      BY <2>1, <3>1, <3>3, <3>4
    <3>9. report.invested = Cardinality(UNION {Closes(ts[k]) : k \in DOMAIN ts})
      BY <2>1, <3>3, <3>6 DEF HeldBy
    <3>10. QED
      BY <2>1, <3>7, <3>8, <3>9
  <2>7. QED
    BY <2>5, <2>6
<1>2. QED
  BY <1>1, WalkInit, WalkStep, PTL DEF SpecWalk

-----------------------------------------------------------------------------
(* No lookahead. *)

\* Two series that differ in the prices of their last bar at most.
Varied(bs, cs) ==
    /\ Series(bs) /\ Series(cs) /\ bs # <<>> /\ Len(cs) = Len(bs)
    /\ \A i \in 1..Len(bs) : cs[i].day = bs[i].day
    /\ \A i \in 1..Len(bs) - 1 : cs[i] = bs[i]

\* Their days are told apart by nothing.
LEMMA VariedDays ==
  ASSUME NEW bs, NEW cs, Varied(bs, cs)
  PROVE  /\ Len(bs) \in Nat /\ DOMAIN bs = 1..Len(bs) /\ DOMAIN cs = 1..Len(bs) /\ Len(cs) = Len(bs)
         /\ Evaluated(cs) = Evaluated(bs) /\ LoopStart(cs) = LoopStart(bs)
<1>1. /\ Len(bs) \in Nat /\ DOMAIN bs = 1..Len(bs) /\ DOMAIN cs = 1..Len(bs) /\ Len(cs) = Len(bs)
      /\ \A i \in 1..Len(bs) : cs[i].day = bs[i].day
  BY SeriesFacts DEF Varied
<1>2. Evaluated(cs) = Evaluated(bs)
  BY <1>1 DEF Evaluated
<1>3. {i \in DOMAIN cs : cs[i].day >= EvaluationStart} = {i \in DOMAIN bs : bs[i].day >= EvaluationStart}
  BY <1>1
<1>4. LoopStart(cs) = LoopStart(bs)
  BY <1>1, <1>3 DEF LoopStart
<1>5. QED
  BY <1>1, <1>2, <1>4

\* Before the last bar an analysis sees the same of both.
LEMMA SeenAlike ==
  ASSUME WalkAssumption, NEW bs, NEW cs, Varied(bs, cs), NEW i \in 1..Len(bs) - 1
  PROVE  Seen(cs, i) = Seen(bs, i)
<1> DEFINE S == {1, i + 1 - Window}
           m == Max(S)
<1>1. Len(bs) \in Nat /\ i \in Nat /\ Window \in Nat /\ \A k \in 1..Len(bs) - 1 : cs[k] = bs[k]
  BY VariedDays DEF WalkAssumption, Varied
<1>2. m \in Nat /\ 1 <= m
  <2> DEFINE T == {y \in S : y \in Nat}
  <2>1. m \in S /\ \A y \in S : y <= m
    <3>1. 1 \in S /\ \A y \in S : y \in Int
      BY <1>1
    <3>2. \E x \in S : \A y \in S : y <= x
      BY <1>1
    <3>3. QED
      BY <3>2 DEF Max
  <2>2. QED
    BY <1>1, <2>1
<1> HIDE DEF m, S
<1>3. SubSeq(cs, m, i) = SubSeq(bs, m, i)
  <2> DEFINE x == SubSeq(bs, m, i)
             y == SubSeq(cs, m, i)
             R == PriceBar
  <2>1. bs \in Seq(R) /\ cs \in Seq(R) /\ i <= Len(bs) /\ i <= Len(cs)
    BY <1>1 DEF Varied, Series
  <2> HIDE DEF R
  <2>2. /\ x \in Seq(R) /\ Len(x) = IF m <= i THEN i - m + 1 ELSE 0
        /\ \A k \in 1..Len(x) : x[k] = bs[m + k - 1]
    BY <1>1, <1>2, <2>1
  <2>3. /\ y \in Seq(R) /\ Len(y) = IF m <= i THEN i - m + 1 ELSE 0
        /\ \A k \in 1..Len(y) : y[k] = cs[m + k - 1]
    BY <1>1, <1>2, <2>1
  <2> HIDE DEF x, y
  <2>4. \A k \in 1..Len(x) : m + k - 1 \in 1..Len(bs) - 1
    BY <1>1, <1>2, <2>2
  <2>5. \A k \in 1..Len(x) : x[k] = y[k]
    BY <1>1, <2>2, <2>3, <2>4
  <2>6. x = y
    BY <2>2, <2>3, <2>5
  <2>7. QED
    BY <2>6 DEF x, y
<1>4. QED
  BY <1>3 DEF Seen, m, S

\* What is known of a signal before the last bar.
LEMMA KnownIs ==
  ASSUME NEW i, NEW e, NEW a, NEW s, NEW p, NEW o, NEW n
  PROVE  Known([bar |-> i, execution |-> e, action |-> a, score |-> s, price |-> p, outcomes |-> o], n)
         = [bar |-> i, execution |-> e, action |-> a, score |-> s, price |-> IF e < n THEN p ELSE 0,
            outcomes |-> [h \in Horizons |-> e + h - 1 < n /\ o[h].known /\ o[h].favorable]]
<1> DEFINE r == [bar |-> i, execution |-> e, action |-> a, score |-> s, price |-> p, outcomes |-> o]
           q == [h \in Horizons |-> e + h - 1 < n /\ o[h].known /\ o[h].favorable]
           v == IF e < n THEN p ELSE 0
<1>1. r.execution = e /\ r.outcomes = o /\ r.price = p
  OBVIOUS
<1>2. Known(r, n) = [r EXCEPT !.outcomes = q, !.price = v]
  <2>1. Known(r, n) = [r EXCEPT !.outcomes = [h \in Horizons |-> r.execution + h - 1 < n
                                                /\ r.outcomes[h].known /\ r.outcomes[h].favorable],
                                !.price = IF r.execution < n THEN r.price ELSE 0]
    BY DEF Known
  <2>2. QED
    BY <1>1, <2>1
<1> HIDE DEF q, v
<1>3. Known(r, n) = [bar |-> i, execution |-> e, action |-> a, score |-> s, price |-> v, outcomes |-> q]
  BY <1>2
<1>4. QED
  BY <1>3 DEF q, v

\* What comes of a signal before the last bar is the same in both.
LEMMA OutcomeAlike ==
  ASSUME WalkAssumption, NEW bs, NEW cs, Varied(bs, cs), NEW i \in 1..Len(bs) - 1, NEW action,
         NEW h \in Horizons, i + 1 + h - 1 < Len(bs)
  PROVE  Outcome(cs, i, action, h) = Outcome(bs, i, action, h)
<1> DEFINE at == i + 1 + h - 1
           paid == i + 1
<1>1. Len(bs) \in Nat /\ Len(cs) = Len(bs) /\ \A k \in 1..Len(bs) - 1 : cs[k] = bs[k]
  BY VariedDays DEF Varied
<1>2. h \in Nat \ {0} /\ i \in Nat
  <2>1. Horizons \in SUBSET (Nat \ {0})
    BY DEF WalkAssumption
  <2>2. QED
    BY <1>1, <2>1
<1>3. at \in 1..Len(bs) - 1 /\ paid \in 1..Len(bs) - 1
  BY <1>1, <1>2
<1>4. cs[at] = bs[at] /\ cs[paid] = bs[paid]
  BY <1>1, <1>3
<1>5. QED
  BY <1>1, <1>4 DEF Outcome, ExecutionAt

\* Both series give the same signals, known alike before the last bar.
LEMMA SignalsAlike ==
  ASSUME WalkAssumption, NEW bs, NEW cs, Varied(bs, cs)
  PROVE  LET S == ValidateSignals(bs)
             T == ValidateSignals(cs)
         IN  /\ \E m \in Nat : DOMAIN S = 1..m /\ DOMAIN T = 1..m
             /\ \A k \in DOMAIN S :
                  /\ T[k].bar = S[k].bar /\ T[k].action = S[k].action
                  /\ Known(T[k], Len(bs)) = Known(S[k], Len(bs))
             /\ \A k, l \in DOMAIN S : S[k].bar = S[l].bar => S[k].action = S[l].action
<1> DEFINE from == LoopStart(bs)
           n == Len(bs)
           judged == {i \in from..n - 1 : bs[i].day <= EvaluationEnd}
           analysis == [i \in judged |-> Analyzer(Seen(bs, i))]
           before(i) == IF i = from THEN "wait" ELSE analysis[i - 1].action
           acts(i) == analysis[i].action \in Actionable /\ analysis[i].action # before(i)
           given == {i \in judged : bs[i].day >= EvaluationStart /\ acts(i)}
           Signal(xs, i) == [bar |-> i, execution |-> ExecutionAt(i), action |-> analysis[i].action,
                             score |-> analysis[i].score, price |-> xs[ExecutionAt(i)].open,
                             outcomes |-> [h \in Horizons |-> Outcome(xs, i, analysis[i].action, h)]]
           Signals(xs) == [k \in 1..Cardinality(given) |-> Signal(xs, Ith(given, k))]
<1>1. /\ n \in Nat /\ Len(cs) = n /\ LoopStart(cs) = from
      /\ \A i \in 1..n : cs[i].day = bs[i].day
      /\ \A i \in 1..n - 1 : cs[i] = bs[i]
  BY VariedDays DEF Varied
<1>2. from \in Nat /\ from >= 2
  BY LoopStartIs DEF Varied
<1>3. from..n - 1 \subseteq 1..n - 1 /\ from..n - 1 \subseteq 1..n
  BY <1>1, <1>2
<1> HIDE DEF from
<1>4. ValidateSignals(bs) = Signals(bs)
  BY DEF ValidateSignals, from
<1>5. ValidateSignals(cs) = Signals(cs)
  <2> DEFINE judged2 == {i \in from..n - 1 : cs[i].day <= EvaluationEnd}
             analysis2 == [i \in judged2 |-> Analyzer(Seen(cs, i))]
             before2(i) == IF i = from THEN "wait" ELSE analysis2[i - 1].action
             given2 == {i \in judged2 : /\ cs[i].day >= EvaluationStart
                                        /\ analysis2[i].action \in Actionable
                                        /\ analysis2[i].action # before2(i)}
             Signal2(i) == [bar |-> i, execution |-> ExecutionAt(i), action |-> analysis2[i].action,
                            score |-> analysis2[i].score, price |-> cs[ExecutionAt(i)].open,
                            outcomes |-> [h \in Horizons |-> Outcome(cs, i, analysis2[i].action, h)]]
             Signals2 == [k \in 1..Cardinality(given2) |-> Signal2(Ith(given2, k))]
  <2>1. ValidateSignals(cs) = Signals2
    BY <1>1 DEF ValidateSignals
  <2>2. judged2 = judged
    BY <1>1, <1>3
  <2>3. analysis2 = analysis
    <3>1. \A i \in judged : Seen(cs, i) = Seen(bs, i)
      BY <1>3, SeenAlike
    <3>2. QED
      BY <2>2, <3>1
  <2>4. given2 = given
    <3>1. \A i \in judged : cs[i].day = bs[i].day
      BY <1>1, <1>3
    <3> HIDE DEF judged, judged2, analysis, analysis2
    <3>2. QED
      BY <2>2, <2>3, <3>1
  <2> HIDE DEF judged, judged2, analysis, analysis2, given, given2
  <2>5. \A i : Signal2(i) = Signal(cs, i)
    BY <2>3
  <2> HIDE DEF Signal, Signal2
  <2>6. Signals2 = Signals(cs)
    BY <2>4, <2>5
  <2>7. QED
    BY <2>1, <2>6
<1>6. given \in SUBSET Nat /\ given \subseteq 1..n - 1 /\ IsFiniteSet(given)
  <2>1. 1..n - 1 \subseteq Nat /\ given \subseteq from..n - 1
    BY <1>1
  <2>2. IsFiniteSet(1..n - 1)
    BY <1>1, FS_Interval
  <2>3. given \subseteq 1..n - 1
    BY <1>3, <2>1
  <2>4. QED
    BY <2>1, <2>2, <2>3, FS_Subset
<1> HIDE DEF judged, analysis, given
<1>7. ASSUME NEW i \in 1..n - 1
      PROVE  Known(Signal(cs, i), n) = Known(Signal(bs, i), n)
  <2> DEFINE a == analysis[i].action
             s == analysis[i].score
             Price(xs) == IF i + 1 < n THEN xs[i + 1].open ELSE 0
             o(xs) == [h \in Horizons |-> Outcome(xs, i, a, h)]
             Rating(xs, h) == i + 1 + h - 1 < n /\ o(xs)[h].known /\ o(xs)[h].favorable
             Rate(xs, h) == i + 1 + h - 1 < n /\ Outcome(xs, i, a, h).known /\ Outcome(xs, i, a, h).favorable
             Then(xs) == [bar |-> i, execution |-> i + 1, action |-> a, score |-> s, price |-> Price(xs),
                          outcomes |-> [h \in Horizons |-> Rating(xs, h)]]
  <2> HIDE DEF a, s
  <2>1. ASSUME NEW xs
        PROVE  Known(Signal(xs, i), n) = Then(xs)
    <3> DEFINE p == xs[i + 1].open
               os == o(xs)
    <3>1. Signal(xs, i) = [bar |-> i, execution |-> i + 1, action |-> a, score |-> s, price |-> p, outcomes |-> os]
      BY DEF ExecutionAt, a, s
    <3> HIDE DEF Signal, os, p, n
    <3>2. Known([bar |-> i, execution |-> i + 1, action |-> a, score |-> s, price |-> p, outcomes |-> os], n)
          = [bar |-> i, execution |-> i + 1, action |-> a, score |-> s, price |-> IF i + 1 < n THEN p ELSE 0,
             outcomes |-> [h \in Horizons |-> i + 1 + h - 1 < n /\ os[h].known /\ os[h].favorable]]
      BY KnownIs
    <3>3. QED
      BY <3>1, <3>2 DEF os, p
  <2>2. Price(cs) = Price(bs)
    BY <1>1
  <2>3. ASSUME NEW h \in Horizons
        PROVE  Rating(cs, h) = Rating(bs, h)
    <3>1. CASE i + 1 + h - 1 < n
      <4>1. Outcome(cs, i, a, h) = Outcome(bs, i, a, h)
        BY <3>1, OutcomeAlike
      <4>2. QED
        BY <4>1
    <3>2. CASE ~(i + 1 + h - 1 < n)
      BY <3>2
    <3>3. QED
      BY <3>1, <3>2
  <2> HIDE DEF Price, Rating, Signal, n
  <2>4. Then(cs) = Then(bs)
    BY <2>2, <2>3
  <2>5. QED
    BY <2>1, <2>4
<1>8. Cardinality(given) \in Nat
  BY <1>6, FS_CardinalityType
<1>9. \A k \in 1..Cardinality(given) : Ith(given, k) \in 1..n - 1
  BY <1>6, IthIsElement
<1>10. \A xs, i : Signal(xs, i).bar = i /\ Signal(xs, i).action = analysis[i].action
  OBVIOUS
<1> HIDE DEF Signal, n
<1> DEFINE S == Signals(bs)
           T == Signals(cs)
<1>11. DOMAIN S = 1..Cardinality(given) /\ DOMAIN T = 1..Cardinality(given)
  OBVIOUS
<1>12. \A k \in 1..Cardinality(given) : S[k] = Signal(bs, Ith(given, k)) /\ T[k] = Signal(cs, Ith(given, k))
  OBVIOUS
<1> HIDE DEF S, T
<1>13. ASSUME NEW k \in DOMAIN S
       PROVE  T[k].bar = S[k].bar /\ T[k].action = S[k].action /\ Known(T[k], n) = Known(S[k], n)
  BY <1>7, <1>9, <1>10, <1>11, <1>12
<1>14. ASSUME NEW k \in DOMAIN S, NEW l \in DOMAIN S, S[k].bar = S[l].bar
       PROVE  S[k].action = S[l].action
  BY <1>10, <1>11, <1>12, <1>14
<1>15. QED
  BY <1>4, <1>5, <1>8, <1>11, <1>13, <1>14 DEF S, T, n

\* Books whose past is the same: what was traded and is held, and what is pending but
\* for its price and its ratings.
Alike(b, c) ==
    /\ b.trades = c.trades /\ b.entry = c.entry
    /\ b.pending = None <=> c.pending = None
    /\ b.pending # None => b.pending.bar = c.pending.bar /\ b.pending.action = c.pending.action

\* What executing a due signal makes of the trades and the entry.
LEMMA ExecutedForm ==
  ASSUME NEW b, Booked(b), NEW bs, NEW i, b.pending # None => b.pending.execution = i
  PROVE  LET done == Executed(b, bs, i)
             price == bs[i].open
             buys == b.pending # None /\ b.pending.action = "entry_watch" /\ b.entry = None
             sells == b.pending # None /\ b.pending.action = "exit_watch" /\ b.entry # None
             trade == [entrySignal |-> b.entry.signal, entry |-> b.entry.bar,
                       exitSignal |-> b.pending.bar, exit |-> i, held |-> i - b.entry.bar,
                       buy |-> Buying(b.entry.price), sell |-> Selling(price)]
         IN  /\ Booked(done) /\ done.pending = None
             /\ done.trades = IF sells THEN Append(b.trades, trade) ELSE b.trades
             /\ done.entry = IF buys THEN [bar |-> i, signal |-> b.pending.bar, price |-> price]
                             ELSE IF sells THEN None ELSE b.entry
<1> DEFINE done == Executed(b, bs, i)
           price == bs[i].open
           buys == b.pending # None /\ b.pending.action = "entry_watch" /\ b.entry = None
           sells == b.pending # None /\ b.pending.action = "exit_watch" /\ b.entry # None
           trade == [entrySignal |-> b.entry.signal, entry |-> b.entry.bar,
                     exitSignal |-> b.pending.bar, exit |-> i, held |-> i - b.entry.bar,
                     buy |-> Buying(b.entry.price), sell |-> Selling(price)]
           bought == [bar |-> i, signal |-> b.pending.bar, price |-> price]
           worth == Worth(b, Selling(price))
           more == Append(b.trades, trade)
           c == b.capital  e == b.entry  ts == b.trades  v == b.invested  p == b.pending  q == b.equity
<1>1. b = [capital |-> c, entry |-> e, trades |-> ts, invested |-> v, pending |-> p, equity |-> q]
  BY DEF Booked
<1>2. CASE b.pending = None
  BY <1>2 DEF Executed
<1>3. CASE buys
  <2> DEFINE mid == [b EXCEPT !.entry = bought]
  <2>1. done = [mid EXCEPT !.pending = None]
    BY <1>3 DEF Executed
  <2>2. ~sells
    BY <1>3
  <2> HIDE DEF c, e, ts, v, p, q, mid, done, bought, buys, sells, trade, more
  <2>3. mid = [capital |-> c, entry |-> bought, trades |-> ts, invested |-> v, pending |-> p, equity |-> q]
    BY <1>1 DEF mid
  <2>4. done = [capital |-> c, entry |-> bought, trades |-> ts, invested |-> v, pending |-> None, equity |-> q]
    BY <2>1, <2>3
  <2>5. Booked(done) /\ done.pending = None /\ done.trades = ts /\ done.entry = bought
    BY <2>4 DEF Booked
  <2>6. done.trades = b.trades
    BY <2>5 DEF ts
  <2> HIDE DEF price
  <2>7. QED
    BY <1>3, <2>2, <2>5, <2>6 DEF done, bought, buys, sells, trade, more, price
<1>4. CASE sells
  <2> DEFINE mid == Sold(b, b.pending.bar, i, price)
  <2>1. done = [mid EXCEPT !.pending = None]
    <3>1. "entry_watch" # "exit_watch"
      OBVIOUS
    <3>2. QED
      BY <1>4, <3>1 DEF Executed
  <2>2. ~buys
    BY <1>4
  <2>3. mid = [b EXCEPT !.capital = worth, !.trades = more, !.entry = None]
    BY DEF Sold
  <2> HIDE DEF c, e, ts, v, p, q, mid, done, bought, buys, sells, trade, more, worth
  <2>4. mid = [capital |-> worth, entry |-> None, trades |-> more, invested |-> v, pending |-> p, equity |-> q]
    BY <1>1, <2>3
  <2>5. done = [capital |-> worth, entry |-> None, trades |-> more, invested |-> v, pending |-> None, equity |-> q]
    BY <2>1, <2>4
  <2>6. Booked(done) /\ done.pending = None /\ done.trades = more /\ done.entry = None
    BY <2>5 DEF Booked
  <2> HIDE DEF price
  <2>7. QED
    BY <1>4, <2>2, <2>6 DEF done, bought, buys, sells, trade, more, price
<1>5. CASE b.pending # None /\ ~buys /\ ~sells
  <2>1. done = [b EXCEPT !.pending = None]
    BY <1>5 DEF Executed
  <2> HIDE DEF c, e, ts, v, p, q, done, bought, buys, sells, trade, more
  <2>2. done = [capital |-> c, entry |-> e, trades |-> ts, invested |-> v, pending |-> None, equity |-> q]
    BY <1>1, <2>1
  <2>3. Booked(done) /\ done.pending = None /\ done.trades = ts /\ done.entry = e
    BY <2>2 DEF Booked
  <2>4. done.trades = b.trades /\ done.entry = b.entry
    BY <2>3 DEF ts, e
  <2> HIDE DEF price
  <2>5. QED
    BY <1>5, <2>3, <2>4 DEF done, bought, buys, sells, trade, more, price
<1>6. QED
  BY <1>2, <1>3, <1>4, <1>5

\* The rest of a bar's walk leaves the trades and the entry alone.
LEMMA WalkedForm ==
  ASSUME NEW b, NEW bs, NEW i, NEW signals,
         Booked(Executed(b, bs, i)), Executed(b, bs, i).pending = None
  PROVE  LET done == Executed(b, bs, i)
             walked == Walked(b, bs, signals, i)
         IN  walked.trades = done.trades /\ walked.entry = done.entry
             /\ walked.pending = SignalAt(signals, i)
<1> DEFINE done == Executed(b, bs, i)
           given == SignalAt(signals, i)
           walked == Walked(b, bs, signals, i)
           invested == IF done.entry # None THEN done.invested + 1 ELSE done.invested
           equity == Append(done.equity, IF done.entry # None THEN Worth(done, Base * bs[i].close) ELSE done.capital)
           c == done.capital  e == done.entry  ts == done.trades  v == done.invested
           p == done.pending  q == done.equity
<1>1. done = [capital |-> c, entry |-> e, trades |-> ts, invested |-> v, pending |-> p, equity |-> q] /\ p = None
  BY DEF Booked
<1>2. walked = [done EXCEPT !.pending = given, !.invested = invested, !.equity = equity]
  <2> HIDE DEF given
  <2>1. walked = [done EXCEPT !.pending = IF given # None THEN given ELSE done.pending,
                              !.invested = invested, !.equity = equity]
    BY DEF Walked, given
  <2>2. (IF given # None THEN given ELSE done.pending) = given
    OBVIOUS
  <2> HIDE DEF done, walked, invested, equity
  <2>3. QED
    BY <2>1, <2>2
<1> HIDE DEF c, e, ts, v, p, q, done, given, walked, invested, equity
<1>3. walked = [capital |-> c, entry |-> e, trades |-> ts, invested |-> invested, pending |-> given, equity |-> equity]
  BY <1>1, <1>2
<1>4. walked.trades = ts /\ walked.entry = e /\ walked.pending = given
  BY <1>3
<1>5. QED
  BY <1>4 DEF ts, e, given, walked, done

\* A bar that is the same in both keeps the books alike.
LEMMA WalkedAlike ==
  ASSUME NEW b, NEW c, Booked(b), Booked(c), Alike(b, c), NEW bs, NEW cs, NEW i, cs[i] = bs[i],
         b.pending # None => b.pending.execution = i, c.pending # None => c.pending.execution = i,
         Booked(Executed(b, bs, i)), Executed(b, bs, i).pending = None,
         Booked(Executed(c, cs, i)), Executed(c, cs, i).pending = None,
         NEW S, NEW T, SignalAt(S, i) = None <=> SignalAt(T, i) = None,
         SignalAt(S, i) # None => /\ SignalAt(S, i).bar = SignalAt(T, i).bar
                                  /\ SignalAt(S, i).action = SignalAt(T, i).action
  PROVE  Alike(Walked(b, bs, S, i), Walked(c, cs, T, i))
<1> DEFINE d == Executed(b, bs, i)
           e == Executed(c, cs, i)
<1>1. Booked(d) /\ d.pending = None
  OBVIOUS
<1>2. Booked(e) /\ e.pending = None
  OBVIOUS
<1>3. d.trades = e.trades /\ d.entry = e.entry
  <2> DEFINE price == bs[i].open
             buys(x) == x.pending # None /\ x.pending.action = "entry_watch" /\ x.entry = None
             sells(x) == x.pending # None /\ x.pending.action = "exit_watch" /\ x.entry # None
             trade(x) == [entrySignal |-> x.entry.signal, entry |-> x.entry.bar,
                          exitSignal |-> x.pending.bar, exit |-> i, held |-> i - x.entry.bar,
                          buy |-> Buying(x.entry.price), sell |-> Selling(price)]
             bought(x) == [bar |-> i, signal |-> x.pending.bar, price |-> price]
  <2>1. /\ d.trades = IF sells(b) THEN Append(b.trades, trade(b)) ELSE b.trades
        /\ d.entry = IF buys(b) THEN bought(b) ELSE IF sells(b) THEN None ELSE b.entry
    BY ExecutedForm
  <2>2. /\ e.trades = IF sells(c) THEN Append(c.trades, trade(c)) ELSE c.trades
        /\ e.entry = IF buys(c) THEN bought(c) ELSE IF sells(c) THEN None ELSE c.entry
    BY ExecutedForm
  <2>3. b.trades = c.trades /\ b.entry = c.entry
    BY DEF Alike
  <2>4. (buys(b) <=> buys(c)) /\ (sells(b) <=> sells(c))
    BY DEF Alike
  <2>5. sells(b) => trade(b) = trade(c)
    BY DEF Alike
  <2>6. buys(b) => bought(b) = bought(c)
    BY DEF Alike
  <2> HIDE DEF buys, sells, trade, bought, d, e
  <2>7. QED
    BY <2>1, <2>2, <2>3, <2>4, <2>5, <2>6
<1>4. /\ Walked(b, bs, S, i).trades = d.trades /\ Walked(b, bs, S, i).entry = d.entry
      /\ Walked(b, bs, S, i).pending = SignalAt(S, i)
  BY <1>1, WalkedForm
<1>5. /\ Walked(c, cs, T, i).trades = e.trades /\ Walked(c, cs, T, i).entry = e.entry
      /\ Walked(c, cs, T, i).pending = SignalAt(T, i)
  BY <1>2, WalkedForm
<1> HIDE DEF d, e
<1>6. QED
  BY <1>3, <1>4, <1>5 DEF Alike

\* Signals that are alike are found alike.
LEMMA SignalAtAlike ==
  ASSUME NEW S, NEW T, DOMAIN T = DOMAIN S,
         \A k \in DOMAIN S : S[k].bar # 0 /\ T[k].bar = S[k].bar /\ T[k].action = S[k].action,
         \A k, l \in DOMAIN S : S[k].bar = S[l].bar => S[k].action = S[l].action,
         NEW i
  PROVE  /\ SignalAt(S, i) = None <=> SignalAt(T, i) = None
         /\ SignalAt(S, i) # None => /\ SignalAt(S, i).bar = SignalAt(T, i).bar
                                     /\ SignalAt(S, i).action = SignalAt(T, i).action
<1>1. CASE \E k \in DOMAIN S : S[k].bar = i
  <2> DEFINE k == CHOOSE k \in DOMAIN S : S[k].bar = i
             l == CHOOSE l \in DOMAIN T : T[l].bar = i
  <2>1. k \in DOMAIN S /\ S[k].bar = i
    BY <1>1
  <2>2. \E x \in DOMAIN T : T[x].bar = i
    BY <1>1
  <2>3. l \in DOMAIN T /\ T[l].bar = i
    BY <2>2
  <2>4. SignalAt(S, i) = S[k]
    BY <1>1 DEF SignalAt
  <2>5. SignalAt(T, i) = T[l]
    BY <2>2 DEF SignalAt
  <2> HIDE DEF k, l
  <2>6. S[l].bar = i /\ T[l].action = S[l].action /\ l \in DOMAIN S
    BY <2>3
  <2>7. S[k].action = T[l].action
    BY <2>1, <2>6
  <2>8. S[k] # None /\ T[l] # None
    BY <2>1, <2>3, <2>6 DEF None
  <2>9. QED
    BY <2>1, <2>3, <2>4, <2>5, <2>7, <2>8
<1>2. CASE ~\E k \in DOMAIN S : S[k].bar = i
  <2>1. ~\E k \in DOMAIN T : T[k].bar = i
    BY <1>2
  <2>2. SignalAt(S, i) = None
    BY <1>2 DEF SignalAt
  <2>3. SignalAt(T, i) = None
    BY <2>1 DEF SignalAt
  <2>4. QED
    BY <2>2, <2>3
<1>3. QED
  BY <1>1, <1>2

\* Before the last bar the books of both are alike.
LEMMA BooksAlike ==
  ASSUME WalkAssumption, NEW bs, NEW cs, Varied(bs, cs),
         NEW first \in Nat \ {0}, NEW last \in 1..Len(bs), first <= last,
         first = Min(Evaluated(bs)), last = Max(Evaluated(bs)),
         NEW until \in first - 1..last, until < Len(bs)
  PROVE  Alike(BooksOf(bs, ValidateSignals(bs))[until], BooksOf(cs, ValidateSignals(cs))[until])
<1> DEFINE S == ValidateSignals(bs)
           T == ValidateSignals(cs)
           books == BooksOf(bs, S)
           others == BooksOf(cs, T)
           n == Len(bs)
           P == {i \in first - 1..until : Alike(books[i], others[i])}
<1>1. /\ n \in Nat /\ Len(cs) = n /\ Evaluated(cs) = Evaluated(bs) /\ Series(bs) /\ Series(cs) /\ bs # <<>>
      /\ \A i \in 1..n - 1 : cs[i] = bs[i]
  BY VariedDays DEF Varied
<1>2. cs # <<>>
  <2>1. bs \in Seq(PriceBar) /\ cs \in Seq(PriceBar)
    BY <1>1 DEF Series
  <2>2. QED
    BY <1>1, <2>1
<1>3. first = Min(Evaluated(cs)) /\ last = Max(Evaluated(cs))
  BY <1>1
<1>4. /\ first - 1 \in Nat /\ last \in Nat /\ last <= n /\ until \in Nat /\ until <= last
      /\ first - 1 <= until /\ until < n
  BY <1>1
<1>5. /\ books[first - 1] = OpenBooks /\ \A i \in first..last : books[i] = Walked(books[i - 1], bs, S, i)
      /\ others[first - 1] = OpenBooks /\ \A i \in first..last : others[i] = Walked(others[i - 1], cs, T, i)
  <2> HIDE DEF S, T
  <2>1. books[first - 1] = OpenBooks /\ \A i \in first..last : books[i] = Walked(books[i - 1], bs, S, i)
    BY <1>4, BooksFacts
  <2>2. others[first - 1] = OpenBooks /\ \A i \in first..last : others[i] = Walked(others[i - 1], cs, T, i)
    BY <1>3, <1>4, BooksFacts
  <2>3. QED
    BY <2>1, <2>2
<1>6. /\ \A i \in first - 1..last : Balanced(books[i], first, i)
      /\ \A i \in first - 1..last : Balanced(others[i], first, i)
  <2>1. \A i \in first - 1..last : Balanced(books[i], first, i)
    BY <1>1, BooksAreBalanced
  <2>2. last \in 1..Len(cs)
    BY <1>1
  <2>3. \A i \in first - 1..last : Balanced(others[i], first, i)
    BY <1>1, <1>2, <1>3, <2>2, BooksAreBalanced
  <2>4. QED
    BY <2>1, <2>3
<1>7. /\ \E m \in Nat : DOMAIN S = 1..m /\ DOMAIN T = 1..m
      /\ \A k \in DOMAIN S : S[k].bar # 0 /\ T[k].bar = S[k].bar /\ T[k].action = S[k].action
      /\ \A k, l \in DOMAIN S : S[k].bar = S[l].bar => S[k].action = S[l].action
  <2>1. /\ \E m \in Nat : DOMAIN S = 1..m /\ DOMAIN T = 1..m
        /\ \A k \in DOMAIN S : T[k].bar = S[k].bar /\ T[k].action = S[k].action
        /\ \A k, l \in DOMAIN S : S[k].bar = S[l].bar => S[k].action = S[l].action
    BY SignalsAlike
  <2>2. \A k \in DOMAIN S : S[k].bar \in 1..n - 1
    BY <1>1, SignalFacts
  <2>3. \A x \in 1..n - 1 : x # 0
    BY <1>1
  <2> HIDE DEF S, T, n
  <2>4. QED
    BY <2>1, <2>2, <2>3
<1> HIDE DEF S, T, books, others, n
<1>8. \A i : /\ SignalAt(S, i) = None <=> SignalAt(T, i) = None
             /\ SignalAt(S, i) # None => /\ SignalAt(S, i).bar = SignalAt(T, i).bar
                                         /\ SignalAt(S, i).action = SignalAt(T, i).action
  <2>1. DOMAIN T = DOMAIN S
    BY <1>7
  <2> SUFFICES ASSUME NEW i
               PROVE  /\ SignalAt(S, i) = None <=> SignalAt(T, i) = None
                      /\ SignalAt(S, i) # None => /\ SignalAt(S, i).bar = SignalAt(T, i).bar
                                                  /\ SignalAt(S, i).action = SignalAt(T, i).action
    OBVIOUS
  <2>2. \A k \in DOMAIN S : S[k].bar # 0 /\ T[k].bar = S[k].bar /\ T[k].action = S[k].action
    BY <1>7
  <2>3. \A k, l \in DOMAIN S : S[k].bar = S[l].bar => S[k].action = S[l].action
    BY <1>7
  <2>4. QED
    BY <2>1, <2>2, <2>3, SignalAtAlike
<1>9. first - 1 \in P
  <2>1. Alike(OpenBooks, OpenBooks)
    BY DEF Alike
  <2>2. first - 1 \in first - 1..until
    BY <1>4
  <2>3. QED
    BY <1>5, <2>1, <2>2
<1>10. ASSUME NEW j \in first - 1..until - 1, j \in P
       PROVE  j + 1 \in P
  <2> DEFINE i == j + 1
             b == books[j]
             c == others[j]
  <2>1. /\ i \in 1..n /\ i \in 1..n - 1 /\ first \in 1..i /\ i - 1 = j /\ i \in first..last
        /\ i \in first - 1..until /\ j \in first - 1..last
    <3>1. j \in Nat /\ first - 1 <= j /\ j <= until - 1
      BY <1>4
    <3>2. i \in Nat /\ first <= i /\ i <= until /\ i <= last /\ i <= n - 1 /\ j <= last /\ i - 1 = j
      BY <1>1, <1>4, <3>1
    <3> HIDE DEF i
    <3>3. QED
      BY <1>1, <1>4, <3>1, <3>2
  <2>2. Alike(b, c) /\ Balanced(b, first, i - 1) /\ Balanced(c, first, i - 1)
    BY <1>6, <1>10, <2>1
  <2>3. books[i] = Walked(b, bs, S, i) /\ others[i] = Walked(c, cs, T, i) /\ cs[i] = bs[i]
    BY <1>1, <1>5, <2>1
  <2> HIDE DEF b, c, i
  <2>4. i \in 1..Len(bs) /\ i \in 1..Len(cs)
    BY <1>1, <2>1 DEF n
  <2>5. Booked(Executed(b, bs, i)) /\ Executed(b, bs, i).pending = None
    <3>1. Ledger(Executed(b, bs, i), i) /\ Executed(b, bs, i).pending = None
      BY <1>1, <2>1, <2>2, <2>4, ExecutedIs
    <3>2. QED
      BY <3>1 DEF Ledger
  <2>6. Booked(Executed(c, cs, i)) /\ Executed(c, cs, i).pending = None
    <3>1. Ledger(Executed(c, cs, i), i) /\ Executed(c, cs, i).pending = None
      BY <1>1, <2>1, <2>2, <2>4, ExecutedIs
    <3>2. QED
      BY <3>1 DEF Ledger
  <2>7. /\ Booked(b) /\ Booked(c)
        /\ b.pending # None => b.pending.execution = i
        /\ c.pending # None => c.pending.execution = i
    <3>1. i \in Nat /\ (i - 1) + 1 = i
      BY <1>1, <2>1
    <3>2. /\ b.pending # None => b.pending.execution = (i - 1) + 1
          /\ c.pending # None => c.pending.execution = (i - 1) + 1
      BY <2>2 DEF Balanced
    <3>3. QED
      BY <2>2, <3>1, <3>2 DEF Balanced, Ledger
  <2>8. Alike(Walked(b, bs, S, i), Walked(c, cs, T, i))
    BY <1>8, <2>2, <2>3, <2>5, <2>6, <2>7, WalkedAlike
  <2>9. i \in P
    BY <2>1, <2>3, <2>8
  <2>10. QED
    BY <2>9 DEF i
<1> HIDE DEF P
<1>11. until \in P
  <2>1. until \in first - 1..until
    BY <1>4
  <2>2. QED
    BY <1>4, <1>9, <1>10, <2>1, Along
<1>12. QED
  BY <1>11 DEF P, books, others, S, T

\* Trades that go on from others, and tell nothing more of the bars before n.
Later(ts, base, n) ==
    /\ ts \in Seq(Trade) /\ base \in Seq(Trade) /\ Len(base) <= Len(ts)
    /\ \A k \in 1..Len(base) : ts[k] = base[k]
    /\ \A k \in 1..Len(ts) : k \in 1..Len(base) \/ Open(ts[k]) \/ ts[k].exit = n

LEMMA LaterIsSo ==
  ASSUME NEW n, NEW ts \in Seq(Trade)
  PROVE  Later(ts, ts, n)
<1>1. Len(ts) \in Nat
  OBVIOUS
<1>2. QED
  BY <1>1 DEF Later

LEMMA LaterAgain ==
  ASSUME NEW n, NEW ts, NEW us, NEW base, Later(ts, us, n), Later(us, base, n)
  PROVE  Later(ts, base, n)
<1>1. /\ ts \in Seq(Trade) /\ us \in Seq(Trade) /\ base \in Seq(Trade)
      /\ Len(base) <= Len(us) /\ Len(us) <= Len(ts)
      /\ \A k \in 1..Len(base) : us[k] = base[k]
      /\ \A k \in 1..Len(us) : ts[k] = us[k]
      /\ \A k \in 1..Len(us) : k \in 1..Len(base) \/ Open(us[k]) \/ us[k].exit = n
      /\ \A k \in 1..Len(ts) : k \in 1..Len(us) \/ Open(ts[k]) \/ ts[k].exit = n
  BY DEF Later
<1>2. Len(ts) \in Nat /\ Len(us) \in Nat /\ Len(base) \in Nat
  BY <1>1
<1>3. Len(base) <= Len(ts) /\ \A k \in 1..Len(base) : k \in 1..Len(us)
  BY <1>1, <1>2
<1>4. \A k \in 1..Len(base) : ts[k] = base[k]
  BY <1>1, <1>3
<1>5. \A k \in 1..Len(ts) : k \in 1..Len(base) \/ Open(ts[k]) \/ ts[k].exit = n
  BY <1>1
<1>6. QED
  BY <1>1, <1>3, <1>4, <1>5 DEF Later

\* Trades that go on from the same ones tell the same of the bars before n.
LEMMA PastOfLater ==
  ASSUME NEW n \in Nat, NEW ts, NEW us, NEW base, Later(ts, base, n), Later(us, base, n)
  PROVE  {<<k, ts[k]>> : k \in {k \in DOMAIN ts : ~Open(ts[k]) /\ ts[k].exit < n}}
         = {<<k, us[k]>> : k \in {k \in DOMAIN us : ~Open(us[k]) /\ us[k].exit < n}}
<1> DEFINE Told(x) == {k \in DOMAIN x : ~Open(x[k]) /\ x[k].exit < n}
           told == {k \in 1..Len(base) : ~Open(base[k]) /\ base[k].exit < n}
<1>1. ASSUME NEW x, Later(x, base, n)
      PROVE  Told(x) = told /\ \A k \in told : x[k] = base[k]
  <2>1. /\ DOMAIN x = 1..Len(x) /\ Len(x) \in Nat /\ Len(base) \in Nat /\ Len(base) <= Len(x)
        /\ \A k \in 1..Len(base) : x[k] = base[k]
        /\ \A k \in 1..Len(x) : k \in 1..Len(base) \/ Open(x[k]) \/ x[k].exit = n
    BY <1>1 DEF Later
  <2>2. ~(n < n) /\ \A k \in 1..Len(base) : k \in 1..Len(x)
    BY <2>1
  <2>3. Told(x) \subseteq told
    BY <2>1, <2>2
  <2>4. told \subseteq Told(x)
    BY <2>1, <2>2
  <2>5. QED
    BY <2>1, <2>3, <2>4
<1> HIDE DEF Told, told
<1>2. Told(ts) = told /\ Told(us) = told /\ \A k \in told : ts[k] = us[k]
  BY <1>1
<1>3. {<<k, ts[k]>> : k \in Told(ts)} = {<<k, us[k]>> : k \in Told(us)}
  BY <1>2
<1>4. QED
  BY <1>3 DEF Told

\* Selling what is still held adds an open trade.
LEMMA SettledIsLater ==
  ASSUME WalkAssumption, NEW bs, Series(bs), NEW i \in 1..Len(bs), NEW b, Ledger(b, i), NEW n
  PROVE  Later(Settled(b, bs, i).trades, b.trades, n)
<1>1. b.trades \in Seq(Trade)
  BY DEF Ledger
<1>2. CASE b.entry = None
  <2>1. Settled(b, bs, i) = b
    BY <1>2 DEF Settled
  <2>2. QED
    BY <1>1, <2>1, LaterIsSo
<1>3. CASE b.entry # None
  <2> DEFINE price == bs[i].close
             sold == Sold(b, 0, i, price)
             m == Len(b.trades)
             books == Settled(b, bs, i)
  <2>1. i \in Nat /\ price \in Int /\ 0 \in Nat
    <3>1. Len(bs) \in Nat /\ DOMAIN bs = 1..Len(bs)
      BY SeriesFacts
    <3>2. bs[i] \in PriceBar
      BY <3>1 DEF Series
    <3>3. price \in Int
      BY <3>2 DEF PriceBar
    <3>4. QED
      BY <3>1, <3>3
  <2>2. books = [sold EXCEPT !.equity = Append(Front(sold.equity), sold.capital)]
    BY <1>3 DEF Settled
  <2> HIDE DEF price
  <2>3. /\ Booked(sold) /\ m \in Nat /\ sold.trades \in Seq(Trade) /\ Len(sold.trades) = m + 1
        /\ \A k \in 1..m : sold.trades[k] = b.trades[k]
        /\ sold.trades[m + 1].exitSignal = 0
    BY <1>3, <2>1, SoldFacts
  <2> HIDE DEF sold, books
  <2>4. books.trades = sold.trades
    <3> DEFINE c == sold.capital  e == sold.entry  s == sold.trades  v == sold.invested
               p == sold.pending  q == sold.equity  new == Append(Front(q), c)
    <3>1. sold = [capital |-> c, entry |-> e, trades |-> s, invested |-> v, pending |-> p, equity |-> q]
      BY <2>3 DEF Booked
    <3>2. books = [sold EXCEPT !.equity = new]
      BY <2>2
    <3> HIDE DEF c, e, s, v, p, q, new
    <3>3. books = [capital |-> c, entry |-> e, trades |-> s, invested |-> v, pending |-> p, equity |-> new]
      BY <3>1, <3>2
    <3>4. books.trades = s
      BY <3>3
    <3>5. QED
      BY <3>4 DEF s
  <2> DEFINE ts == books.trades
  <2>5. Open(ts[m + 1])
    BY <2>3, <2>4 DEF Open
  <2>6. \A k \in 1..m + 1 : k \in 1..m \/ k = m + 1
    BY <2>3
  <2>7. m <= m + 1 /\ Len(ts) = m + 1 /\ ts \in Seq(Trade) /\ \A k \in 1..m : ts[k] = b.trades[k]
    BY <2>3, <2>4
  <2> HIDE DEF ts
  <2>8. Later(ts, b.trades, n)
    BY <1>1, <2>5, <2>6, <2>7 DEF Later
  <2>9. QED
    BY <2>8 DEF ts, books
<1>4. QED
  BY <1>2, <1>3

\* The walk of the last bar adds a trade that is left there, if any.
LEMMA WalkedIsLater ==
  ASSUME WalkAssumption, NEW bs, Series(bs), NEW i \in 1..Len(bs), NEW signals,
         NEW first \in 1..i, NEW b, Balanced(b, first, i - 1)
  PROVE  Later(Walked(b, bs, signals, i).trades, b.trades, i)
<1> DEFINE done == Executed(b, bs, i)
           walked == Walked(b, bs, signals, i)
           m == Len(b.trades)
<1>1. Ledger(done, i) /\ done.pending = None
  BY ExecutedIs
<1>2. walked.trades = done.trades
  <2>1. Booked(done)
    BY <1>1 DEF Ledger
  <2> HIDE DEF done
  <2>2. QED
    BY <1>1, <2>1, WalkedForm DEF done
<1>3. done.trades \in Seq(Trade) /\ b.trades \in Seq(Trade) /\ Booked(b)
  BY <1>1 DEF Ledger, Balanced
<1>4. b.pending # None => b.pending.execution = i
  <2>1. i \in Nat /\ (i - 1) + 1 = i
    BY SeriesFacts
  <2>2. b.pending # None => b.pending.execution = (i - 1) + 1
    BY DEF Balanced
  <2>3. QED
    BY <2>1, <2>2
<1> DEFINE trade == [entrySignal |-> b.entry.signal, entry |-> b.entry.bar,
                     exitSignal |-> b.pending.bar, exit |-> i, held |-> i - b.entry.bar,
                     buy |-> Buying(b.entry.price), sell |-> Selling(bs[i].open)]
           sells == b.pending # None /\ b.pending.action = "exit_watch" /\ b.entry # None
<1>5. done.trades = IF sells THEN Append(b.trades, trade) ELSE b.trades
  BY <1>3, <1>4, ExecutedForm
<1>6. trade.exit = i
  OBVIOUS
<1> HIDE DEF done, walked, trade, sells
<1>7. CASE ~sells
  <2>1. walked.trades = b.trades
    BY <1>2, <1>5, <1>7
  <2>2. QED
    BY <1>3, <2>1, LaterIsSo DEF walked
<1>8. CASE sells
  <2> DEFINE ts == walked.trades
             R == Trade
  <2>1. ts = Append(b.trades, trade) /\ ts \in Seq(Trade)
    BY <1>2, <1>3, <1>5, <1>8
  <2>2. b.trades \in Seq(R)
    BY <1>3
  <2> HIDE DEF ts, R
  <2>3. m \in Nat /\ Len(ts) = m + 1 /\ ts[m + 1] = trade /\ \A k \in 1..m : ts[k] = b.trades[k]
    BY <2>1, <2>2
  <2>4. m <= m + 1 /\ \A k \in 1..m + 1 : k \in 1..m \/ k = m + 1
    BY <2>3
  <2>5. Later(ts, b.trades, i)
    BY <1>3, <1>6, <2>1, <2>3, <2>4 DEF Later
  <2>6. QED
    BY <2>5 DEF ts, walked
<1>9. QED
  BY <1>7, <1>8

\* A report's trades go on from those of the books before the last bar.
LEMMA ToldIsLater ==
  ASSUME WalkAssumption, NEW bs, Series(bs), \A i \in DOMAIN bs : bs[i].day = i,
         ~(Len(bs) < 2), ~(Cardinality(Evaluated(bs)) < 2)
  PROVE  LET last == Max(Evaluated(bs))
             until == IF last < Len(bs) THEN last ELSE last - 1
         IN  Later(WalkForward(bs).trades, BooksOf(bs, ValidateSignals(bs))[until].trades, Len(bs))
<1> DEFINE first == Min(Evaluated(bs))
           last == Max(Evaluated(bs))
           S == ValidateSignals(bs)
           books == BooksOf(bs, S)
           n == Len(bs)
           until == IF last < n THEN last ELSE last - 1
<1>1. /\ first \in 1..n /\ last \in 1..n /\ first <= last
      /\ Balanced(books[last], first, last)
      /\ WalkForward(bs).trades = Settled(books[last], bs, last).trades
  BY WalkTells
<1>2. n \in Nat /\ bs # <<>>
  BY SeriesFacts, Len(<<>>) = 0
<1> DEFINE told == WalkForward(bs).trades
<1>3. Later(told, books[last].trades, n)
  <2> HIDE DEF n, books, told
  <2>1. Ledger(books[last], last)
    BY <1>1 DEF Balanced
  <2>2. Later(Settled(books[last], bs, last).trades, books[last].trades, n)
    BY <1>1, <2>1, SettledIsLater DEF n
  <2>3. QED
    BY <1>1, <2>2 DEF told
<1>4. CASE last < n
  BY <1>3, <1>4
<1>5. CASE ~(last < n)
  <2>1. last = n /\ until = n - 1 /\ n - 1 \in first - 1..last /\ first \in Nat \ {0} /\ n \in first..last
    BY <1>1, <1>2, <1>5
  <2>2. books[n] = Walked(books[n - 1], bs, S, n)
    <3> HIDE DEF S
    <3>1. \A i \in first..last : books[i] = Walked(books[i - 1], bs, S, i)
      BY <1>1, <1>2, <2>1, BooksFacts
    <3>2. QED
      BY <2>1, <3>1
  <2>3. Balanced(books[n - 1], first, n - 1)
    BY <1>1, <1>2, <2>1, BooksAreBalanced
  <2> DEFINE b == books[n - 1]
  <2>4. n \in 1..n /\ first \in 1..n
    BY <1>1, <1>2, <2>1
  <2> HIDE DEF S, b, first
  <2>5. Later(Walked(b, bs, S, n).trades, b.trades, n)
    BY <2>3, <2>4, WalkedIsLater DEF b
  <2>6. Later(books[n].trades, b.trades, n)
    BY <2>2, <2>5 DEF b
  <2> HIDE DEF told, books
  <2>7. Later(told, b.trades, n)
    BY <1>3, <2>1, <2>6, LaterAgain
  <2>8. QED
    BY <2>1, <2>7 DEF b, books, S, told
<1>6. QED
  BY <1>4, <1>5

\* Had the last bar been another one, the series would be varied.
LEMMA OtherLastBar ==
  ASSUME WalkAssumption, WalkInv, bars # <<>>, NEW prices \in Prices
  PROVE  LET cs == Append(Front(bars), BarOn(Len(bars), prices))
         IN  Varied(bars, cs) /\ \A i \in DOMAIN cs : cs[i].day = i
<1> DEFINE n == Len(bars)
           bar == BarOn(n, prices)
           few == Front(bars)
           cs == Append(few, bar)
           R == PriceBar
<1>1. /\ Series(bars) /\ n \in Nat /\ DOMAIN bars = 1..n /\ bars \in Seq(R)
      /\ \A i \in 1..n : bars[i].day = i /\ bars[i].day \in DOMAIN Calendar
  BY SeriesFacts DEF WalkInv, Series
<1>2. n # 0
  BY <1>1
<1>3. bar \in R /\ bar.day = n
  <2>1. prices \in [open : Int, high : Int, low : Int, close : Int]
    BY DEF WalkAssumption
  <2>2. n \in DOMAIN Calendar
    BY <1>1, <1>2
  <2> HIDE DEF n
  <2>3. QED
    BY <2>1, <2>2 DEF BarOn, PriceBar
<1> HIDE DEF R, bar
<1>4. few \in Seq(R) /\ Len(few) = n - 1 /\ \A i \in 1..n - 1 : few[i] = bars[i]
  BY <1>1, <1>2 DEF Front
<1> HIDE DEF few
<1>5. /\ cs \in Seq(R) /\ Len(cs) = n /\ DOMAIN cs = 1..n /\ cs[n] = bar
      /\ \A i \in 1..n - 1 : cs[i] = few[i]
  <2>1. /\ cs \in Seq(R) /\ Len(cs) = Len(few) + 1 /\ cs[Len(few) + 1] = bar
        /\ \A i \in 1..Len(few) : cs[i] = few[i]
    BY <1>3, <1>4
  <2> HIDE DEF cs, n
  <2>2. Len(few) + 1 = n
    BY <1>1, <1>4
  <2>3. DOMAIN cs = 1..n
    BY <2>1, <2>2
  <2>4. QED
    BY <1>4, <2>1, <2>2, <2>3
<1> HIDE DEF cs
<1>6. \A i \in 1..n - 1 : cs[i] = bars[i]
  BY <1>4, <1>5
<1>7. \A i \in 1..n : cs[i].day = i
  <2> HIDE DEF n
  <2>1. \A i \in 1..n : i \in 1..n - 1 \/ i = n
    BY <1>1
  <2>2. QED
    BY <1>1, <1>3, <1>5, <1>6, <2>1
<1>8. Series(cs)
  BY <1>5, <1>7 DEF Series, R
<1>9. Varied(bars, cs)
  BY <1>1, <1>5, <1>6, <1>7, <1>8 DEF Varied
<1>10. QED
  BY <1>5, <1>7, <1>9 DEF cs, few, bar

\* For any analyzer, any prices and any number of bars: whatever the last bar had been,
\* the report would tell the same of the past (walk_forward_backtest).
THEOREM NothingLooksAhead ==
  ASSUME WalkAssumption
  PROVE  SpecWalk => []NoLookahead
<1>1. ASSUME WalkInv
      PROVE  NoLookahead
  <2> SUFFICES ASSUME report.ok, NEW prices \in Prices
               PROVE  Past(WalkForward(Append(Front(bars), BarOn(Len(bars), prices))), Len(bars))
                      = Past(report, Len(bars))
    BY DEF NoLookahead
  <2> DEFINE n == Len(bars)
             cs == Append(Front(bars), BarOn(n, prices))
             last == Max(Evaluated(bars))
             first == Min(Evaluated(bars))
             until == IF last < n THEN last ELSE last - 1
             S == ValidateSignals(bars)
             T == ValidateSignals(cs)
             told == WalkForward(cs)
  <2>1. /\ report = WalkForward(bars) /\ Series(bars) /\ \A i \in DOMAIN bars : bars[i].day = i
        /\ ~(n < 2) /\ ~(Cardinality(Evaluated(bars)) < 2)
    BY <1>1, ReportIs
  <2>2. bars # <<>>
    BY <2>1, Len(<<>>) = 0
  <2>3. Varied(bars, cs) /\ \A i \in DOMAIN cs : cs[i].day = i
    BY <1>1, <2>2, OtherLastBar
  <2> HIDE DEF cs
  <2>4. Len(cs) = n /\ n \in Nat /\ Evaluated(cs) = Evaluated(bars) /\ Series(cs)
    BY <2>3, VariedDays DEF Varied
  <2>5. first \in 1..n /\ last \in 1..n /\ first <= last /\ report.signals = S
    BY <2>1, WalkTells
  <2>6. told.signals = T
    BY <2>1, <2>3, <2>4, WalkTells
  <2>7. Later(report.trades, BooksOf(bars, S)[until].trades, n)
    BY <2>1, ToldIsLater
  <2>8. Later(told.trades, BooksOf(cs, T)[until].trades, n)
    <3>1. ~(Len(cs) < 2) /\ ~(Cardinality(Evaluated(cs)) < 2)
      BY <2>1, <2>4
    <3> HIDE DEF n, T
    <3>2. Later(told.trades, BooksOf(cs, T)[IF Max(Evaluated(cs)) < Len(cs) THEN Max(Evaluated(cs))
                                            ELSE Max(Evaluated(cs)) - 1].trades, Len(cs))
      BY <2>3, <2>4, <3>1, ToldIsLater DEF T
    <3>3. QED
      BY <2>4, <3>2
  <2>9. BooksOf(bars, S)[until].trades = BooksOf(cs, T)[until].trades
    <3>1. until \in first - 1..last /\ until < n /\ first \in Nat \ {0}
      BY <2>4, <2>5
    <3> HIDE DEF until
    <3>2. Alike(BooksOf(bars, S)[until], BooksOf(cs, T)[until])
      BY <2>3, <2>5, <3>1, BooksAlike
    <3>3. QED
      BY <3>2 DEF Alike
  <2>10. /\ \E m \in Nat : DOMAIN S = 1..m /\ DOMAIN T = 1..m
         /\ \A k \in DOMAIN S : Known(T[k], n) = Known(S[k], n)
    BY <2>3, SignalsAlike
  <2> HIDE DEF S, T, told, n, until, last, first
  <2>11. [k \in DOMAIN T |-> Known(T[k], n)] = [k \in DOMAIN S |-> Known(S[k], n)]
    BY <2>10
  <2>12. {<<k, told.trades[k]>> : k \in {k \in DOMAIN told.trades :
                                         ~Open(told.trades[k]) /\ told.trades[k].exit < n}}
         = {<<k, report.trades[k]>> : k \in {k \in DOMAIN report.trades :
                                             ~Open(report.trades[k]) /\ report.trades[k].exit < n}}
    BY <2>4, <2>7, <2>8, <2>9, PastOfLater
  <2>13. Past(told, n) = Past(report, n)
    BY <2>5, <2>6, <2>11, <2>12 DEF Past
  <2>14. QED
    BY <2>13 DEF told, cs, n
<1>2. QED
  BY <1>1, WalkInit, WalkStep, PTL DEF SpecWalk

-----------------------------------------------------------------------------
(* The allocation. *)

\* The assets, and tables over them.
LEMMA AssetsAre ==
  /\ Len(Order) = 7 /\ DOMAIN Order = 1..7
  /\ Order[1] = "cash" /\ Order[2] = "rmb_fixed_income" /\ Order[3] = "domestic_broad"
  /\ Order[4] = "dividend_quality" /\ Order[5] = "advanced_manufacturing"
  /\ Order[6] = "global_equity" /\ Order[7] = "gold"
  /\ Assets = {"cash", "rmb_fixed_income", "domestic_broad", "dividend_quality",
               "advanced_manufacturing", "global_equity", "gold"}
<1>1. /\ DOMAIN Order = 1..7 /\ Len(Order) = 7
      /\ Order[1] = "cash" /\ Order[2] = "rmb_fixed_income" /\ Order[3] = "domestic_broad"
      /\ Order[4] = "dividend_quality" /\ Order[5] = "advanced_manufacturing"
      /\ Order[6] = "global_equity" /\ Order[7] = "gold"
  BY DEF Order
<1>2. 1..7 = {1, 2, 3, 4, 5, 6, 7}
  OBVIOUS
<1>3. Assets = {Order[i] : i \in {1, 2, 3, 4, 5, 6, 7}}
  BY <1>1, <1>2 DEF Assets, Range
<1>4. QED
  BY <1>1, <1>3

LEMMA PlaceOf ==
  ASSUME NEW i \in 1..7
  PROVE  Order[i] \in Assets /\ (CHOOSE k \in DOMAIN Order : Order[k] = Order[i]) = i
<1>1. \A j, k \in 1..7 : Order[j] = Order[k] => j = k
  BY AssetsAre
<1>2. Order[i] \in Assets
  BY AssetsAre DEF Assets, Range
<1>3. QED
  BY <1>1, <1>2, AssetsAre

LEMMA TableIs ==
  ASSUME NEW values
  PROVE  LET t == OfAssets(values)
         IN  /\ t["cash"] = values[1] /\ t["rmb_fixed_income"] = values[2] /\ t["domestic_broad"] = values[3]
             /\ t["dividend_quality"] = values[4] /\ t["advanced_manufacturing"] = values[5]
             /\ t["global_equity"] = values[6] /\ t["gold"] = values[7]
<1>1. \A i \in 1..7 : OfAssets(values)[Order[i]] = values[i]
  BY PlaceOf DEF OfAssets
<1>2. QED
  BY <1>1, AssetsAre

\* A function on the assets, asset by asset.
Is(x, c, r, b, v, m, g, o) ==
    /\ x["cash"] = c /\ x["rmb_fixed_income"] = r /\ x["domestic_broad"] = b
    /\ x["dividend_quality"] = v /\ x["advanced_manufacturing"] = m
    /\ x["global_equity"] = g /\ x["gold"] = o

LEMMA TablesAre ==
  /\ DOMAIN Bases = {"conservative", "balanced", "growth"}
  /\ Is(Bases["conservative"], 20, 50, 10, 8, 2, 3, 7)
  /\ Is(Bases["balanced"], 10, 30, 22, 12, 8, 10, 8)
  /\ Is(Bases["growth"], 5, 15, 30, 10, 18, 14, 8)
  /\ Is(DefensiveTilt, 4, 6, -7, 2, -3, -4, 2)
  /\ Is(OffensiveTilt, -3, -7, 6, -1, 4, 3, -2)
  /\ Is(SectorTilt, -1, -2, -1, 2, 2, 0, 0)
  /\ Is(InflowTilt, -1, 0, 1, 0, 0, 0, 0)
  /\ Is(PressureTilt, 0, 0, -1, 0, 0, 0, 1)
<1>1. /\ DOMAIN Bases = {"conservative", "balanced", "growth"}
      /\ Bases["conservative"] = OfAssets(<<20, 50, 10, 8, 2, 3, 7>>)
      /\ Bases["balanced"] = OfAssets(<<10, 30, 22, 12, 8, 10, 8>>)
      /\ Bases["growth"] = OfAssets(<<5, 15, 30, 10, 18, 14, 8>>)
  BY DEF Bases
<1>2. Is(Bases["conservative"], 20, 50, 10, 8, 2, 3, 7)
  BY <1>1, TableIs DEF Is
<1>3. Is(Bases["balanced"], 10, 30, 22, 12, 8, 10, 8)
  BY <1>1, TableIs DEF Is
<1>4. Is(Bases["growth"], 5, 15, 30, 10, 18, 14, 8)
  BY <1>1, TableIs DEF Is
<1>5. Is(DefensiveTilt, 4, 6, -7, 2, -3, -4, 2) /\ Is(OffensiveTilt, -3, -7, 6, -1, 4, 3, -2)
  BY TableIs DEF Is, DefensiveTilt, OffensiveTilt
<1>6. Is(SectorTilt, -1, -2, -1, 2, 2, 0, 0) /\ Is(InflowTilt, -1, 0, 1, 0, 0, 0, 0) /\ Is(PressureTilt, 0, 0, -1, 0, 0, 0, 1)
  BY TableIs DEF Is, SectorTilt, InflowTilt, PressureTilt
<1>7. QED
  BY <1>1, <1>2, <1>3, <1>4, <1>5, <1>6

\* Limits.
LEMMA BoundedIs ==
  ASSUME NEW low \in Int, NEW high \in Int, low <= high, NEW x \in Int
  PROVE  Bounded(low, high, x) = IF x < low THEN low ELSE IF x > high THEN high ELSE x
<1>1. Min({high, x}) = IF x > high THEN high ELSE x
  BY DEF Min
<1>2. QED
  BY <1>1 DEF Bounded, Max

\* What the scores come to: how far the appetite is out on either side, the flow
\* and the pressure.
Defensive(s) == IF RiskAppetite(s) > 45 THEN 0 ELSE IF RiskAppetite(s) < 25 THEN 20 ELSE 45 - RiskAppetite(s)
Offensive(s) == IF RiskAppetite(s) < 65 THEN 0 ELSE IF RiskAppetite(s) > 85 THEN 20 ELSE RiskAppetite(s) - 65
Flow(s) == IF s.direction >= 35 THEN 20 ELSE IF s.direction <= -35 THEN -20 ELSE 0
Pressed(s) == IF s.pressure >= 60 THEN 20 ELSE 0

Scores == [direction : Int, volume : Int, speed : Int, pressure : Int]

LEMMA AppetiteIs ==
  ASSUME NEW s \in Scores
  PROVE  RiskAppetite(s) \in 0..100
<1>1. \A x \in Int : RoundedHundredth(x) \in Int
  BY DEF RoundedHundredth
<1> DEFINE x == 4500 + 20 * s.direction + 30 * (s.volume - 50) + 35 * (s.speed - 50) - 20 * s.pressure
<1>2. s.direction \in Int /\ s.volume \in Int /\ s.speed \in Int /\ s.pressure \in Int
  BY DEF Scores
<1>3. x \in Int
  BY <1>2
<1>4. RoundedHundredth(x) \in Int
  BY <1>1, <1>3
<1>5. RiskAppetite(s) = Bounded(0, 100, RoundedHundredth(x))
  BY DEF RiskAppetite
<1> HIDE DEF x
<1> DEFINE y == RoundedHundredth(x)
<1>6. y \in Int
  BY <1>4
<1> HIDE DEF y
<1>7. Bounded(0, 100, y) = IF y < 0 THEN 0 ELSE IF y > 100 THEN 100 ELSE y
  BY <1>6, BoundedIs
<1>8. Bounded(0, 100, y) \in 0..100
  BY <1>6, <1>7
<1>9. QED
  BY <1>5, <1>8 DEF y

Tilted(x, base, s) ==
  LET d == Defensive(s)
      o == Offensive(s)
      f == Flow(s)
      p == Pressed(s)
  IN  Is(x, 20 * base["cash"] + 4 * d - 3 * o - 20 - f,
            20 * base["rmb_fixed_income"] + 6 * d - 7 * o - 40,
            20 * base["domestic_broad"] - 7 * d + 6 * o - 20 + f - p,
            20 * base["dividend_quality"] + 2 * d - o + 40,
            20 * base["advanced_manufacturing"] - 3 * d + 4 * o + 40,
            20 * base["global_equity"] - 4 * d + 3 * o,
            20 * base["gold"] + 2 * d - 2 * o + p)

LEMMA SignsAre ==
  ASSUME NEW s \in Scores
  PROVE  /\ Defensive(s) \in 0..20 /\ Offensive(s) \in 0..20
         /\ Defensive(s) = 0 \/ Offensive(s) = 0
         /\ Flow(s) \in {-20, 0, 20} /\ Pressed(s) \in {0, 20}
<1>1. RiskAppetite(s) \in 0..100
  BY AppetiteIs
<1>2. QED
  BY <1>1 DEF Defensive, Offensive, Flow, Pressed

LEMMA RawIs ==
  ASSUME NEW s \in Scores, NEW p \in DOMAIN Bases
  PROVE  LET raw == [a \in Assets |-> 20 * Bases[p][a] + Deltas(s)[a]]
         IN  Tilted(raw, Bases[p], s)
<1> DEFINE appetite == RiskAppetite(s)
           defensive == Bounded(0, 20, 45 - appetite)
           offensive == Bounded(0, 20, appetite - 65)
           flow == CASE s.direction >= 35 -> 20 [] s.direction <= -35 -> -20 [] OTHER -> 0
           pressed == IF s.pressure >= 60 THEN 20 ELSE 0
           delta(a) == defensive * DefensiveTilt[a] + offensive * OffensiveTilt[a]
                         + 20 * SectorTilt[a] + flow * InflowTilt[a] + pressed * PressureTilt[a]
           raw == [a \in Assets |-> 20 * Bases[p][a] + Deltas(s)[a]]
<1>1. appetite \in 0..100
  BY AppetiteIs
<1>2. defensive = Defensive(s) /\ offensive = Offensive(s)
  <2>1. \A x \in Int : Bounded(0, 20, x) = IF x < 0 THEN 0 ELSE IF x > 20 THEN 20 ELSE x
    BY BoundedIs
  <2>2. 45 - appetite \in Int /\ appetite - 65 \in Int
    BY <1>1
  <2>3. /\ defensive = IF 45 - appetite < 0 THEN 0 ELSE IF 45 - appetite > 20 THEN 20 ELSE 45 - appetite
        /\ offensive = IF appetite - 65 < 0 THEN 0 ELSE IF appetite - 65 > 20 THEN 20 ELSE appetite - 65
    BY <2>1, <2>2
  <2>4. QED
    BY <1>1, <2>3 DEF Defensive, Offensive
<1>3. flow = Flow(s) /\ pressed = Pressed(s)
  BY DEF Flow, Pressed, Scores
<1>4. \A a \in Assets : raw[a] = 20 * Bases[p][a] + delta(a)
  BY DEF Deltas
<1> HIDE DEF defensive, offensive, flow, pressed, raw
<1>5. defensive \in Int /\ offensive \in Int /\ flow \in Int /\ pressed \in Int
  <2>1. Flow(s) \in {-20, 0, 20} /\ Pressed(s) \in {0, 20} /\ Defensive(s) \in 0..20 /\ Offensive(s) \in 0..20
    BY SignsAre
  <2>2. QED
    BY <1>2, <1>3, <2>1
<1>6. \A a \in Assets : Bases[p][a] \in Int
  BY TablesAre, AssetsAre DEF Is
<1>7. \A a \in Assets : a \in {"cash", "rmb_fixed_income", "domestic_broad", "dividend_quality",
               "advanced_manufacturing", "global_equity", "gold"}
  BY AssetsAre
<1>8. Is(raw, 20 * Bases[p]["cash"] + delta("cash"), 20 * Bases[p]["rmb_fixed_income"] + delta("rmb_fixed_income"),
              20 * Bases[p]["domestic_broad"] + delta("domestic_broad"),
              20 * Bases[p]["dividend_quality"] + delta("dividend_quality"),
              20 * Bases[p]["advanced_manufacturing"] + delta("advanced_manufacturing"),
              20 * Bases[p]["global_equity"] + delta("global_equity"),
              20 * Bases[p]["gold"] + delta("gold"))
  BY <1>4, AssetsAre DEF Is
<1>9. /\ delta("cash") = 4 * defensive - 3 * offensive - 20 - flow
      /\ delta("rmb_fixed_income") = 6 * defensive - 7 * offensive - 40
      /\ delta("domestic_broad") = -7 * defensive + 6 * offensive - 20 + flow - pressed
      /\ delta("dividend_quality") = 2 * defensive - offensive + 40
      /\ delta("advanced_manufacturing") = -3 * defensive + 4 * offensive + 40
      /\ delta("global_equity") = -4 * defensive + 3 * offensive
      /\ delta("gold") = 2 * defensive - 2 * offensive + pressed
  BY <1>5, TablesAre DEF Is
<1> HIDE DEF delta
<1>10. Tilted(raw, Bases[p], s)
  BY <1>2, <1>3, <1>5, <1>6, <1>8, <1>9, AssetsAre DEF Is, Tilted
<1>11. QED
  BY <1>10 DEF raw

\* Seven numbers in the order of their size, the first of equal ones first: the
\* first n of them are n.
Ahead(part, i, j) == part[i] > part[j] \/ (part[i] = part[j] /\ i < j)
Rank(part, j) == Cardinality({i \in 1..7 : Ahead(part, i, j)})

LEMMA UpTo ==
  ASSUME NEW a \in Int, NEW b \in Int
  PROVE  IsFiniteSet(a..b) /\ Cardinality(a..b) = (IF a > b THEN 0 ELSE b - a + 1)
BY FS_Interval

LEMMA SevenAre ==
  ASSUME NEW S \in SUBSET (1..7)
  PROVE  IsFiniteSet(1..7) /\ Cardinality(1..7) = 7 /\ IsFiniteSet(S) /\ Cardinality(S) \in 0..7
<1>1. IsFiniteSet(1..7) /\ Cardinality(1..7) = 7
  <2>1. \A n \in Nat : IsFiniteSet(1..n) /\ Cardinality(1..n) = n
    <3>1. SUFFICES ASSUME NEW n \in Nat
                   PROVE  IsFiniteSet(1..n) /\ Cardinality(1..n) = n
      OBVIOUS
    <3>2. IsFiniteSet(1..n) /\ Cardinality(1..n) = (IF 1 > n THEN 0 ELSE n - 1 + 1)
      BY UpTo
    <3>3. QED
      BY <3>2
  <2>2. QED
    BY <2>1, Zenon
<1>2. IsFiniteSet(S) /\ Cardinality(S) <= 7
  BY <1>1, FS_Subset
<1>3. Cardinality(S) \in Nat
  BY <1>2, FS_CardinalityType
<1>4. QED
  BY <1>1, <1>2, <1>3

LEMMA RanksAre ==
  ASSUME NEW part \in [1..7 -> Int], NEW i \in 1..7, NEW j \in 1..7
  PROVE  /\ Rank(part, i) \in 0..6
         /\ Ahead(part, i, j) => Rank(part, i) < Rank(part, j)
         /\ i # j => Ahead(part, i, j) \/ Ahead(part, j, i)
<1> DEFINE A(k) == {h \in 1..7 : Ahead(part, h, k)}
<1>1. \A h \in 1..7 : part[h] \in Int
  OBVIOUS
<1>2. \A k \in 1..7 : ~Ahead(part, k, k)
  BY <1>1 DEF Ahead
<1>3. ASSUME NEW h \in 1..7, NEW k \in 1..7, NEW m \in 1..7, Ahead(part, h, k), Ahead(part, k, m)
      PROVE  Ahead(part, h, m)
  <2>1. part[h] \in Int /\ part[k] \in Int /\ part[m] \in Int
    BY <1>1
  <2>2. QED
    BY <1>3, <2>1 DEF Ahead
<1>4. i # j => Ahead(part, i, j) \/ Ahead(part, j, i)
  <2>1. part[i] \in Int /\ part[j] \in Int /\ i \in Int /\ j \in Int
    BY <1>1
  <2>2. QED
    BY <2>1 DEF Ahead
<1>5. \A k \in 1..7 : IsFiniteSet(A(k)) /\ Cardinality(A(k)) \in 0..7
  BY SevenAre
<1>6. A(i) \in SUBSET (1..7) /\ A(i) # 1..7
  BY <1>2
<1>7. Cardinality(A(i)) < 7
  <2>1. IsFiniteSet(1..7) /\ Cardinality(1..7) = 7
    BY SevenAre
  <2>2. Cardinality(A(i)) # 7
    BY <1>6, <2>1, FS_Subset
  <2>3. QED
    BY <1>5, <2>2
<1>8. ASSUME Ahead(part, i, j)
      PROVE  Cardinality(A(i)) < Cardinality(A(j))
  <2>1. A(i) \in SUBSET A(j) /\ i \in A(j) /\ i \notin A(i)
    BY <1>2, <1>3, <1>8
  <2>2. Cardinality(A(i)) <= Cardinality(A(j)) /\ Cardinality(A(i)) # Cardinality(A(j))
    BY <1>5, <2>1, FS_Subset
  <2>3. QED
    BY <1>5, <2>2
<1>9. QED
  BY <1>4, <1>5, <1>7, <1>8 DEF Rank

LEMMA FirstOnes ==
  ASSUME NEW part \in [1..7 -> Int], NEW n \in 0..7
  PROVE  Cardinality({j \in 1..7 : Rank(part, j) < n}) = n
<1> DEFINE S == {j \in 1..7 : Rank(part, j) < n}
           T == {j \in 1..7 : ~(Rank(part, j) < n)}
           f == [j \in S |-> Rank(part, j)]
           g == [j \in T |-> Rank(part, j)]
<1>1. \A i, j \in 1..7 : Rank(part, i) \in 0..6 /\ (i # j => Rank(part, i) # Rank(part, j))
  <2>1. \A i \in 1..7 : Rank(part, i) \in 0..6
    BY RanksAre
  <2>2. ASSUME NEW i \in 1..7, NEW j \in 1..7, i # j
        PROVE  Rank(part, i) # Rank(part, j)
    <3>1. Rank(part, i) < Rank(part, j) \/ Rank(part, j) < Rank(part, i)
      BY <2>2, RanksAre
    <3>2. QED
      BY <2>1, <3>1
  <2>3. QED
    BY <2>1, <2>2
<1>2. f \in Injection(S, 0..n - 1)
  BY <1>1 DEF Injection, IsInjective
<1>3. g \in Injection(T, n..6)
  BY <1>1 DEF Injection, IsInjective
<1>4. /\ IsFiniteSet(0..n - 1) /\ Cardinality(0..n - 1) = n
      /\ IsFiniteSet(n..6) /\ Cardinality(n..6) = 7 - n
  <2>1. n \in Int /\ n - 1 \in Int /\ 0 \in Int /\ 6 \in Int
    OBVIOUS
  <2>2. /\ IsFiniteSet(0..n - 1) /\ Cardinality(0..n - 1) = (IF 0 > n - 1 THEN 0 ELSE (n - 1) - 0 + 1)
        /\ IsFiniteSet(n..6) /\ Cardinality(n..6) = (IF n > 6 THEN 0 ELSE 6 - n + 1)
    BY <2>1, UpTo
  <2>3. QED
    BY <2>2
<1>5. Cardinality(S) <= n /\ Cardinality(T) <= 7 - n
  <2>1. Cardinality(S) <= Cardinality(0..n - 1)
    BY <1>2, <1>4, FS_Injection
  <2>2. Cardinality(T) <= Cardinality(n..6)
    BY <1>3, <1>4, FS_Injection
  <2>3. QED
    BY <1>4, <2>1, <2>2
<1>6. Cardinality(S) + Cardinality(T) = 7
  <2>1. IsFiniteSet(1..7) /\ Cardinality(1..7) = 7
    BY SevenAre
  <2>2. S \cup T = 1..7 /\ S \cap T = {} /\ S \in SUBSET (1..7) /\ T \in SUBSET (1..7)
    OBVIOUS
  <2>3. IsFiniteSet(S) /\ IsFiniteSet(T) /\ Cardinality(S) \in Nat /\ Cardinality(T) \in Nat
    BY SevenAre
  <2>4. Cardinality(S \cup T) = Cardinality(S) + Cardinality(T) - Cardinality({})
    BY <2>2, <2>3, FS_Union
  <2>5. Cardinality({}) = 0
    BY FS_EmptySet
  <2>6. Cardinality(S) + Cardinality(T) - 0 = 7
    BY <2>1, <2>2, <2>4, <2>5
  <2>7. QED
    BY <2>3, <2>6
<1>7. Cardinality(S) \in Nat /\ Cardinality(T) \in Nat
  BY SevenAre
<1>8. QED
  BY <1>5, <1>6, <1>7

\* Counting a set of seven numbers one by one.
One(b) == IF b THEN 1 ELSE 0

LEMMA CountOn ==
  ASSUME NEW S \in SUBSET (1..7), NEW k \in 1..7, NEW n \in Nat, Cardinality(S \cap 1..k - 1) = n
  PROVE  Cardinality(S \cap 1..k) = n + One(k \in S)
<1>1. IsFiniteSet(S \cap 1..k - 1) /\ k \notin S \cap 1..k - 1
  BY SevenAre
<1>2. S \cap 1..k = IF k \in S THEN (S \cap 1..k - 1) \cup {k} ELSE S \cap 1..k - 1
  OBVIOUS
<1>3. Cardinality((S \cap 1..k - 1) \cup {k}) = n + 1
  BY <1>1, FS_AddElement
<1>4. QED
  BY <1>2, <1>3 DEF One

LEMMA CountSeven ==
  ASSUME NEW S \in SUBSET (1..7)
  PROVE  Cardinality(S) = One(1 \in S) + One(2 \in S) + One(3 \in S) + One(4 \in S) + One(5 \in S)
                            + One(6 \in S) + One(7 \in S)
<1> DEFINE C(k) == Cardinality(S \cap 1..k)
<1>1. \A k \in 1..7 : One(k \in S) \in Nat
  BY DEF One
<1>2. C(0) = 0
  <2>1. S \cap 1..0 = {}
    OBVIOUS
  <2>2. QED
    BY <2>1, FS_EmptySet
<1>3. ASSUME NEW k \in 1..7, C(k - 1) \in Nat
      PROVE  C(k) = C(k - 1) + One(k \in S) /\ C(k) \in Nat
  <2>1. C(k) = C(k - 1) + One(k \in S)
    BY <1>3, CountOn
  <2>2. QED
    BY <1>1, <1>3, <2>1
<1>4. C(7) = Cardinality(S)
  <2>1. S \cap 1..7 = S
    OBVIOUS
  <2>2. QED
    BY <2>1
<1> HIDE DEF C
<1>5. C(1) = One(1 \in S) /\ C(1) \in Nat
  BY <1>1, <1>2, <1>3
<1>6. C(2) = One(1 \in S) + One(2 \in S) /\ C(2) \in Nat
  BY <1>1, <1>3, <1>5
<1>7. C(3) = One(1 \in S) + One(2 \in S) + One(3 \in S) /\ C(3) \in Nat
  BY <1>1, <1>3, <1>6
<1>8. C(4) = One(1 \in S) + One(2 \in S) + One(3 \in S) + One(4 \in S) /\ C(4) \in Nat
  BY <1>1, <1>3, <1>7
<1>9. C(5) = One(1 \in S) + One(2 \in S) + One(3 \in S) + One(4 \in S) + One(5 \in S) /\ C(5) \in Nat
  BY <1>1, <1>3, <1>8
<1>10. C(6) = One(1 \in S) + One(2 \in S) + One(3 \in S) + One(4 \in S) + One(5 \in S) + One(6 \in S) /\ C(6) \in Nat
  BY <1>1, <1>3, <1>9
<1>11. QED
  BY <1>1, <1>3, <1>4, <1>10

\* Seven numbers rounded to hundredths of their sum, and the share of the four
\* in the middle.
SumOf(x) == x[1] + x[2] + x[3] + x[4] + x[5] + x[6] + x[7]
Down(x) == [i \in 1..7 |-> (100 * x[i]) \div SumOf(x)]
Part(x) == [i \in 1..7 |-> (100 * x[i]) % SumOf(x)]
Lost(x) == 100 - SumOf(Down(x))
Given(x, i) == Down(x)[i] + One(Rank(Part(x), i) < Lost(x))

LEMMA DivisionIs ==
  ASSUME NEW t \in Nat \ {0}, NEW x \in Nat
  PROVE  /\ x \div t \in Nat /\ x % t \in 0..t - 1
         /\ x = t * (x \div t) + (x % t)
OBVIOUS

LEMMA LostIs ==
  ASSUME NEW x \in [1..7 -> Nat], SumOf(x) > 0
  PROVE  /\ Down(x) \in [1..7 -> Nat] /\ Part(x) \in [1..7 -> Int]
         /\ Lost(x) \in 0..6
<1> DEFINE t == SumOf(x)
           w(i) == (100 * x[i]) \div t
           r(i) == (100 * x[i]) % t
<1>1. \A i \in 1..7 : x[i] \in Nat
  OBVIOUS
<1>2. t \in Nat \ {0}
  BY <1>1 DEF SumOf
<1>3. t = x[1] + x[2] + x[3] + x[4] + x[5] + x[6] + x[7]
  BY DEF SumOf
<1> HIDE DEF t
<1>4. \A i \in 1..7 : w(i) \in Nat /\ r(i) \in 0..t - 1 /\ 100 * x[i] = t * w(i) + r(i)
  <2>1. \A i \in 1..7 : 100 * x[i] \in Nat
    BY <1>1
  <2>2. QED
    BY <1>2, <2>1, DivisionIs
<1>5. Down(x) \in [1..7 -> Nat] /\ Part(x) \in [1..7 -> Int]
  BY <1>4 DEF Down, Part, t
<1>6. /\ Lost(x) = 100 - (w(1) + w(2) + w(3) + w(4) + w(5) + w(6) + w(7))
      /\ Lost(x) \in Int
  BY <1>4 DEF Lost, SumOf, Down, t
<1> HIDE DEF w, r
<1>7. t * Lost(x) = r(1) + r(2) + r(3) + r(4) + r(5) + r(6) + r(7)
  <2>1. 100 * t = t * w(1) + t * w(2) + t * w(3) + t * w(4) + t * w(5) + t * w(6) + t * w(7)
                    + (r(1) + r(2) + r(3) + r(4) + r(5) + r(6) + r(7))
    <3>1. 100 * t = 100 * x[1] + 100 * x[2] + 100 * x[3] + 100 * x[4] + 100 * x[5] + 100 * x[6] + 100 * x[7]
      BY <1>1, <1>3
    <3>2. /\ 100 * x[1] = t * w(1) + r(1) /\ 100 * x[2] = t * w(2) + r(2) /\ 100 * x[3] = t * w(3) + r(3)
          /\ 100 * x[4] = t * w(4) + r(4) /\ 100 * x[5] = t * w(5) + r(5) /\ 100 * x[6] = t * w(6) + r(6)
          /\ 100 * x[7] = t * w(7) + r(7)
      BY <1>4
    <3>3. \A i \in 1..7 : t * w(i) \in Int /\ r(i) \in Int
      BY <1>2, <1>4
    <3> DEFINE v(i) == t * w(i)
    <3> HIDE DEF v
    <3>4. QED
      BY <1>1, <3>1, <3>2, <3>3
  <2>2. \A i \in 1..7 : w(i) \in Int /\ r(i) \in Int
    BY <1>4
  <2>3. t * Lost(x) = 100 * t - (t * w(1) + t * w(2) + t * w(3) + t * w(4) + t * w(5) + t * w(6) + t * w(7))
    BY <1>2, <1>6, <2>2
  <2>4. \A i \in 1..7 : t * w(i) \in Int
    BY <1>2, <2>2
  <2>5. 100 * t \in Int
    BY <1>2
  <2> DEFINE v(i) == t * w(i)
             h == 100 * t
             l == t * Lost(x)
  <2>6. /\ h = v(1) + v(2) + v(3) + v(4) + v(5) + v(6) + v(7) + (r(1) + r(2) + r(3) + r(4) + r(5) + r(6) + r(7))
        /\ l = h - (v(1) + v(2) + v(3) + v(4) + v(5) + v(6) + v(7))
        /\ \A i \in 1..7 : v(i) \in Int
        /\ h \in Int
    BY <2>1, <2>3, <2>4, <2>5
  <2> HIDE DEF v, h, l
  <2>7. l = r(1) + r(2) + r(3) + r(4) + r(5) + r(6) + r(7)
    BY <2>2, <2>6
  <2>8. QED
    BY <2>7 DEF l
<1>8. t * Lost(x) \in 0..7 * t - 7
  <2>1. \A i \in 1..7 : r(i) \in 0..t - 1
    BY <1>4
  <2>2. QED
    BY <1>2, <1>7, <2>1
<1>9. Lost(x) \in 0..6
  <2>1. ~(Lost(x) < 0)
    BY <1>2, <1>6, <1>8
  <2>2. ~(Lost(x) >= 7)
    BY <1>2, <1>6, <1>8
  <2>3. QED
    BY <1>6, <2>1, <2>2
<1>10. QED
  BY <1>5, <1>9

\* Each place has its number rounded down, the first Lost(x) one more; that is
\* the whole.
LEMMA GivenIsWhole ==
  ASSUME NEW x \in [1..7 -> Nat], SumOf(x) > 0
  PROVE  Given(x, 1) + Given(x, 2) + Given(x, 3) + Given(x, 4) + Given(x, 5) + Given(x, 6) + Given(x, 7) = 100
<1> DEFINE S == {j \in 1..7 : Rank(Part(x), j) < Lost(x)}
           one(i) == One(i \in S)
           down(i) == Down(x)[i]
           given(i) == Given(x, i)
           lost == Lost(x)
<1>1. /\ Down(x) \in [1..7 -> Nat] /\ Part(x) \in [1..7 -> Int]
      /\ Lost(x) \in 0..7
  BY LostIs
<1>2. Cardinality(S) = Lost(x)
  BY <1>1, FirstOnes
<1>3. Cardinality(S) = one(1) + one(2) + one(3) + one(4) + one(5) + one(6) + one(7)
  BY CountSeven
<1>4. \A i \in 1..7 : given(i) = down(i) + one(i) /\ one(i) \in Int /\ down(i) \in Int
  BY <1>1 DEF Given, One
<1>5. lost = 100 - (down(1) + down(2) + down(3) + down(4) + down(5) + down(6) + down(7))
  BY DEF Lost, SumOf
<1>6. lost = one(1) + one(2) + one(3) + one(4) + one(5) + one(6) + one(7)
  BY <1>2, <1>3
<1> HIDE DEF S, one, down, given, lost
<1>7. given(1) + given(2) + given(3) + given(4) + given(5) + given(6) + given(7) = 100
  <2>1. /\ given(1) = down(1) + one(1) /\ given(2) = down(2) + one(2) /\ given(3) = down(3) + one(3)
        /\ given(4) = down(4) + one(4) /\ given(5) = down(5) + one(5) /\ given(6) = down(6) + one(6)
        /\ given(7) = down(7) + one(7)
    BY <1>4
  <2>2. \A i \in 1..7 : down(i) \in Int /\ one(i) \in Int
    BY <1>4
  <2>3. QED
    BY <1>5, <1>6, <2>1, <2>2
<1>8. QED
  BY <1>7 DEF given

\* RoundedAllocation, place by place.
Positive(raw, x) == \A i \in 1..7 : Max({0, raw[Order[i]]}) = x[i]

LEMMA AllocationIs ==
  ASSUME NEW raw, NEW x \in [1..7 -> Nat], SumOf(x) > 0, Positive(raw, x)
  PROVE  /\ Total(RoundedAllocation(raw)) = 100
         /\ EquityShare(RoundedAllocation(raw)) = Given(x, 3) + Given(x, 4) + Given(x, 5) + Given(x, 6)
<1> DEFINE positive == [a \in Assets |-> Max({0, raw[a]})]
           total == Total(positive)
           floor == [a \in Assets |-> (100 * positive[a]) \div total]
           part == [a \in Assets |-> (100 * positive[a]) % total]
           lost == 100 - Total(floor)
           Before(i, j) == \/ part[Order[i]] > part[Order[j]]
                           \/ part[Order[i]] = part[Order[j]] /\ i < j
           rank == [j \in DOMAIN Order |-> Cardinality({i \in DOMAIN Order : Before(i, j)})]
           plan == RoundedAllocation(raw)
<1>1. plan = [a \in Assets |-> floor[a] + (IF \E j \in DOMAIN Order : Order[j] = a /\ rank[j] < lost
                                      THEN 1 ELSE 0)]
  BY DEF RoundedAllocation
<1>2. \A i \in 1..7 : Order[i] \in Assets /\ \A j \in 1..7 : Order[i] = Order[j] => i = j
  BY PlaceOf, AssetsAre
<1>3. DOMAIN Order = 1..7
  BY AssetsAre
<1>4. \A i \in 1..7 : positive[Order[i]] = x[i]
  BY <1>2 DEF Positive
<1> HIDE DEF positive
<1>5. \A f : Total(f) = f[Order[1]] + f[Order[2]] + f[Order[3]] + f[Order[4]] + f[Order[5]] + f[Order[6]] + f[Order[7]]
  BY AssetsAre DEF Total
<1>6. total = SumOf(x)
  BY <1>4, <1>5 DEF SumOf
<1> HIDE DEF total
<1>7. \A i \in 1..7 : floor[Order[i]] = Down(x)[i] /\ part[Order[i]] = Part(x)[i]
  BY <1>2, <1>4, <1>6 DEF Down, Part
<1> HIDE DEF floor, part
<1>8. lost = Lost(x)
  BY <1>5, <1>7 DEF Lost, SumOf
<1> HIDE DEF lost
<1>9. \A j \in 1..7 : rank[j] = Rank(Part(x), j)
  <2>1. SUFFICES ASSUME NEW j \in 1..7
                 PROVE  rank[j] = Rank(Part(x), j)
    OBVIOUS
  <2>2. \A i \in 1..7 : Before(i, j) <=> Ahead(Part(x), i, j)
    BY <1>7 DEF Ahead
  <2>3. {i \in DOMAIN Order : Before(i, j)} = {i \in 1..7 : Ahead(Part(x), i, j)}
    BY <1>3, <2>2
  <2>4. QED
    BY <1>3, <2>3 DEF Rank
<1> HIDE DEF rank
<1>10. ASSUME NEW i \in 1..7
       PROVE  plan[Order[i]] = Given(x, i)
  <2>1. (\E j \in DOMAIN Order : Order[j] = Order[i] /\ rank[j] < lost) <=> Rank(Part(x), i) < Lost(x)
    BY <1>2, <1>3, <1>8, <1>9
  <2>2. plan[Order[i]] = floor[Order[i]] + (IF \E j \in DOMAIN Order : Order[j] = Order[i] /\ rank[j] < lost
                                      THEN 1 ELSE 0)
    BY <1>1, <1>2
  <2>3. QED
    BY <1>7, <2>1, <2>2 DEF Given, One
<1> HIDE DEF plan
<1>11. Total(plan) = 100
  BY <1>5, <1>10, GivenIsWhole
<1>12. EquityShare(plan) = Given(x, 3) + Given(x, 4) + Given(x, 5) + Given(x, 6)
  <2>1. EquityShare(plan) = plan[Order[3]] + plan[Order[4]] + plan[Order[5]] + plan[Order[6]]
    BY AssetsAre DEF EquityShare
  <2>2. QED
    BY <1>10, <2>1
<1>13. QED
  BY <1>11, <1>12 DEF plan

LEMMA RankSum ==
  ASSUME NEW part, NEW j \in 1..7
  PROVE  Rank(part, j) = One(Ahead(part, 1, j)) + One(Ahead(part, 2, j)) + One(Ahead(part, 3, j)) + One(Ahead(part, 4, j))
                           + One(Ahead(part, 5, j)) + One(Ahead(part, 6, j)) + One(Ahead(part, 7, j))
<1> DEFINE S == {i \in 1..7 : Ahead(part, i, j)}
           one(i) == One(i \in S)
<1>1. Cardinality(S) = one(1) + one(2) + one(3) + one(4) + one(5) + one(6) + one(7)
  BY CountSeven
<1>2. \A i \in 1..7 : one(i) = One(Ahead(part, i, j))
  BY DEF One
<1> HIDE DEF one
<1>3. QED
  BY <1>1, <1>2 DEF Rank

\* The share of the middle four, number by number.
Hundredths(t, x) == (100 * x) \div t
Rest(t, x) == (100 * x) % t
More(t, x, y) == One(Rest(t, x) > Rest(t, y))
Least(t, x, y) == One(Rest(t, x) >= Rest(t, y))
Middle(n, t, a, b, c, d, e, f, g) ==
    LET lost == n - (Hundredths(t, a) + Hundredths(t, b) + Hundredths(t, c) + Hundredths(t, d) + Hundredths(t, e) + Hundredths(t, f) + Hundredths(t, g))
        ahead3 == Least(t, a, c) + Least(t, b, c) + More(t, d, c) + More(t, e, c) + More(t, f, c) + More(t, g, c)
        ahead4 == Least(t, a, d) + Least(t, b, d) + Least(t, c, d) + More(t, e, d) + More(t, f, d) + More(t, g, d)
        ahead5 == Least(t, a, e) + Least(t, b, e) + Least(t, c, e) + Least(t, d, e) + More(t, f, e) + More(t, g, e)
        ahead6 == Least(t, a, f) + Least(t, b, f) + Least(t, c, f) + Least(t, d, f) + Least(t, e, f) + More(t, g, f)
    IN  Hundredths(t, c) + Hundredths(t, d) + Hundredths(t, e) + Hundredths(t, f)
          + One(ahead3 < lost) + One(ahead4 < lost) + One(ahead5 < lost) + One(ahead6 < lost)

MiddleOf(n, t, x) == Middle(n, t, x[1], x[2], x[3], x[4], x[5], x[6], x[7])

LEMMA MiddleIs ==
  ASSUME NEW x \in [1..7 -> Nat], SumOf(x) > 0
  PROVE  Given(x, 3) + Given(x, 4) + Given(x, 5) + Given(x, 6)
           = MiddleOf(100, SumOf(x), x)
<1> DEFINE t == SumOf(x)
           p == Part(x)
           l(i, j) == Least(t, x[i], x[j])
           m(i, j) == More(t, x[i], x[j])
           w(i) == Hundredths(t, x[i])
<1>1. \A i \in 1..7 : p[i] = Rest(t, x[i]) /\ Down(x)[i] = w(i)
  BY DEF Part, Down, Rest, Hundredths
<1>2. p \in [1..7 -> Int] /\ Down(x) \in [1..7 -> Nat] /\ Lost(x) \in 0..6
  BY LostIs
<1>3. ASSUME NEW i \in 1..7, NEW j \in 1..7
      PROVE  /\ One(Ahead(p, i, j)) = (IF i = j THEN 0 ELSE IF i < j THEN l(i, j) ELSE m(i, j))
             /\ l(i, j) \in 0..1 /\ m(i, j) \in 0..1
  <2>1. p[i] = Rest(t, x[i]) /\ p[j] = Rest(t, x[j]) /\ p[i] \in Int /\ p[j] \in Int
    BY <1>1, <1>2
  <2>2. /\ l(i, j) = One(p[i] >= p[j]) /\ m(i, j) = One(p[i] > p[j])
        /\ i < j => (Ahead(p, i, j) <=> p[i] >= p[j])
        /\ ~(i < j) => (Ahead(p, i, j) <=> p[i] > p[j])
        /\ i = j => ~Ahead(p, i, j)
    BY <2>1 DEF Ahead, Least, More
  <2>3. QED
    BY <2>2 DEF One
<1> HIDE DEF l, m, w, t, p
<1>4. /\ Rank(p, 3) = l(1, 3) + l(2, 3) + m(4, 3) + m(5, 3) + m(6, 3) + m(7, 3)
      /\ Rank(p, 4) = l(1, 4) + l(2, 4) + l(3, 4) + m(5, 4) + m(6, 4) + m(7, 4)
      /\ Rank(p, 5) = l(1, 5) + l(2, 5) + l(3, 5) + l(4, 5) + m(6, 5) + m(7, 5)
      /\ Rank(p, 6) = l(1, 6) + l(2, 6) + l(3, 6) + l(4, 6) + l(5, 6) + m(7, 6)
  <2>1. Rank(p, 3) = l(1, 3) + l(2, 3) + m(4, 3) + m(5, 3) + m(6, 3) + m(7, 3)
    <3>1. /\ One(Ahead(p, 3, 3)) = 0
          /\ One(Ahead(p, 1, 3)) = l(1, 3) /\ l(1, 3) \in Int
          /\ One(Ahead(p, 2, 3)) = l(2, 3) /\ l(2, 3) \in Int
          /\ One(Ahead(p, 4, 3)) = m(4, 3) /\ m(4, 3) \in Int
          /\ One(Ahead(p, 5, 3)) = m(5, 3) /\ m(5, 3) \in Int
          /\ One(Ahead(p, 6, 3)) = m(6, 3) /\ m(6, 3) \in Int
          /\ One(Ahead(p, 7, 3)) = m(7, 3) /\ m(7, 3) \in Int
      BY <1>3
    <3>2. QED
      BY <3>1, RankSum
  <2>2. Rank(p, 4) = l(1, 4) + l(2, 4) + l(3, 4) + m(5, 4) + m(6, 4) + m(7, 4)
    <3>1. /\ One(Ahead(p, 4, 4)) = 0
          /\ One(Ahead(p, 1, 4)) = l(1, 4) /\ l(1, 4) \in Int
          /\ One(Ahead(p, 2, 4)) = l(2, 4) /\ l(2, 4) \in Int
          /\ One(Ahead(p, 3, 4)) = l(3, 4) /\ l(3, 4) \in Int
          /\ One(Ahead(p, 5, 4)) = m(5, 4) /\ m(5, 4) \in Int
          /\ One(Ahead(p, 6, 4)) = m(6, 4) /\ m(6, 4) \in Int
          /\ One(Ahead(p, 7, 4)) = m(7, 4) /\ m(7, 4) \in Int
      BY <1>3
    <3>2. QED
      BY <3>1, RankSum
  <2>3. Rank(p, 5) = l(1, 5) + l(2, 5) + l(3, 5) + l(4, 5) + m(6, 5) + m(7, 5)
    <3>1. /\ One(Ahead(p, 5, 5)) = 0
          /\ One(Ahead(p, 1, 5)) = l(1, 5) /\ l(1, 5) \in Int
          /\ One(Ahead(p, 2, 5)) = l(2, 5) /\ l(2, 5) \in Int
          /\ One(Ahead(p, 3, 5)) = l(3, 5) /\ l(3, 5) \in Int
          /\ One(Ahead(p, 4, 5)) = l(4, 5) /\ l(4, 5) \in Int
          /\ One(Ahead(p, 6, 5)) = m(6, 5) /\ m(6, 5) \in Int
          /\ One(Ahead(p, 7, 5)) = m(7, 5) /\ m(7, 5) \in Int
      BY <1>3
    <3>2. QED
      BY <3>1, RankSum
  <2>4. Rank(p, 6) = l(1, 6) + l(2, 6) + l(3, 6) + l(4, 6) + l(5, 6) + m(7, 6)
    <3>1. /\ One(Ahead(p, 6, 6)) = 0
          /\ One(Ahead(p, 1, 6)) = l(1, 6) /\ l(1, 6) \in Int
          /\ One(Ahead(p, 2, 6)) = l(2, 6) /\ l(2, 6) \in Int
          /\ One(Ahead(p, 3, 6)) = l(3, 6) /\ l(3, 6) \in Int
          /\ One(Ahead(p, 4, 6)) = l(4, 6) /\ l(4, 6) \in Int
          /\ One(Ahead(p, 5, 6)) = l(5, 6) /\ l(5, 6) \in Int
          /\ One(Ahead(p, 7, 6)) = m(7, 6) /\ m(7, 6) \in Int
      BY <1>3
    <3>2. QED
      BY <3>1, RankSum
  <2>5. QED
    BY <2>1, <2>2, <2>3, <2>4
<1>5. Lost(x) = 100 - (w(1) + w(2) + w(3) + w(4) + w(5) + w(6) + w(7))
  BY <1>1 DEF Lost, SumOf
<1>6. \A i \in 1..7 : Given(x, i) = w(i) + One(Rank(p, i) < Lost(x)) /\ w(i) \in Int
  BY <1>1, <1>2 DEF Given, p
<1>7. MiddleOf(100, t, x)
        = w(3) + w(4) + w(5) + w(6) + One(Rank(p, 3) < Lost(x)) + One(Rank(p, 4) < Lost(x))
            + One(Rank(p, 5) < Lost(x)) + One(Rank(p, 6) < Lost(x))
  BY <1>4, <1>5 DEF MiddleOf, Middle, l, m, w
<1>8. \A b : One(b) \in Int
  BY DEF One
<1> DEFINE o(i) == One(Rank(p, i) < Lost(x))
           g(i) == Given(x, i)
<1>9. /\ g(3) = w(3) + o(3) /\ g(4) = w(4) + o(4) /\ g(5) = w(5) + o(5) /\ g(6) = w(6) + o(6)
      /\ \A i \in 1..7 : w(i) \in Int /\ o(i) \in Int
  BY <1>6, <1>8
<1> HIDE DEF o, g
<1>10. g(3) + g(4) + g(5) + g(6) = w(3) + w(4) + w(5) + w(6) + o(3) + o(4) + o(5) + o(6)
  BY <1>9
<1>11. QED
  BY <1>7, <1>10 DEF o, g, t

\* Every number more by whole hundredths: so is the share.
Shifted(x, k, y) == \A i \in 1..7 : y[i] = x[i] + 20 * k[i]

LEMMA Shift ==
  ASSUME NEW x \in [1..7 -> Int], NEW k \in [1..7 -> Int], NEW y \in [1..7 -> Int],
         SumOf(k) = 100, Shifted(x, k, y)
  PROVE  MiddleOf(100, 2000, y) = k[3] + k[4] + k[5] + k[6] + MiddleOf(0, 2000, x)
<1> DEFINE w(z, i) == Hundredths(2000, z[i])
           r(z, i) == Rest(2000, z[i])
           j(i) == k[i]
<1>1. \A i \in 1..7 : x[i] \in Int /\ k[i] \in Int
  OBVIOUS
<1>2. \A i \in 1..7 : /\ w(x, i) \in Int /\ w(y, i) = w(x, i) + j(i) /\ j(i) \in Int
                      /\ r(y, i) = r(x, i)
  <2>1. SUFFICES ASSUME NEW i \in 1..7
                 PROVE  /\ w(x, i) \in Int /\ w(y, i) = w(x, i) + j(i) /\ j(i) \in Int
                        /\ r(y, i) = r(x, i)
    OBVIOUS
  <2>2. x[i] \in Int /\ k[i] \in Int
    BY <1>1
  <2>3. y[i] = x[i] + 20 * k[i]
    BY DEF Shifted
  <2>4. /\ Hundredths(2000, x[i]) \in Int /\ Hundredths(2000, x[i] + 20 * k[i]) = Hundredths(2000, x[i]) + k[i]
        /\ Rest(2000, x[i] + 20 * k[i]) = Rest(2000, x[i])
    <3>1. PICK a \in Int, b \in Int : a = x[i] /\ b = k[i]
      BY <2>2
    <3>2. /\ Hundredths(2000, a) \in Int /\ Hundredths(2000, a + 20 * b) = Hundredths(2000, a) + b
          /\ Rest(2000, a + 20 * b) = Rest(2000, a)
      BY DEF Hundredths, Rest
    <3>3. QED
      BY <3>1, <3>2
  <2>5. QED
    BY <2>2, <2>3, <2>4
<1>3. j(1) + j(2) + j(3) + j(4) + j(5) + j(6) + j(7) = 100
  BY DEF SumOf
<1> HIDE DEF w, r, j
<1> DEFINE lost(n, z) == n - (w(z, 1) + w(z, 2) + w(z, 3) + w(z, 4) + w(z, 5) + w(z, 6) + w(z, 7))
<1>4. lost(100, y) = lost(0, x)
  BY <1>2, <1>3
<1> DEFINE more(z, a, b) == One(r(z, a) > r(z, b))
           least(z, a, b) == One(r(z, a) >= r(z, b))
           three(z) == least(z, 1, 3) + least(z, 2, 3) + more(z, 4, 3) + more(z, 5, 3) + more(z, 6, 3) + more(z, 7, 3)
           four(z) == least(z, 1, 4) + least(z, 2, 4) + least(z, 3, 4) + more(z, 5, 4) + more(z, 6, 4) + more(z, 7, 4)
           five(z) == least(z, 1, 5) + least(z, 2, 5) + least(z, 3, 5) + least(z, 4, 5) + more(z, 6, 5) + more(z, 7, 5)
           six(z) == least(z, 1, 6) + least(z, 2, 6) + least(z, 3, 6) + least(z, 4, 6) + least(z, 5, 6) + more(z, 7, 6)
           extra(n, z) == One(three(z) < lost(n, z)) + One(four(z) < lost(n, z)) + One(five(z) < lost(n, z)) + One(six(z) < lost(n, z))
<1>5. three(y) = three(x) /\ four(y) = four(x) /\ five(y) = five(x) /\ six(y) = six(x)
  BY <1>2
<1>6. extra(100, y) = extra(0, x)
  BY <1>4, <1>5
<1>7. \A v : One(v) \in Int
  BY DEF One
<1>8. extra(0, x) \in Int
  BY <1>7
<1>9. \A i \in 1..7 : w(x, i) \in Int /\ w(y, i) \in Int
  BY <1>2
<1>10. MiddleOf(100, 2000, y) = w(y, 3) + w(y, 4) + w(y, 5) + w(y, 6) + extra(100, y)
  BY <1>7, <1>9 DEF MiddleOf, Middle, More, Least, w, r
<1>11. MiddleOf(0, 2000, x) = w(x, 3) + w(x, 4) + w(x, 5) + w(x, 6) + extra(0, x)
  BY <1>7, <1>9 DEF MiddleOf, Middle, More, Least, w, r
<1> HIDE DEF extra, lost, three, four, five, six
<1>12. MiddleOf(100, 2000, y) = j(3) + j(4) + j(5) + j(6) + MiddleOf(0, 2000, x)
  BY <1>2, <1>6, <1>8, <1>10, <1>11
<1>13. QED
  BY <1>12 DEF j

\* The hundredths that the shares lose when the appetite is low, and win when it
\* is high; the conservative profile runs out of foreign shares on the way.
Losing(d) == One(d >= 2) + One(d >= 3) + One(d >= 5) + One(d >= 7) + One(d >= 8) + One(d >= 9)
               + One(d >= 12) + One(d >= 13) + One(d >= 15) + One(d >= 17) + One(d >= 18) + One(d >= 19)
Winning(o) == One(o >= 2) + One(o >= 3) + One(o >= 4) + One(o >= 5) + One(o >= 8) + 2 * One(o >= 11)
                + One(o >= 13) + One(o >= 15) + One(o >= 17) + One(o >= 18) + One(o >= 19)
LosingAll(d) == One(d >= 2) + One(d >= 3) + One(d >= 5) + One(d >= 7) + One(d >= 8) + One(d >= 9)
                  + One(d >= 12) + One(d >= 13) + One(d >= 15) + One(d >= 16) + One(d >= 19)

LEMMA LosingIs ==
  ASSUME NEW d \in 0..20
  PROVE  Middle(0, 2000, 4 * d, 6 * d, -7 * d, 2 * d, -3 * d, -4 * d, 2 * d) = -Losing(d)
BY DEF Middle, Least, More, Hundredths, Rest, One, Losing

LEMMA WinningIs ==
  ASSUME NEW o \in 0..20
  PROVE  Middle(0, 2000, -3 * o, -7 * o, 6 * o, -o, 4 * o, 3 * o, -2 * o) = Winning(o)
BY DEF Middle, Least, More, Hundredths, Rest, One, Winning

LEMMA LosingAllIs ==
  ASSUME NEW d \in 16..20, NEW u \in {-1, 0, 1}, NEW q \in {0, 1}
  PROVE  Middle(100, 1940 + 4 * d, 380 + 4 * d - 20 * u, 960 + 6 * d, 180 - 7 * d + 20 * u - 20 * q, 200 + 2 * d,
                80 - 3 * d, 0, 140 + 2 * d + 20 * q)
           = 26 + u - q - LosingAll(d)
BY DEF Middle, Least, More, Hundredths, Rest, One, LosingAll

\* What a plan comes to, from the raw values of its assets.
LEMMA RoundedIs ==
  ASSUME NEW raw, NEW x \in [1..7 -> Nat], SumOf(x) > 0, Positive(raw, x)
  PROVE  /\ Total(RoundedAllocation(raw)) = 100
         /\ EquityShare(RoundedAllocation(raw)) = MiddleOf(100, SumOf(x), x)
BY AllocationIs, MiddleIs

LEMMA PositiveIs ==
  ASSUME NEW raw, NEW x \in [1..7 -> Nat], NEW f \in Int, x[6] = (IF f < 0 THEN 0 ELSE f),
         Is(raw, x[1], x[2], x[3], x[4], x[5], f, x[7])
  PROVE  Positive(raw, x)
<1>1. \A y \in Int : Max({0, y}) = IF y < 0 THEN 0 ELSE y
  BY DEF Max
<1>2. /\ raw[Order[1]] = x[1] /\ raw[Order[2]] = x[2] /\ raw[Order[3]] = x[3] /\ raw[Order[4]] = x[4]
      /\ raw[Order[5]] = x[5] /\ raw[Order[6]] = f /\ raw[Order[7]] = x[7]
  BY AssetsAre DEF Is
<1>3. x[1] \in Nat /\ x[2] \in Nat /\ x[3] \in Nat /\ x[4] \in Nat /\ x[5] \in Nat /\ x[7] \in Nat
  OBVIOUS
<1>4. /\ Max({0, x[1]}) = x[1] /\ Max({0, x[2]}) = x[2] /\ Max({0, x[3]}) = x[3] /\ Max({0, x[4]}) = x[4]
      /\ Max({0, x[5]}) = x[5] /\ Max({0, f}) = x[6] /\ Max({0, x[7]}) = x[7]
  BY <1>1, <1>3
<1>5. 1..7 = {1, 2, 3, 4, 5, 6, 7}
  OBVIOUS
<1>6. QED
  BY <1>2, <1>4, <1>5 DEF Positive

\* The raw values over a base that leaves something to every tilt.
Spread(raw, base, d, o, u, q) ==
    Is(raw, 20 * base[1] + 4 * d - 3 * o - 20 - 20 * u, 20 * base[2] + 6 * d - 7 * o - 40,
            20 * base[3] - 7 * d + 6 * o - 20 + 20 * u - 20 * q, 20 * base[4] + 2 * d - o + 40,
            20 * base[5] - 3 * d + 4 * o + 40, 20 * base[6] - 4 * d + 3 * o, 20 * base[7] + 2 * d - 2 * o + 20 * q)
Enough(base, d) ==
    /\ base[1] + base[2] + base[3] + base[4] + base[5] + base[6] + base[7] = 100
    /\ base[1] >= 5 /\ base[2] >= 15 /\ base[3] >= 10 /\ base[4] >= 8 /\ base[5] >= 2 /\ base[7] >= 7
    /\ 20 * base[6] >= 4 * d

\* Without a clipped value the shares move from their base by as much in every
\* profile.
LEMMA TiltedIs ==
  ASSUME NEW raw, NEW base \in [1..7 -> Nat], NEW d \in 0..20, NEW o \in 0..20, d = 0 \/ o = 0,
         NEW u \in {-1, 0, 1}, NEW q \in {0, 1},
         Enough(base, d), Spread(raw, base, d, o, u, q)
  PROVE  /\ Total(RoundedAllocation(raw)) = 100
         /\ EquityShare(RoundedAllocation(raw)) = base[3] + base[4] + base[5] + base[6] + 3 + u - q + Winning(o) - Losing(d)
<1> DEFINE c == base[1]
           r == base[2]
           b == base[3]
           v == base[4]
           m == base[5]
           w == base[6]
           g == base[7]
<1>1. /\ c \in Nat /\ r \in Nat /\ b \in Nat /\ v \in Nat /\ m \in Nat /\ w \in Nat /\ g \in Nat
      /\ c + r + b + v + m + w + g = 100
      /\ c >= 5 /\ r >= 15 /\ b >= 10 /\ v >= 8 /\ m >= 2 /\ g >= 7
      /\ 20 * w >= 4 * d
  BY DEF Enough
<1>2. Is(raw, 20 * c + 4 * d - 3 * o - 20 - 20 * u, 20 * r + 6 * d - 7 * o - 40,
              20 * b - 7 * d + 6 * o - 20 + 20 * u - 20 * q, 20 * v + 2 * d - o + 40,
              20 * m - 3 * d + 4 * o + 40, 20 * w - 4 * d + 3 * o, 20 * g + 2 * d - 2 * o + 20 * q)
  BY DEF Spread
<1> HIDE DEF c, r, b, v, m, w, g
<1> DEFINE x == <<4 * d - 3 * o, 6 * d - 7 * o, -7 * d + 6 * o, 2 * d - o, -3 * d + 4 * o, -4 * d + 3 * o, 2 * d - 2 * o>>
           k == <<c - 1 - u, r - 2, b - 1 + u - q, v + 2, m + 2, w, g + q>>
           y == <<20 * c + 4 * d - 3 * o - 20 - 20 * u, 20 * r + 6 * d - 7 * o - 40,
                  20 * b - 7 * d + 6 * o - 20 + 20 * u - 20 * q, 20 * v + 2 * d - o + 40,
                  20 * m - 3 * d + 4 * o + 40, 20 * w - 4 * d + 3 * o, 20 * g + 2 * d - 2 * o + 20 * q>>
<1>3. /\ y[1] \in Nat /\ y[2] \in Nat /\ y[3] \in Nat /\ y[4] \in Nat /\ y[5] \in Nat /\ y[6] \in Nat /\ y[7] \in Nat
      /\ y[1] + y[2] + y[3] + y[4] + y[5] + y[6] + y[7] = 2000
  BY <1>1
<1>4. y \in [1..7 -> Nat] /\ SumOf(y) = 2000
  BY <1>3 DEF SumOf
<1>5. x \in [1..7 -> Int] /\ k \in [1..7 -> Int] /\ SumOf(k) = 100
  BY <1>1 DEF SumOf
<1>6. Shifted(x, k, y)
  <2>1. /\ y[1] = x[1] + 20 * k[1] /\ y[2] = x[2] + 20 * k[2] /\ y[3] = x[3] + 20 * k[3] /\ y[4] = x[4] + 20 * k[4]
        /\ y[5] = x[5] + 20 * k[5] /\ y[6] = x[6] + 20 * k[6] /\ y[7] = x[7] + 20 * k[7]
    BY <1>1
  <2>2. 1..7 = {1, 2, 3, 4, 5, 6, 7}
    OBVIOUS
  <2> HIDE DEF x, k, y
  <2>3. QED
    BY <2>1, <2>2 DEF Shifted
<1>7. MiddleOf(0, 2000, x) = Winning(o) - Losing(d)
  <2>1. CASE o = 0
    <3>1. x[1] = 4 * d /\ x[2] = 6 * d /\ x[3] = -7 * d /\ x[4] = 2 * d /\ x[5] = -3 * d /\ x[6] = -4 * d /\ x[7] = 2 * d
      BY <2>1
    <3>2. Winning(o) = 0 /\ Losing(d) \in Int
      BY <2>1 DEF Winning, Losing, One
    <3> HIDE DEF x
    <3>3. MiddleOf(0, 2000, x) = -Losing(d)
      BY <3>1, LosingIs DEF MiddleOf
    <3>4. QED
      BY <3>2, <3>3
  <2>2. CASE d = 0
    <3>1. x[1] = -3 * o /\ x[2] = -7 * o /\ x[3] = 6 * o /\ x[4] = -o /\ x[5] = 4 * o /\ x[6] = 3 * o /\ x[7] = -2 * o
      BY <2>2
    <3>2. Losing(d) = 0 /\ Winning(o) \in Int
      BY <2>2 DEF Winning, Losing, One
    <3> HIDE DEF x
    <3>3. MiddleOf(0, 2000, x) = Winning(o)
      BY <3>1, WinningIs DEF MiddleOf
    <3>4. QED
      BY <3>2, <3>3
  <2>3. QED
    BY <2>1, <2>2
<1>8. Winning(o) \in Int /\ Losing(d) \in Int
  BY DEF Winning, Losing, One
<1>9. Positive(raw, y)
  <2>1. y[6] = (IF y[6] < 0 THEN 0 ELSE y[6]) /\ y[6] \in Int
    BY <1>3
  <2>2. Is(raw, y[1], y[2], y[3], y[4], y[5], y[6], y[7])
    BY <1>2
  <2> HIDE DEF y
  <2>3. QED
    BY <1>4, <2>1, <2>2, PositiveIs
<1>10. /\ k[3] + k[4] + k[5] + k[6] = b + v + m + w + 3 + u - q
      /\ k[3] + k[4] + k[5] + k[6] \in Int
  BY <1>1
<1> HIDE DEF x, y, k
<1>11. MiddleOf(100, 2000, y) = k[3] + k[4] + k[5] + k[6] + MiddleOf(0, 2000, x)
  <2>1. y \in [1..7 -> Int]
    BY <1>4
  <2>2. QED
    BY <1>5, <1>6, <2>1, Shift
<1>12. /\ Total(RoundedAllocation(raw)) = 100
       /\ EquityShare(RoundedAllocation(raw)) = MiddleOf(100, 2000, y)
  <2>1. SumOf(y) > 0
    BY <1>4
  <2>2. QED
    BY <1>4, <1>9, <2>1, RoundedIs
<1>13. EquityShare(RoundedAllocation(raw)) = b + v + m + w + 3 + u - q + Winning(o) - Losing(d)
  BY <1>1, <1>7, <1>8, <1>10, <1>11, <1>12
<1>14. QED
  BY <1>12, <1>13 DEF b, v, m, w

\* The conservative profile, its foreign shares clipped.
LEMMA ClippedIs ==
  ASSUME NEW raw, NEW d \in 16..20, NEW u \in {-1, 0, 1}, NEW q \in {0, 1},
         Is(raw, 380 + 4 * d - 20 * u, 960 + 6 * d, 180 - 7 * d + 20 * u - 20 * q, 200 + 2 * d, 80 - 3 * d,
                 60 - 4 * d, 140 + 2 * d + 20 * q)
  PROVE  /\ Total(RoundedAllocation(raw)) = 100
         /\ EquityShare(RoundedAllocation(raw)) = 26 + u - q - LosingAll(d)
<1> DEFINE f == 60 - 4 * d
           t == 1940 + 4 * d
           y == <<380 + 4 * d - 20 * u, 960 + 6 * d, 180 - 7 * d + 20 * u - 20 * q, 200 + 2 * d, 80 - 3 * d,
                  0, 140 + 2 * d + 20 * q>>
<1>1. /\ y[1] \in Nat /\ y[2] \in Nat /\ y[3] \in Nat /\ y[4] \in Nat /\ y[5] \in Nat /\ y[6] = 0 /\ y[7] \in Nat
      /\ y[1] + y[2] + y[3] + y[4] + y[5] + y[6] + y[7] = t
      /\ t \in Nat /\ t > 0 /\ f \in Int /\ f < 0
  OBVIOUS
<1>2. y \in [1..7 -> Nat] /\ SumOf(y) = t
  BY <1>1 DEF SumOf
<1>3. Is(raw, y[1], y[2], y[3], y[4], y[5], f, y[7])
  OBVIOUS
<1>4. MiddleOf(100, t, y) = 26 + u - q - LosingAll(d)
  <2>1. MiddleOf(100, t, y) = Middle(100, 1940 + 4 * d, 380 + 4 * d - 20 * u, 960 + 6 * d, 180 - 7 * d + 20 * u - 20 * q,
                                     200 + 2 * d, 80 - 3 * d, 0, 140 + 2 * d + 20 * q)
    BY DEF MiddleOf
  <2>2. QED
    BY <2>1, LosingAllIs
<1> HIDE DEF y, f, t
<1>5. Positive(raw, y)
  <2>1. y[6] = (IF f < 0 THEN 0 ELSE f)
    BY <1>1
  <2>2. QED
    BY <1>1, <1>2, <1>3, <2>1, PositiveIs
<1>6. /\ Total(RoundedAllocation(raw)) = 100
      /\ EquityShare(RoundedAllocation(raw)) = MiddleOf(100, t, y)
  <2>1. SumOf(y) > 0
    BY <1>1, <1>2
  <2>2. QED
    BY <1>2, <1>5, <2>1, RoundedIs
<1>7. QED
  BY <1>4, <1>6

\* How far a profile's shares are from its base.
Step(s) == IF s.direction >= 35 THEN 1 ELSE IF s.direction <= -35 THEN -1 ELSE 0
Burden(s) == IF s.pressure >= 60 THEN 1 ELSE 0
Drift(p, s) == 3 + Step(s) - Burden(s) + Winning(Offensive(s))
                 - (IF p = "conservative" THEN LosingAll(Defensive(s)) ELSE Losing(Defensive(s)))

LEMMA SharesAre ==
  ASSUME NEW s \in Scores, NEW p \in DOMAIN Bases
  PROVE  /\ Total(Plans(s)[p]) = 100
         /\ EquityShare(Bases[p]) \in Int
         /\ EquityShare(Plans(s)[p]) = EquityShare(Bases[p]) + Drift(p, s)
<1> DEFINE raw == [a \in Assets |-> 20 * Bases[p][a] + Deltas(s)[a]]
           d == Defensive(s)
           o == Offensive(s)
           u == Step(s)
           q == Burden(s)
<1>1. Plans(s)[p] = RoundedAllocation(raw)
  BY DEF Plans
<1>2. Tilted(raw, Bases[p], s)
  BY RawIs
<1>3. Flow(s) = 20 * u /\ Pressed(s) = 20 * q /\ u \in {-1, 0, 1} /\ q \in {0, 1}
  BY DEF Flow, Pressed, Step, Burden
<1>4. d \in 0..20 /\ o \in 0..20 /\ (d = 0 \/ o = 0)
  BY SignsAre
<1> HIDE DEF raw
<1>5. ASSUME NEW base, Is(Bases[p], base[1], base[2], base[3], base[4], base[5], base[6], base[7])
      PROVE  Spread(raw, base, d, o, u, q)
  BY <1>2, <1>3, <1>5 DEF Tilted, Spread, Is
<1> HIDE DEF d, o, u, q
<1>6. Drift(p, s) = 3 + u - q + Winning(o) - (IF p = "conservative" THEN LosingAll(d) ELSE Losing(d))
  BY DEF Drift, d, o, u, q
<1>7. /\ Winning(o) \in Int /\ Losing(d) \in Int /\ LosingAll(d) \in Int
      /\ d < 16 => LosingAll(d) = Losing(d)
      /\ o = 0 => Winning(o) = 0
  BY <1>4 DEF Winning, Losing, LosingAll, One
<1>8. CASE p = "conservative"
  <2> DEFINE base == <<20, 50, 10, 8, 2, 3, 7>>
  <2>1. Is(Bases[p], base[1], base[2], base[3], base[4], base[5], base[6], base[7])
    BY <1>8, TablesAre
  <2>2. base \in [1..7 -> Nat] /\ base[3] + base[4] + base[5] + base[6] = 23
    OBVIOUS
  <2>3. EquityShare(Bases[p]) = 23
    BY <2>1 DEF Is, EquityShare
  <2>4. CASE d < 16
    <3>1. Enough(base, d)
      BY <1>4, <2>4 DEF Enough
    <3> HIDE DEF base
    <3>2. Spread(raw, base, d, o, u, q)
      BY <1>5, <2>1
    <3>3. /\ Total(RoundedAllocation(raw)) = 100
          /\ EquityShare(RoundedAllocation(raw)) = base[3] + base[4] + base[5] + base[6] + 3 + u - q + Winning(o) - Losing(d)
      BY <1>3, <1>4, <2>2, <3>1, <3>2, TiltedIs
    <3>4. QED
      BY <1>1, <1>3, <1>6, <1>7, <1>8, <2>2, <2>3, <2>4, <3>3
  <2>5. CASE d >= 16
    <3>1. o = 0 /\ d \in 16..20
      BY <1>4, <2>5
    <3>2. Spread(raw, base, d, o, u, q)
      BY <1>5, <2>1
    <3>3. Is(raw, 380 + 4 * d - 20 * u, 960 + 6 * d, 180 - 7 * d + 20 * u - 20 * q, 200 + 2 * d, 80 - 3 * d,
                 60 - 4 * d, 140 + 2 * d + 20 * q)
      BY <1>3, <3>1, <3>2 DEF Spread, Is
    <3>4. /\ Total(RoundedAllocation(raw)) = 100
          /\ EquityShare(RoundedAllocation(raw)) = 26 + u - q - LosingAll(d)
      BY <1>3, <3>1, <3>3, ClippedIs
    <3>5. QED
      BY <1>1, <1>3, <1>6, <1>7, <1>8, <2>3, <3>1, <3>4
  <2>6. QED
    BY <1>4, <2>4, <2>5
<1>9. CASE p = "balanced"
  <2> DEFINE base == <<10, 30, 22, 12, 8, 10, 8>>
  <2>1. Is(Bases[p], base[1], base[2], base[3], base[4], base[5], base[6], base[7])
    BY <1>9, TablesAre
  <2>2. base \in [1..7 -> Nat] /\ base[3] + base[4] + base[5] + base[6] = 52
    OBVIOUS
  <2>3. EquityShare(Bases[p]) = 52
    BY <2>1 DEF Is, EquityShare
  <2>4. Enough(base, d)
    BY <1>4 DEF Enough
  <2> HIDE DEF base
  <2>5. Spread(raw, base, d, o, u, q)
    BY <1>5, <2>1
  <2>6. /\ Total(RoundedAllocation(raw)) = 100
        /\ EquityShare(RoundedAllocation(raw)) = base[3] + base[4] + base[5] + base[6] + 3 + u - q + Winning(o) - Losing(d)
    BY <1>3, <1>4, <2>2, <2>4, <2>5, TiltedIs
  <2>7. QED
    BY <1>1, <1>3, <1>6, <1>7, <1>9, <2>2, <2>3, <2>6
<1>10. CASE p = "growth"
  <2> DEFINE base == <<5, 15, 30, 10, 18, 14, 8>>
  <2>1. Is(Bases[p], base[1], base[2], base[3], base[4], base[5], base[6], base[7])
    BY <1>10, TablesAre
  <2>2. base \in [1..7 -> Nat] /\ base[3] + base[4] + base[5] + base[6] = 72
    OBVIOUS
  <2>3. EquityShare(Bases[p]) = 72
    BY <2>1 DEF Is, EquityShare
  <2>4. Enough(base, d)
    BY <1>4 DEF Enough
  <2> HIDE DEF base
  <2>5. Spread(raw, base, d, o, u, q)
    BY <1>5, <2>1
  <2>6. /\ Total(RoundedAllocation(raw)) = 100
        /\ EquityShare(RoundedAllocation(raw)) = base[3] + base[4] + base[5] + base[6] + 3 + u - q + Winning(o) - Losing(d)
    BY <1>3, <1>4, <2>2, <2>4, <2>5, TiltedIs
  <2>7. QED
    BY <1>1, <1>3, <1>6, <1>7, <1>10, <2>2, <2>3, <2>6
<1>11. QED
  BY <1>8, <1>9, <1>10, TablesAre

LEMMA DriftIs ==
  ASSUME NEW s \in Scores, NEW p \in DOMAIN Bases
  PROVE  Drift(p, s) \in -11..16
<1>1. Defensive(s) \in 0..20 /\ Offensive(s) \in 0..20
  BY SignsAre
<1>2. \A n \in 0..20 : Winning(n) \in 0..12 /\ Losing(n) \in 0..12 /\ LosingAll(n) \in 0..12
  BY DEF Winning, Losing, LosingAll, One
<1>3. Step(s) \in -1..1 /\ Burden(s) \in 0..1
  BY DEF Step, Burden
<1>4. QED
  BY <1>1, <1>2, <1>3 DEF Drift

\* The three profiles in order, and whole.
LEMMA PlansAre ==
  ASSUME NEW s \in Scores
  PROVE  LET plan == Plans(s)
         IN  /\ DOMAIN plan = DOMAIN Bases
             /\ \A p \in DOMAIN plan : /\ Total(plan[p]) = 100
                                       /\ EquityShare(plan[p]) - EquityShare(Bases[p]) \in -11..16
             /\ EquityShare(plan["conservative"]) <= EquityShare(plan["balanced"])
             /\ EquityShare(plan["balanced"]) <= EquityShare(plan["growth"])
<1> DEFINE plan == Plans(s)
           share(p) == EquityShare(plan[p])
           base(p) == EquityShare(Bases[p])
           drift(p) == Drift(p, s)
<1>1. DOMAIN plan = DOMAIN Bases
  BY DEF Plans
<1>2. \A p \in DOMAIN Bases : Total(plan[p]) = 100 /\ base(p) \in Int /\ share(p) = base(p) + drift(p) /\ drift(p) \in -11..16
  BY SharesAre, DriftIs
<1>3. base("conservative") = 23 /\ base("balanced") = 52 /\ base("growth") = 72
  BY TablesAre DEF Is, EquityShare
<1>4. drift("balanced") = drift("growth")
  BY DEF Drift
<1>5. {"conservative", "balanced", "growth"} = DOMAIN Bases
  BY TablesAre
<1> HIDE DEF share, base, drift, plan
<1>6. \A p \in DOMAIN Bases : share(p) - base(p) \in -11..16
  BY <1>2
<1>7. share("conservative") <= share("balanced") /\ share("balanced") <= share("growth")
  BY <1>2, <1>3, <1>4, <1>5
<1>8. QED
  BY <1>1, <1>2, <1>6, <1>7 DEF share, base, plan

\* What better scores do to the appetite and to the shares.
Better(s, t) ==
    /\ s.direction <= t.direction /\ s.volume <= t.volume
    /\ s.speed <= t.speed /\ s.pressure >= t.pressure

LEMMA AppetiteGrows ==
  ASSUME NEW s \in Scores, NEW t \in Scores, Better(s, t)
  PROVE  RiskAppetite(s) <= RiskAppetite(t)
<1> DEFINE sum(z) == 4500 + 20 * z.direction + 30 * (z.volume - 50) + 35 * (z.speed - 50) - 20 * z.pressure
           x == sum(s)
           y == sum(t)
<1>1. /\ s.direction \in Int /\ s.volume \in Int /\ s.speed \in Int /\ s.pressure \in Int
      /\ t.direction \in Int /\ t.volume \in Int /\ t.speed \in Int /\ t.pressure \in Int
  BY DEF Scores
<1>2. x \in Int /\ y \in Int /\ x <= y
  BY <1>1 DEF Better
<1>3. /\ RiskAppetite(s) = Bounded(0, 100, RoundedHundredth(x))
      /\ RiskAppetite(t) = Bounded(0, 100, RoundedHundredth(y))
  BY DEF RiskAppetite
<1> HIDE DEF x, y
<1> DEFINE a == RoundedHundredth(x)
           b == RoundedHundredth(y)
<1>4. a \in Int /\ b \in Int /\ a <= b
  <2>1. /\ x \div 100 \in Int /\ y \div 100 \in Int /\ x % 100 \in 0..99 /\ y % 100 \in 0..99
        /\ x = 100 * (x \div 100) + (x % 100) /\ y = 100 * (y \div 100) + (y % 100)
    BY <1>2
  <2> DEFINE h(l, r) == IF r < 50 THEN l ELSE IF r > 50 THEN l + 1 ELSE IF l % 2 = 0 THEN l ELSE l + 1
  <2>2. a = h(x \div 100, x % 100) /\ b = h(y \div 100, y % 100)
    <3>1. ASSUME NEW z, NEW low \in Int, NEW rest \in Int, z \div 100 = low, z % 100 = rest
          PROVE  RoundedHundredth(z) = h(low, rest)
      <4>1. CASE rest < 50
        BY <3>1, <4>1 DEF RoundedHundredth
      <4>2. CASE rest > 50
        BY <3>1, <4>2 DEF RoundedHundredth
      <4>3. CASE rest = 50
        BY <3>1, <4>3 DEF RoundedHundredth
      <4>4. QED
        BY <4>1, <4>2, <4>3
    <3>2. QED
      BY <2>1, <3>1
  <2>3. ASSUME NEW l \in Int, NEW r \in 0..99, NEW k \in Int, NEW q \in 0..99, 100 * l + r <= 100 * k + q
        PROVE  h(l, r) \in Int /\ h(k, q) \in Int /\ h(l, r) <= h(k, q)
    <3>1. l < k \/ (l = k /\ r <= q)
      BY <2>3
    <3>2. CASE l < k
      BY <3>2
    <3>3. CASE l = k /\ r <= q
      BY <3>3
    <3>4. QED
      BY <3>1, <3>2, <3>3
  <2> DEFINE l == x \div 100
             r == x % 100
             k == y \div 100
             q == y % 100
  <2>4. l \in Int /\ r \in 0..99 /\ k \in Int /\ q \in 0..99 /\ 100 * l + r <= 100 * k + q
    BY <1>2, <2>1
  <2> HIDE DEF h, l, r, k, q
  <2>5. h(l, r) \in Int /\ h(k, q) \in Int /\ h(l, r) <= h(k, q)
    BY <2>3, <2>4
  <2>6. QED
    BY <2>2, <2>5 DEF l, r, k, q
<1> HIDE DEF a, b
<1>5. \A z \in Int : Bounded(0, 100, z) = IF z < 0 THEN 0 ELSE IF z > 100 THEN 100 ELSE z
  BY BoundedIs
<1>6. /\ Bounded(0, 100, a) = (IF a < 0 THEN 0 ELSE IF a > 100 THEN 100 ELSE a)
      /\ Bounded(0, 100, b) = (IF b < 0 THEN 0 ELSE IF b > 100 THEN 100 ELSE b)
  BY <1>4, <1>5
<1>7. Bounded(0, 100, a) <= Bounded(0, 100, b)
  BY <1>4, <1>6
<1>8. QED
  BY <1>3, <1>7 DEF a, b

LEMMA SharesGrow ==
  ASSUME NEW s \in Scores, NEW t \in Scores, Better(s, t), NEW p \in DOMAIN Bases
  PROVE  EquityShare(Plans(s)[p]) <= EquityShare(Plans(t)[p])
<1>1. RiskAppetite(s) <= RiskAppetite(t) /\ RiskAppetite(s) \in 0..100 /\ RiskAppetite(t) \in 0..100
  BY AppetiteGrows, AppetiteIs
<1>2. /\ Defensive(s) \in 0..20 /\ Defensive(t) \in 0..20 /\ Defensive(s) >= Defensive(t)
      /\ Offensive(s) \in 0..20 /\ Offensive(t) \in 0..20 /\ Offensive(s) <= Offensive(t)
  BY <1>1 DEF Defensive, Offensive
<1>3. \A m, n \in 0..20 : m <= n => Winning(m) <= Winning(n) /\ Losing(m) <= Losing(n) /\ LosingAll(m) <= LosingAll(n)
  BY DEF Winning, Losing, LosingAll, One
<1>4. \A n \in 0..20 : Winning(n) \in Int /\ Losing(n) \in Int /\ LosingAll(n) \in Int
  BY DEF Winning, Losing, LosingAll, One
<1>5. Step(s) <= Step(t) /\ Burden(s) >= Burden(t) /\ Step(s) \in Int /\ Step(t) \in Int /\ Burden(s) \in Int /\ Burden(t) \in Int
  <2>1. /\ s.direction \in Int /\ s.pressure \in Int /\ t.direction \in Int /\ t.pressure \in Int
    BY DEF Scores
  <2>2. QED
    BY <2>1 DEF Better, Step, Burden
<1>6. /\ Winning(Offensive(s)) <= Winning(Offensive(t))
      /\ Losing(Defensive(s)) >= Losing(Defensive(t)) /\ LosingAll(Defensive(s)) >= LosingAll(Defensive(t))
  BY <1>2, <1>3, <1>4
<1>7. Drift(p, s) <= Drift(p, t) /\ Drift(p, s) \in Int /\ Drift(p, t) \in Int
  <2>1. /\ Winning(Offensive(s)) \in Int /\ Losing(Defensive(s)) \in Int /\ LosingAll(Defensive(s)) \in Int
        /\ Winning(Offensive(t)) \in Int /\ Losing(Defensive(t)) \in Int /\ LosingAll(Defensive(t)) \in Int
    BY <1>2, <1>4
  <2>2. QED
    BY <1>5, <1>6, <2>1 DEF Drift
<1>8. /\ EquityShare(Plans(s)[p]) = EquityShare(Bases[p]) + Drift(p, s)
      /\ EquityShare(Plans(t)[p]) = EquityShare(Bases[p]) + Drift(p, t)
      /\ EquityShare(Bases[p]) \in Int
  BY SharesAre
<1>9. QED
  BY <1>7, <1>8

\* The plans are those of the scores.
AllocationInv == scores \in Scores /\ plans = Plans(scores)

LEMMA AllocationStarts == InitAllocation => AllocationInv
<1>1. Directions \in SUBSET Int /\ Levels \in SUBSET Int /\ Pressures \in SUBSET Int
  BY ScoresAssumption
<1>2. QED
  BY <1>1 DEF InitAllocation, AllocationInv, Scores

LEMMA AllocationNext == AllocationInv /\ [NextAllocation]_allocationVars => AllocationInv'
<1>1. Directions \in SUBSET Int /\ Levels \in SUBSET Int /\ Pressures \in SUBSET Int
  BY ScoresAssumption
<1>2. ASSUME AllocationInv, NEW values \in SUBSET Int, NEW score \in {"direction", "volume", "speed", "pressure"},
             Release(values, score)
      PROVE  AllocationInv'
  <2>1. PICK v \in values : scores' = [scores EXCEPT ![score] = v]
    BY <1>2 DEF Release
  <2>2. v \in Int /\ scores \in Scores
    BY <1>2 DEF AllocationInv
  <2>3. scores' \in Scores
    BY <2>1, <2>2 DEF Scores
  <2>4. QED
    BY <1>2, <2>3 DEF Release, AllocationInv
<1>3. ASSUME AllocationInv, NextAllocation
      PROVE  AllocationInv'
  BY <1>1, <1>2, <1>3 DEF NextAllocation
<1>4. ASSUME AllocationInv, UNCHANGED allocationVars
      PROVE  AllocationInv'
  BY <1>4 DEF AllocationInv, allocationVars
<1>5. QED
  BY <1>3, <1>4

LEMMA AllocationAlways == SpecAllocation => []AllocationInv
BY AllocationStarts, AllocationNext, PTL DEF SpecAllocation

\* Whatever the scores, the plans add up to the whole, stay within the tilts and
\* keep the order of the profiles (_rounded_allocation).
THEOREM PlansStayWhole == SpecAllocation => []PlansAreWhole
<1>1. AllocationInv => PlansAreWhole
  BY PlansAre DEF AllocationInv, PlansAreWhole
<1>2. QED
  BY <1>1, AllocationAlways, PTL

\* No better flow cuts the shares of a profile and no higher pressure adds to
\* them (analyze_macro_snapshot).
THEOREM SharesAlwaysFollow == SpecAllocation => SharesFollowScores
<1> DEFINE Better1 == /\ scores.direction <= scores'.direction /\ scores.volume <= scores'.volume
                      /\ scores.speed <= scores'.speed /\ scores.pressure >= scores'.pressure
           Follow == Better1 => \A p \in DOMAIN plans : EquityShare(plans[p]) <= EquityShare(plans'[p])
<1>1. ASSUME AllocationInv, AllocationInv', Better1
      PROVE  \A p \in DOMAIN plans : EquityShare(plans[p]) <= EquityShare(plans'[p])
  <2>1. Better(scores, scores') /\ scores \in Scores /\ scores' \in Scores /\ plans = Plans(scores) /\ plans' = Plans(scores')
    BY <1>1 DEF AllocationInv, Better
  <2>2. DOMAIN plans = DOMAIN Bases
    BY <2>1 DEF Plans
  <2>3. QED
    BY <2>1, <2>2, SharesGrow
<1>2. AllocationInv /\ AllocationInv' => [Follow]_allocationVars
  BY <1>1
<1>3. QED
  BY <1>2, AllocationAlways, PTL DEF SharesFollowScores
=============================================================================
