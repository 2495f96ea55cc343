CONSTANTS
    Calendar <- MCCalendar
    Fetcher = {f1, f2}
    LastDay = 5
    FirstToday = 4
    TradingDay <- MCTradingDay
    Requests <- MCRequests
    MaxBasis = 1
    FastSpan = 12
    SlowSpan = 26
    SignalSpan = 9
    WrSpan = 10
    MonthsNeeded = 26
    TopBars = 12
    TopWindow = 80
    CrossWindow = 60
    Recent = 8
    Scale = 1000
    Analyzer <- MCAnalyzer
    Prices <- MCPrices
    MaxBars = 10
    EvaluationStart = 3
    EvaluationEnd = 9
    MinHistory = 2
    Window = 6
    Horizons = {1, 2}
    CostBps = 1
    Base = 10
    Months <- MCMonths
    Weeks <- MCFrames
    Days <- MCDays
    Waves <- MCWaves
    Trends <- MCTrends
    Gains <- MCGains
    MacroAdjustments = {8}
    Samples = {0, 3}
    Strategies <- MCStrategies
    Run = {r1}
    Sources = {s1, s2}
    Needed = 1
    MaxAge = 3
    LastDate = 4
    MaxVerdicts = 2
    MaxReleases = 2
    Directions <- MCDirections
    Levels <- MCLevels
    Pressures <- MCPressures
SPECIFICATION MCSpec
SYMMETRY Symmetry
INVARIANTS
  NoLookahead
  BooksBalance
  NoRepaint
  SeriesIsWhole
  ReturnedIsChecked
  UndisturbedResearchReturns
  ScreenIsSafe
  PlansAreWhole
  OverlayIsFresh
PROPERTIES
  SharesFollowScores
CHECK_DEADLOCK FALSE
