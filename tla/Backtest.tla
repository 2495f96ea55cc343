------------------------------ MODULE Backtest ------------------------------
(***************************************************************************)
(* The walk-forward backtest (research/backtest.py): every bar of the      *)
(* evaluation window is judged by the bars up to it, a new signal is       *)
(* executed at the next open, and the books are kept trade by trade.       *)
(*                                                                         *)
(* Bars close one after the other, and after each the user may ask for     *)
(* the report again.  Analyzer, which the code takes as a parameter, gives *)
(* [action, score] for a window of bars.  Prices are integers; capital and *)
(* equity are exact fractions <<numerator, denominator>>.                  *)
(***************************************************************************)
EXTENDS Signals

CONSTANTS
    Analyzer(_),
    Prices,         \* the bars that may come, without their day
    MaxBars,        \* bound: bars
    EvaluationStart, EvaluationEnd,     \* days, the first before the second
    MinHistory,     \* bars before the first judgement: 520
    Window,         \* bars an analysis looks at, MinHistory or more: 800
    Horizons,       \* days after the execution at which a signal is rated
    CostBps, Base   \* cost of a trade in parts of Base (10000)

\* what BacktestOptions and the bars' validation make sure of
WalkAssumption ==
    /\ Prices \subseteq [open : Int, high : Int, low : Int, close : Int]
    /\ MaxBars \in 0..Len(Calendar)
    /\ Horizons \subseteq Nat \ {0}
    /\ MinHistory \in Nat \ {0, 1} /\ Window \in Nat /\ Window >= MinHistory
    /\ {CostBps, Base, EvaluationStart, EvaluationEnd} \subseteq Int

VARIABLES bars, report

walkVars == <<bars, report>>

Actionable == {"entry_watch", "exit_watch"}

---------------------------------------------------------------------------
(* Signals *)

LoopStart(bs) ==
    LET in == {i \in DOMAIN bs : bs[i].day >= EvaluationStart}
        first == IF in = {} THEN Len(bs) ELSE Min(in)
    IN  Max({2, MinHistory + 1, first - 1})

\* Mutation of Seen: the window reaches to the next bar.
SeenAhead(bs, i) == SubSeq(bs, Max({1, i + 1 - Window}), i + 1)

\* what the analyzer sees at bar i
Seen(bs, i) == SubSeq(bs, Max({1, i + 1 - Window}), i)

\* the bar a signal given at bar i is executed at
ExecutionAt(i) == i + 1

Favorable(action, gain) ==
    \/ action = "entry_watch" /\ gain > 0
    \/ action = "exit_watch" /\ gain < 0

\* the close h bars on, against the price paid: -1, 0 or 1, or unknown
Outcome(bs, i, action, h) ==
    LET at == ExecutionAt(i) + h - 1
        gain == bs[at].close - bs[ExecutionAt(i)].open
    IN  IF at > Len(bs) THEN [known |-> FALSE]
        ELSE [known |-> TRUE, day |-> bs[at].day, gain |-> gain, favorable |-> Favorable(action, gain)]

\* an action is a signal when it differs from the one of the bar before it
ValidateSignals(bs) ==
    LET from == LoopStart(bs)
        judged == {i \in from..Len(bs) - 1 : bs[i].day <= EvaluationEnd}
        analysis == [i \in judged |-> Analyzer(Seen(bs, i))]
        before(i) == IF i = from THEN "wait" ELSE analysis[i - 1].action
        IsSignal(i) == /\ bs[i].day >= EvaluationStart
                       /\ analysis[i].action \in Actionable /\ analysis[i].action # before(i)
        Signal(i) == [bar |-> i, execution |-> ExecutionAt(i), action |-> analysis[i].action,
                      score |-> analysis[i].score, price |-> bs[ExecutionAt(i)].open,
                      outcomes |-> [h \in Horizons |-> Outcome(bs, i, analysis[i].action, h)]]
        given == {i \in judged : IsSignal(i)}
    IN  [k \in 1..Cardinality(given) |-> Signal(Ith(given, k))]

Rated(signals, action, h) ==
    {k \in DOMAIN signals : signals[k].action = action /\ signals[k].outcomes[h].known}

\* samples and favourable ones per action and horizon
Statistics(signals) ==
    [pair \in Actionable \X Horizons |->
        LET rated == Rated(signals, pair[1], pair[2])
        IN  [samples |-> Cardinality(rated),
             favorable |-> Cardinality({k \in rated : signals[k].outcomes[pair[2]].favorable})]]

---------------------------------------------------------------------------
(* Books *)

None == [bar |-> 0]

\* capital times a price ratio
Times(x, num, den) == <<x[1] * num, x[2] * den>>

Buying(price) == price * (Base + CostBps)
Selling(price) == price * (Base - CostBps)

OpenBooks == [capital |-> <<1, 1>>, entry |-> None, trades |-> <<>>, invested |-> 0,
              pending |-> None, equity |-> <<>>]

\* shares worth the capital were bought; what they are worth at a selling price
Worth(books, price) == Times(books.capital, price, Buying(books.entry.price))

Sold(books, exit, at, price) ==
    [books EXCEPT
        !.capital = Worth(books, Selling(price)),
        !.trades = Append(@, [entrySignal |-> books.entry.signal, entry |-> books.entry.bar,
                              exitSignal |-> exit, exit |-> at, held |-> at - books.entry.bar,
                              buy |-> Buying(books.entry.price), sell |-> Selling(price)]),
        !.entry = None]

\* Mutation of Executed: an exit does not clear the position.
ExecutedKeepingEntry(books, bs, i) ==
    LET due == books.pending # None /\ books.pending.execution = i
        bought == [books EXCEPT !.entry = [bar |-> i, signal |-> books.pending.bar, price |-> bs[i].open]]
        done == CASE books.pending.action = "entry_watch" /\ books.entry = None -> bought
                  [] books.pending.action = "exit_watch" /\ books.entry # None ->
                       [Sold(books, books.pending.bar, i, bs[i].open) EXCEPT !.entry = books.entry]
                  [] OTHER -> books
    IN  IF due THEN [done EXCEPT !.pending = None] ELSE books

\* the pending signal is executed at its bar, or forgotten
Executed(books, bs, i) ==
    LET due == books.pending # None /\ books.pending.execution = i
        bought == [books EXCEPT !.entry = [bar |-> i, signal |-> books.pending.bar, price |-> bs[i].open]]
        done == CASE books.pending.action = "entry_watch" /\ books.entry = None -> bought
                  [] books.pending.action = "exit_watch" /\ books.entry # None ->
                       Sold(books, books.pending.bar, i, bs[i].open)
                  [] OTHER -> books
    IN  IF due THEN [done EXCEPT !.pending = None] ELSE books

SignalAt(signals, i) ==
    IF \E k \in DOMAIN signals : signals[k].bar = i
    THEN signals[CHOOSE k \in DOMAIN signals : signals[k].bar = i] ELSE None

\* one bar of the walk
Walked(books, bs, signals, i) ==
    LET done == Executed(books, bs, i)
        given == SignalAt(signals, i)
        held == done.entry # None
    IN  [done EXCEPT
            !.pending = IF given # None THEN given ELSE @,
            !.invested = IF held THEN @ + 1 ELSE @,
            !.equity = Append(@, IF held THEN Worth(done, Base * bs[i].close) ELSE done.capital)]

\* a position still open is sold at the last close
Settled(books, bs, i) ==
    IF books.entry = None THEN books
    ELSE LET sold == Sold(books, 0, i, bs[i].close)
         IN  [sold EXCEPT !.equity = Append(Front(@), sold.capital)]

NoReport == [ok |-> FALSE]

Evaluated(bs) == {i \in DOMAIN bs : bs[i].day \in EvaluationStart..EvaluationEnd}

\* the books before the first evaluated bar and after each
BooksOf(bs, signals) ==
    LET first == Min(Evaluated(bs))
        books[i \in first - 1..Max(Evaluated(bs))] ==
            IF i < first THEN OpenBooks ELSE Walked(books[i - 1], bs, signals, i)
    IN  books

WalkForward(bs) ==
    LET last == Max(Evaluated(bs))
        signals == ValidateSignals(bs)
        books == Settled(BooksOf(bs, signals)[last], bs, last)
        days == Cardinality(Evaluated(bs))
    IN  IF Len(bs) < 2 \/ days < 2 THEN NoReport
        ELSE [ok |-> TRUE, signals |-> signals, trades |-> books.trades, capital |-> books.capital,
              invested |-> books.invested, days |-> days, equity |-> books.equity,
              statistics |-> Statistics(signals)]

---------------------------------------------------------------------------
InitWalk == bars = <<>> /\ report = NoReport

BarOn(day, prices) ==
    [day |-> day, open |-> prices.open, high |-> prices.high, low |-> prices.low, close |-> prices.close]

Close(prices) ==
    /\ Len(bars) < MaxBars
    /\ bars' = Append(bars, BarOn(Len(bars) + 1, prices))
    /\ report' = WalkForward(bars')

NextWalk == \E prices \in Prices : Close(prices)

SpecWalk == InitWalk /\ [][NextWalk]_walkVars

---------------------------------------------------------------------------
(* Safety *)

\* the bars an analysis uses of the periods its window holds from their first day on,
\* those that began after the period of the window's first bar
WholeBars(seen, frame) ==
    {bar \in Range(DecisionBars(seen, frame)) :
        PeriodKey(bar.day, frame) > PeriodKey(Head(seen).day, frame)}

\* No repainting: a weekly or monthly bar an analysis has used is used again, and is
\* the same, in every later analysis whose window still holds its period whole:
\* an unfinished bar is left out until its period is over (provisional_excluded of
\* analyze_multi_timeframe).  The first bar of a window is another matter: the
\* window cuts its period, and as it slides it cuts it anew.
NoRepaint ==
    \A n, m \in DOMAIN bars, frame \in Frames :
        n < m =>
            \A bar \in WholeBars(Seen(bars, n), frame) :
                PeriodKey(bar.day, frame) > PeriodKey(Head(Seen(bars, m)).day, frame)
                    => bar \in WholeBars(Seen(bars, m), frame)

Open(trade) == trade.exitSignal = 0

Known(signal, last) ==
    [signal EXCEPT !.outcomes = [h \in Horizons |->
                                    signal.execution + h - 1 < last /\ @[h].known /\ @[h].favorable],
                   !.price = IF signal.execution < last THEN @ ELSE 0]

\* what a report tells of the days before the last bar
Past(told, last) ==
    [signals |-> [k \in DOMAIN told.signals |-> Known(told.signals[k], last)],
     trades |-> {<<k, told.trades[k]>> : k \in {k \in DOMAIN told.trades :
                                                  ~Open(told.trades[k]) /\ told.trades[k].exit < last}}]

\* Whatever the last bar had been, the report would tell the same of the past:
\* the same signals for the same reasons, at the same prices and ratings, and
\* the same closed trades (lookahead_safe of BacktestReport).
NoLookahead ==
    report.ok =>
        LET last == Len(bars)
        IN  \A prices \in Prices :
              Past(WalkForward(Append(Front(bars), BarOn(last, prices))), last) = Past(report, last)

\* what one unit becomes, trade by trade
Product(trades) ==
    LET upto[k \in 0..Len(trades)] ==
            IF k = 0 THEN <<1, 1>> ELSE Times(upto[k - 1], trades[k].sell, trades[k].buy)
    IN  upto[Len(trades)]

\* the closes a trade was open at
Closes(trade) == {i \in trade.entry..trade.exit : i < trade.exit \/ Open(trade)}

\* The final capital is what the listed trades make of one unit, the trades
\* follow one another, each is entered and left on the bar after its signal,
\* and the exposure counts exactly the closes they were open at
\* (walk_forward_backtest).
BooksBalance ==
    report.ok =>
        LET trades == report.trades
        IN  /\ report.capital = Product(trades)
            /\ Last(report.equity) = report.capital
            /\ Len(report.equity) = report.days
            /\ \A k \in DOMAIN trades :
                 /\ trades[k].entry = trades[k].entrySignal + 1
                 /\ trades[k].entry \in 1..trades[k].exit
                 /\ Open(trades[k]) => k = Len(trades)
                 /\ ~Open(trades[k]) => trades[k].exit = trades[k].exitSignal + 1
                 /\ k > 1 => trades[k - 1].exit < trades[k].entry
            /\ report.invested = Cardinality(UNION {Closes(trades[k]) : k \in DOMAIN trades})
=============================================================================
