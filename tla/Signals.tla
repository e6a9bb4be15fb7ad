------------------------------- MODULE Signals -------------------------------
(* What the David v6 strategy reads off completed bars and the trade tape, as  *)
(* operators: swings, divergence, the drawn retracement, marked zones, the     *)
(* exhaustion chain, large trades, the volume profile, the session and the     *)
(* event calendar.                                                             *)
(* A bar is [t, o, h, l, c, v, osc]: t is the moment it closed, osc the MACD   *)
(* histogram at it, a free value here.  A print is [at, price, qty, side] with *)
(* the aggressor's side, in units of a tape whose decision moment is TapeEnd.  *)
EXTENDS Integers, FiniteSets, FiniteSetsExt, Sequences, SequencesExt

CONSTANTS
    Left,          \* PivotConfig.left; right is 0, so a swing needs no later bar
    Warmup,        \* bars MACD needs before it has a value
    BarsPerDate, AthDates, OrdinaryDates, MinTouches,   \* zones
    Half,          \* tape units in a thirty-second bar
    TapeEnd,       \* the decision moment on the tape
    FlowStart,     \* where the order-flow window begins
    Gap, Tick,     \* what joins two prints into one event
    MinEvents,     \* MINIMUM_BIG_TRADE_EVENTS
    MaxMarkers,    \* MAXIMUM_BIG_TRADE_MARKERS
    NormalRank,    \* BIG_TRADE_NORMAL_QUANTILE, in percent
    MinDeltas,     \* MINIMUM_DELTA_BARS
    FlowWindow,    \* THIRTY_SECOND_ATR_WINDOW
    FastDays, SlowDays   \* the two averages of the regime

ASSUME SignalsAssumption ==
    /\ {Left, BarsPerDate, AthDates, OrdinaryDates, MinTouches, Half, Tick, FlowWindow,
        FastDays, SlowDays} \subseteq Nat \ {0}
    /\ {Warmup, TapeEnd, FlowStart, Gap, MinEvents, MaxMarkers, MinDeltas} \subseteq Nat
    /\ AthDates <= OrdinaryDates /\ NormalRank \in 1 .. 100

Sides == {"BUY", "SELL"}
Opposite(side) == IF side = "BUY" THEN "SELL" ELSE "BUY"
Abs(n) == IF n < 0 THEN -n ELSE n
Ascending(S) ==
    [i \in 1 .. Cardinality(S) |-> CHOOSE n \in S : Cardinality({k \in S : k < n}) = i - 1]
(* The elements of s at the positions in I. *)
Chosen(s, I) == LET order == Ascending(I) IN [n \in DOMAIN order |-> s[order[n]]]

-----------------------------------------------------------------------------
(* Swings.  A long is read off the lows, a short off the highs. *)
IsSwing(bars, side, i) ==
    /\ i > Left
    /\ \A j \in i - Left .. i - 1 :
          IF side = "BUY" THEN bars[i].l < bars[j].l ELSE bars[i].h > bars[j].h
Swings(bars, side) == Ascending({i \in DOMAIN bars : IsSwing(bars, side, i)})
Extreme(bars, side, i) == IF side = "BUY" THEN bars[i].l ELSE bars[i].h

(* The range a bar covers, counted from the close before it. *)
TrueRange(s, i) ==
    Max({s[i].h - s[i].l, Abs(s[i].h - s[i - 1].c), Abs(s[i].l - s[i - 1].c)})
RangeSum(s, window) ==
    MapThenSumSet(LAMBDA i : TrueRange(s, i), Len(s) - window + 1 .. Len(s))

(* Both series lose the same warm-up prefix. *)
Aligned(bars) == SubSeq(bars, Warmup + 1, Len(bars))

(* Further is the new extreme, Weaker the oscillator that does not confirm it.  *)
Further(side, second, first) == IF side = "BUY" THEN second < first ELSE second > first
Weaker(side, second, first) == IF side = "BUY" THEN second > first ELSE second < first

NoSignal == [kind |-> "NONE", first |-> 0, second |-> 0]
Divergence(bars, side) ==
    LET swings == Swings(bars, side) IN
    IF Len(swings) < 2 THEN NoSignal
    ELSE LET first == swings[Len(swings) - 1]
             second == swings[Len(swings)]
             p == Extreme(bars, side, first)
             q == Extreme(bars, side, second)
             regular == Further(side, q, p) /\ Weaker(side, bars[second].osc, bars[first].osc)
             hidden == Further(side, p, q) /\ Weaker(side, bars[first].osc, bars[second].osc)
         IN IF regular \/ hidden
            THEN [kind |-> IF regular THEN "REGULAR" ELSE "HIDDEN",
                  first |-> first, second |-> second]
            ELSE NoSignal
RegularSides(bars) == {side \in Sides : Divergence(bars, side).kind = "REGULAR"}

(* The retracement is drawn over the bars the signal names, which must still    *)
(* carry the moments it was read at.  Levels are in hundredths.                 *)
NoSetup == [a |-> 0, b |-> 0]
Moments(bars, signal) == <<bars[signal.first].t, bars[signal.second].t>>
BuildSetup(bars, signal, moments, side) ==
    IF \/ signal.kind # "REGULAR"
       \/ signal.second > Len(bars)
       \/ Moments(bars, signal) # moments
    THEN NoSetup
    ELSE LET segment == signal.first .. signal.second
             a == IF side = "BUY" THEN Max({bars[i].h : i \in segment})
                                  ELSE Min({bars[i].l : i \in segment})
             b == Extreme(bars, side, signal.second)
         IN IF Further(side, b, a) THEN [a |-> a, b |-> b] ELSE NoSetup
Level(setup, percent) == 100 * setup.b + percent * (setup.a - setup.b)

-----------------------------------------------------------------------------
(* Zones: prices the market traded at, in equal bins over their range, kept     *)
(* where enough distinct bars touched.                                          *)
DateOf(bar) == (bar.t - 1) \div BarsPerDate
AtObservedHigh(bars) == Last(bars).c >= Max({bars[i].h : i \in DOMAIN bars})
RequiredDates(bars) == IF AtObservedHigh(bars) THEN AthDates ELSE OrdinaryDates
Dates(bars) == {DateOf(bars[i]) : i \in DOMAIN bars}
Selected(bars) ==
    LET dates == Ascending(Dates(bars))
        kept == {dates[i] : i \in {k \in DOMAIN dates : k > Len(dates) - RequiredDates(bars)}}
    IN Chosen(bars, {i \in DOMAIN bars : DateOf(bars[i]) \in kept})
Marks(bars) ==
    {<<i, "open", bars[i].o>> : i \in DOMAIN bars}
    \cup {<<i, "close", bars[i].c>> : i \in DOMAIN bars}
    \cup UNION {{<<i, side, Extreme(bars, side, i)>> :
                   i \in {k \in DOMAIN bars : IsSwing(bars, side, k)}} : side \in Sides}
CubeRootCeiling(n) == Min({k \in 1 .. n : k * k * k >= n})
BinIndex(price, low, span, bins) == Min({((price - low) * bins) \div span, bins - 1})
Zones(bars) ==
    LET marks == Marks(Selected(bars))
        prices == {m[3] : m \in marks}
        low == Min(prices)
        span == Max(prices) - low
        bins == CubeRootCeiling(Cardinality(marks))
        bin(k) == {m \in marks : BinIndex(m[3], low, span, bins) = k}
        touched == {k \in 0 .. bins - 1 : Cardinality({m[1] : m \in bin(k)}) >= MinTouches}
    IN IF Cardinality(Dates(bars)) < RequiredDates(bars) \/ span = 0 THEN {}
       ELSE {[low |-> Min({m[3] : m \in bin(k)}), high |-> Max({m[3] : m \in bin(k)})] :
               k \in touched}
InsideZone(price, zones) == \E z \in zones : z.low <= price /\ price <= z.high

(* Exhaustion: consecutive swings that each extend the price on less volume.    *)
Dries(bars, side, previous, current) ==
    /\ Further(side, Extreme(bars, side, current), Extreme(bars, side, previous))
    /\ bars[current].v < bars[previous].v
ChainBug(bars, side) ==   \* a swing that breaks the run is passed over
    FoldLeft(LAMBDA chain, i :
               IF chain = <<>> \/ Dries(bars, side, Last(chain), i)
               THEN Append(chain, i) ELSE chain,
             <<>>, Swings(bars, side))
Chain(bars, side) ==
    FoldLeft(LAMBDA chain, i :
               IF chain # <<>> /\ Dries(bars, side, Last(chain), i)
               THEN Append(chain, i) ELSE <<i>>,
             <<>>, Swings(bars, side))
NoExhaustion == [length |-> 0, reference |-> 0]
Exhaustion(bars, side, zones) ==
    LET chain == Chain(bars, side) IN
    IF Len(chain) < 2 THEN NoExhaustion
    ELSE LET reference == Extreme(bars, side, Last(chain)) IN
         IF InsideZone(reference, zones)
         THEN [length |-> Len(chain), reference |-> reference]
         ELSE NoExhaustion
Confirmed(exhaustion) == exhaustion.length >= 3

-----------------------------------------------------------------------------
(* The tape.  Thirty-second bars are aggregated from it: a bucket is a bar once *)
(* a print at or after its end has been seen.                                   *)
Notional(p) == p.price * p.qty
SumOf(f(_), s) == FoldLeft(LAMBDA total, x : total + f(x), 0, s)
Volume(p) == p.qty
Bucket(tape, k) == Chosen(tape, {i \in DOMAIN tape : tape[i].at \div Half = k})
PricesOf(s) == {s[i].price : i \in DOMAIN s}
BarOf(prints, closed) ==
    [t |-> closed, o |-> Head(prints).price, h |-> Max(PricesOf(prints)),
     l |-> Min(PricesOf(prints)), c |-> Last(prints).price, v |-> SumOf(Volume, prints),
     osc |-> 0]
AggregateBars(tape) ==
    IF tape = <<>> THEN <<>>
    ELSE LET seen == Min({TapeEnd, Last(tape).at})
             closed == {k \in {tape[i].at \div Half : i \in DOMAIN tape} : (k + 1) * Half <= seen}
             order == Ascending(closed)
         IN [n \in DOMAIN order |-> BarOf(Bucket(tape, order[n]), (order[n] + 1) * Half)]

(* Prints of one aggressor, close together in time and price, are one event. *)
Window(tape) ==
    Chosen(tape, {i \in DOMAIN tape : FlowStart <= tape[i].at /\ tape[i].at < TapeEnd})
Joins(event, p) ==
    /\ Last(event).side = p.side
    /\ p.at - Last(event).at <= Gap
    /\ LET prices == PricesOf(Append(event, p)) IN Max(prices) - Min(prices) <= 2 * Tick
Events(prints) ==
    FoldLeft(LAMBDA events, p :
               IF events # <<>> /\ Joins(Last(events), p)
               THEN Append(Front(events), Append(Last(events), p))
               ELSE Append(events, <<p>>),
             <<>>, prints)
EventNotional(event) == SumOf(Notional, event)

(* The nearest rank, so the threshold is a value some event had: the least that *)
(* no fewer than so many of them do not exceed.                                 *)
Quantile(values, percent) ==
    Min({values[i] : i \in {k \in DOMAIN values :
            100 * Cardinality({j \in DOMAIN values : values[j] <= values[k]})
                >= percent * Len(values)}})
Notionals(events) == [i \in DOMAIN events |-> EventNotional(events[i])]

(* The kept markers: at or above the quantile, the largest first and the later  *)
(* of two equals first, up to the cap.  {} of too few events means "not looked",*)
(* which Measured tells apart.                                                  *)
Measured(events) == Len(events) >= MinEvents
Bigger(events, i, j) ==
    \/ EventNotional(events[i]) > EventNotional(events[j])
    \/ EventNotional(events[i]) = EventNotional(events[j]) /\ i > j
BigTrades(events) ==
    LET normal == Quantile(Notionals(events), NormalRank)
        above == {i \in DOMAIN events : EventNotional(events[i]) >= normal}
    IN IF ~ Measured(events) \/ events = <<>> THEN {}
       ELSE {i \in above : Cardinality({j \in above : Bigger(events, j, i)}) < MaxMarkers}
BlockingBigTrade(events, side, price) ==
    \E i \in BigTrades(events) :
        /\ events[i][1].side = Opposite(side)
        /\ IF side = "BUY" THEN Max(PricesOf(events[i])) >= price
                           ELSE Min(PricesOf(events[i])) <= price

(* Flow bars of the window, with the signed notional of each.  A MIG is a bar   *)
(* of extreme delta that went nowhere and was answered; a secado one whose      *)
(* delta and volume then dried up and whose busiest price was reclaimed.        *)
SignedNotional(p) == IF p.side = "BUY" THEN Notional(p) ELSE -Notional(p)
PointOfControl(prints) ==
    LET at(price) ==
            SumOf(Notional, Chosen(prints, {i \in DOMAIN prints : prints[i].price = price}))
        best == Max({at(price) : price \in PricesOf(prints)})
    IN Min({price \in PricesOf(prints) : at(price) = best})
FlowBars(prints) ==
    LET shifted == [i \in DOMAIN prints |-> [prints[i] EXCEPT !.at = @ - FlowStart]]
        order == Ascending({k \in {shifted[i].at \div Half : i \in DOMAIN prints} :
                              FlowStart + (k + 1) * Half <= TapeEnd})
    IN [n \in DOMAIN order |->
          LET group == Bucket(shifted, order[n]) IN
          [bar |-> BarOf(group, order[n]), index |-> order[n],
           delta |-> SumOf(SignedNotional, group), poc |-> PointOfControl(group)]]
Follows(flow, i) == i < Len(flow) /\ flow[i + 1].index = flow[i].index + 1
DeltaThreshold(flow) ==
    Quantile([i \in DOMAIN flow |-> Abs(flow[i].delta)], 90)
Extremes(flow) ==
    IF Len(flow) < MinDeltas \/ flow = <<>> THEN {}
    ELSE {i \in DOMAIN flow : Follows(flow, i) /\ Abs(flow[i].delta) >= DeltaThreshold(flow)}
(* The thirty-second ranges a caller takes as its yardstick; 0 is none. *)
FlowRanges(flow) ==
    IF Len(flow) <= FlowWindow THEN 0
    ELSE RangeSum([i \in DOMAIN flow |-> flow[i].bar], FlowWindow)
ReversalMig(flow, ranges) ==
    \E i \in Extremes(flow) :
        LET b == flow[i].bar
            next == flow[i + 1].bar
            span == b.h - b.l
            body == {b.o, b.c}
        IN /\ span > 0
           /\ 100 * FlowWindow * Abs(b.c - b.o) <= 15 * ranges
           /\ IF flow[i].delta < 0
              THEN /\ 100 * (Min(body) - b.l) >= 35 * span
                   /\ 100 * (b.c - b.l) >= 65 * span
                   /\ next.h > b.h
              ELSE /\ 100 * (b.h - Max(body)) >= 35 * span
                   /\ 100 * (b.c - b.l) <= 35 * span
                   /\ next.l < b.l
Secado(flow, ranges) ==
    \E i \in Extremes(flow) :
        LET b == flow[i].bar
            after == {flow[j].bar : j \in i + 1 .. Min({i + 2, Len(flow)})}
        IN /\ 100 * FlowWindow * Abs(b.c - b.o) <= Max({200 * FlowWindow * Tick, 15 * ranges})
           /\ 100 * Abs(flow[i + 1].delta) <= 65 * Abs(flow[i].delta)
           /\ 100 * flow[i + 1].bar.v <= 75 * b.v
           /\ \/ flow[i].delta < 0 /\ \E x \in after : x.h >= flow[i].poc
              \/ flow[i].delta > 0 /\ \E x \in after : x.l <= flow[i].poc

(* The profile: notional per price bucket, and the area around the busiest one  *)
(* that grows by the busier neighbour until it holds seventy percent.           *)
RoundToBucket(price) == ((2 * price + Tick) \div (2 * Tick)) * Tick
Levels(prints) == Ascending({RoundToBucket(p) : p \in PricesOf(prints)})
LevelNotional(prints, price) ==
    SumOf(Notional, Chosen(prints, {i \in DOMAIN prints : RoundToBucket(prints[i].price) = price}))
Busier(prints, p, q) ==
    LET current == RoundToBucket(Last(prints).price)
        m == LevelNotional(prints, p)
        n == LevelNotional(prints, q)
    IN \/ m > n
       \/ m = n /\ Abs(p - current) < Abs(q - current)
       \/ m = n /\ Abs(p - current) = Abs(q - current) /\ p <= q
Busiest(prints, S) == CHOOSE p \in S : \A q \in S : Busier(prints, p, q)
Held(prints, area) == MapThenSumSet(LAMBDA p : LevelNotional(prints, p), area)
Neighbours(levels, area) ==
    {levels[i] : i \in {k \in DOMAIN levels : /\ levels[k] \notin area
                           /\ \/ k > 1 /\ levels[k - 1] \in area
                              \/ k < Len(levels) /\ levels[k + 1] \in area}}
Grown(prints, levels, area) ==
    IF \/ 10 * Held(prints, area) >= 7 * Held(prints, ToSet(levels))
       \/ Neighbours(levels, area) = {}
    THEN area
    ELSE area \cup {Busiest(prints, Neighbours(levels, area))}
ValueArea(prints) ==
    LET levels == Levels(prints)
    IN FoldLeft(LAMBDA area, level : Grown(prints, levels, area),
                {Busiest(prints, ToSet(levels))}, levels)

(* The regime: where the slow and the fast average of the daily closes stand    *)
(* and move.                                                                    *)
SumOfLast(s, days, back) ==
    FoldLeft(+, 0, SubSeq(s, Len(s) - back - days + 1, Len(s) - back))
TrendOf(daily) ==
    LET slow == SumOfLast(daily, SlowDays, 0)
        fast == SumOfLast(daily, FastDays, 0)
        moved(days) == SumOfLast(daily, days, 0) - SumOfLast(daily, days, 1)
        above == fast * SlowDays - slow * FastDays
    IN IF Len(daily) <= SlowDays THEN "NONE"
       ELSE IF Min({moved(SlowDays), moved(FastDays), above}) > 0 THEN "UP"
       ELSE IF Max({moved(SlowDays), moved(FastDays), above}) < 0 THEN "DOWN"
       ELSE "BALANCE"

-----------------------------------------------------------------------------
(* The two calendars, asked at a moment.  A calendar from the future or past    *)
(* its validity permits nothing.                                                *)
Usable(calendar, now) == calendar.captured <= now /\ now <= calendar.valid
BlackoutEnd(event) ==
    IF event.nfp THEN event.close
    ELSE event.at + (IF event.surprise = "NO" THEN event.normal ELSE event.strong)
EventBlocks(event, now) ==
    event.stars >= 2 /\ event.at - event.before <= now /\ now < BlackoutEnd(event)
CalendarBlocks(calendar, now) ==
    ~ Usable(calendar, now) \/ \E e \in calendar.events : EventBlocks(e, now)
EntryAllowed(session, now) ==
    /\ Usable(session, now)
    /\ session.open <= now /\ now < session.close - session.cutoff
(* The venue never closes; its session is the day a moment falls in. *)
SessionFor(now, day, cutoff) ==
    LET open == (now \div day) * day
    IN [captured |-> now, valid |-> open + day, open |-> open, close |-> open + day,
        cutoff |-> cutoff]
MondayPenalty(calendar, now) == IF now \in calendar.mondays THEN 1 ELSE 0
==============================================================================
