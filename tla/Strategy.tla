------------------------------ MODULE Strategy ------------------------------
(* One account's evaluations: the source asks once for every new bar, decides  *)
(* the side, and hands the tick a context; the tick asks whether trading is    *)
(* armed, assembles the evidence, evaluates it, records the decision and sends *)
(* the order.  A moment is a bar: the bar that closes at t is the t-th.        *)
(* The process may die between any two steps, and its source forgets.          *)
EXTENDS Signals, TradeTape

CONSTANTS
    Self,       \* the instance among the writers of the tape
    Starts,     \* the market, the tape and the mode a behaviour begins with
    Shapes,     \* the bars the market can print
    Heads,      \* where the venue's tape pauses
    Page,       \* bars one kline request returns
    AtrWindow,  \* ATR_WINDOW
    Buffer,     \* how far behind the structural reference the stop is put
    Targets,    \* distance of a context's target from its entry
    Daily,      \* the daily closes
    HeldRanges, \* the thirty-second ranges the trader was given
    Calendar,   \* the event calendar, fixed when the process starts
    Session,    \* the exchange calendar, fixed when the trader starts
    Day,        \* bars in a session of the venue
    MaxLives, MaxContexts   \* bounds

VARIABLES
    shadow,     \* the process runs in shadow
    bars,       \* the bars that have closed
    coming,     \* bars that are still to close (bound)
    life,       \* processes started so far
    watermark,  \* the last bar this process evaluated; 0 is none
    stage,      \* where the pass is
    ctx,        \* the context of the pass
    journal,    \* the recorded decisions, in order
    orders,     \* the decisions sent, each by its life and its bar
    contexts    \* contexts built so far

market == <<shadow, bars, coming>>
strategyVars == <<market, tapeVars, life, watermark, stage, ctx, journal, orders, contexts>>

NoContext == [at |-> 0, seen |-> 0, side |-> "BUY", tape |-> <<>>, target |-> 0]

(* A completed bar, as its constructor lets one be; its oscillator comes with it. *)
Bars ==
    {bar \in [t : Nat, o : Nat, h : Nat, l : Nat, c : Nat, v : Nat, osc : Int] :
        bar.l <= bar.h}
(* A trade of the venue, with the aggressor's side. *)
Prints == [at : Nat, price : Nat, qty : Nat, side : Sides]

ASSUME StrategyAssumption ==
    /\ Self \in Writers
    /\ Page \in Nat \ {0} /\ AtrWindow \in Nat \ {0} /\ Day \in Nat \ {0}
    /\ {Buffer, HeldRanges, MaxLives, MaxContexts} \subseteq Nat
    /\ Targets \subseteq Nat /\ Heads \subseteq Nat /\ Shapes \subseteq Bars
    /\ \A start \in Starts :
            /\ start.bars \in Seq(Bars) /\ start.prints \in Seq(Prints)
            /\ start.read \in 0 .. start.head /\ start.head \in 0 .. Len(start.prints)

-----------------------------------------------------------------------------
(* The source.  The trader reads one page of bars, the shadow as far back as    *)
(* the zones reach.                                                             *)
Visible(seen) == IF shadow THEN SubSeq(bars, 1, seen)
                 ELSE SubSeq(bars, Max({1, seen - Page + 1}), seen)
Priceable(s) == Len(s) > AtrWindow /\ RangeSum(s, AtrWindow) > 0
TapeRead == Chosen(prints, stored)

(* What the shadow measures for itself before it takes a bar as evaluated. *)
Measurable(tape) == ~ shadow \/ FlowRanges(FlowBars(Window(tape))) > 0

(* A venue may be late with the newest bar, so what is seen can lag.  Both      *)
(* directions at once build no context; none at all carries the long side.      *)
DirectionsOf(s) == IF Len(s) > Warmup THEN RegularSides(Aligned(s)) ELSE {}
SideOf(s) == IF DirectionsOf(s) = {} THEN "BUY" ELSE CHOOSE side \in DirectionsOf(s) : TRUE
NewBar(seen) == seen > watermark
ContextFor(seen, target) ==
    /\ stage = "idle" /\ contexts < MaxContexts
    /\ seen > 0 /\ NewBar(seen)
    /\ Cardinality(DirectionsOf(Visible(seen))) <= 1
    /\ Priceable(Visible(seen)) /\ Measurable(TapeRead)
    /\ watermark' = seen
    /\ ctx' = [at |-> Len(bars), seen |-> seen, side |-> SideOf(Visible(seen)),
               tape |-> TapeRead, target |-> target]
    /\ stage' = "tick" /\ contexts' = contexts + 1
    /\ UNCHANGED <<market, tapeVars, life, journal, orders>>

-----------------------------------------------------------------------------
(* Assembly.  A bar stays when its timestamp is a whole frame behind the        *)
(* decision; the timestamps are closing times, so the newest bar goes as well.  *)
DropForming(series, frame, at) == Chosen(series, {i \in DOMAIN series : series[i].t + frame <= at})
HlitBars(c) == DropForming(Visible(c.seen), 1, c.at)
MacdBars(c) == IF Len(HlitBars(c)) > Warmup THEN Aligned(HlitBars(c)) ELSE <<>>
ExecutionBars(c) == DropForming(AggregateBars(c.tape), Half, TapeEnd)
ExhaustionBars(c) == IF ExecutionBars(c) = <<>> THEN MacdBars(c) ELSE ExecutionBars(c)
AssembledZones(c) == IF HlitBars(c) = <<>> THEN {} ELSE Zones(HlitBars(c))
AssembledExhaustion(c) == Exhaustion(ExhaustionBars(c), c.side, AssembledZones(c))
AssembledEvents(c) == Events(Window(c.tape))
DrawnBug(c) ==   \* over the bars before the warm-up was dropped
    LET signal == Divergence(MacdBars(c), c.side) IN
    IF signal = NoSignal THEN NoSetup
    ELSE BuildSetup(HlitBars(c), signal, Moments(MacdBars(c), signal), c.side)
Drawn(c) ==
    LET signal == Divergence(MacdBars(c), c.side) IN
    IF signal = NoSignal THEN NoSetup
    ELSE BuildSetup(MacdBars(c), signal, Moments(MacdBars(c), signal), c.side)

(* The risk authority.  A confirmed exhaustion names the structural reference;  *)
(* an unconfirmed one has been refused before the reference matters.            *)
EntryPrice(c) == Last(Visible(c.seen)).c
Reference(c) == AssembledExhaustion(c).reference
StopPrice(c) == IF c.side = "BUY" THEN Reference(c) - Buffer ELSE Reference(c) + Buffer
DistanceInRanges(c) == 10 * Abs(EntryPrice(c) - StopPrice(c)) * AtrWindow
RiskAllows(c) ==
    LET ranges == RangeSum(Visible(c.seen), AtrWindow) IN
    /\ Further(c.side, Reference(c), EntryPrice(c))
    /\ StopPrice(c) > 0
    /\ 4 * ranges <= DistanceInRanges(c) /\ DistanceInRanges(c) <= 15 * ranges

(* The engine: every piece of evidence the market's family requires is there,   *)
(* none of it forbids the entry, and the method's preconditions hold.  Order    *)
(* flow always is there: an empty window is a sample too small to be Measured.  *)
ProfileAvailable(c) == c.tape # <<>>
RegimeAvailable == TrendOf(Daily) # "NONE"
EvidenceAvailable(c) ==
    /\ MacdBars(c) # <<>> /\ ExhaustionBars(c) # <<>>
    /\ ProfileAvailable(c) /\ RegimeAvailable
SessionAt(now) == IF shadow THEN SessionFor(now, Day, Session.cutoff) ELSE Session
CalendarPermits(c) == ~ CalendarBlocks(Calendar, c.at)
SessionPermits(c) == EntryAllowed(SessionAt(c.at), c.at)
EntryPermitted(c) == CalendarPermits(c) /\ SessionPermits(c)
Preconditions(c) ==
    /\ Divergence(MacdBars(c), c.side).kind = "REGULAR"
    /\ AssembledZones(c) # {}
    /\ Confirmed(AssembledExhaustion(c))
    /\ Measured(AssembledEvents(c))
    /\ ~ BlockingBigTrade(AssembledEvents(c), c.side, EntryPrice(c))
Qualified(c) ==
    EvidenceAvailable(c) /\ EntryPermitted(c) /\ Preconditions(c) /\ RiskAllows(c)

(* The score, and the grade it gives.  Only the side's own direction is ever    *)
(* among the indicators, so the two can never contradict each other here.       *)
Weight(holds, points) == IF holds THEN points ELSE 0
Score(c) ==
    LET flow == FlowBars(Window(c.tape))
        hidden == \E side \in Sides : Divergence(MacdBars(c), side).kind = "HIDDEN"
        ranges == IF shadow THEN FlowRanges(flow) ELSE HeldRanges
        aligned == TrendOf(Daily) = (IF c.side = "BUY" THEN "UP" ELSE "DOWN")
    IN Weight(Divergence(MacdBars(c), c.side).kind = "REGULAR", 2)
       + Weight(hidden, 1)
       + Weight(ProfileAvailable(c), 1)
       + Weight(aligned, 2)
       + Weight(Secado(flow, ranges), 2)
       + Weight(ReversalMig(flow, ranges), 2)
       + (IF BlockingBigTrade(AssembledEvents(c), c.side, EntryPrice(c)) THEN -2
          ELSE Weight(BigTrades(AssembledEvents(c)) # {}, 1))
       - Weight(~ CalendarPermits(c), 3)
       - MondayPenalty(Calendar, c.at)
Grade(c) ==
    IF ~ Qualified(c) THEN "REJECT"
    ELSE IF Score(c) >= 9 THEN "A"
    ELSE IF Score(c) >= 7 THEN "A_CANDIDATE"
    ELSE "NORMAL"

(* The decision validates itself: a tradeable one has its entry strictly        *)
(* between its stop and its target.                                             *)
Valid(c) == Grade(c) = "REJECT" \/ c.target > 0

-----------------------------------------------------------------------------
StrategyInit ==
    /\ \E start \in Starts :
          /\ shadow = start.shadow /\ bars = start.bars /\ coming = start.coming
          /\ prints = start.prints /\ head = start.head
          /\ stored = 1 .. start.read /\ checkpoint = start.read
    /\ known = [w \in Writers |-> Unread] /\ page = [w \in Writers |-> NoPage]
    /\ life = 1 /\ watermark = 0 /\ stage = "idle" /\ ctx = NoContext
    /\ journal = <<>> /\ orders = {} /\ contexts = 0

(* A pass reads the bars and the tape once, in ContextFor: what closes or is    *)
(* stored while it goes on is as if it came after it.                           *)
pass == <<life, watermark, stage, ctx, journal, orders, contexts>>
BarCloses(shape) ==
    /\ stage = "idle" /\ coming > 0
    /\ bars' = Append(bars, [shape EXCEPT !.t = Len(bars) + 1]) /\ coming' = coming - 1
    /\ UNCHANGED <<shadow, tapeVars, pass>>
Storing(w) ==
    /\ stage = "idle"
    /\ Poll(w) \/ Frame(w, head) \/ Select(w) \/ Commit(w)
    /\ UNCHANGED <<market, pass>>
TapeGrows(id) ==
    /\ stage = "idle" /\ VenuePrints(id)
    /\ UNCHANGED <<market, pass>>

(* The process is started again; what its source and its feed knew is gone. *)
StartsAgain ==
    /\ life < MaxLives
    /\ life' = life + 1 /\ watermark' = 0 /\ stage' = "idle" /\ ctx' = NoContext
    /\ Forgets(Self)
    /\ UNCHANGED <<market, journal, orders, contexts>>
ProcessDies == StartsAgain
(* The feed's insert broke the unique key: it ends, and the session with it. *)
FeedEnds ==
    /\ stage = "idle" /\ page[Self].asked /\ Collides(Self)
    /\ StartsAgain
OtherDies(w) ==
    /\ stage = "idle" /\ w # Self /\ known[w] # Unread
    /\ Forgets(w)
    /\ UNCHANGED <<market, pass>>

Finish == stage' = "idle" /\ ctx' = NoContext

(* run_tick up to the evaluation.  A disarmed account leaves no trace, and a    *)
(* managed position ends the pass; both answers are read from outside.          *)
NotArmed ==
    /\ stage = "tick"
    /\ Finish
    /\ UNCHANGED <<market, tapeVars, life, watermark, journal, orders, contexts>>
Managed ==
    /\ stage = "tick" /\ ~ shadow
    /\ Finish
    /\ UNCHANGED <<market, tapeVars, life, watermark, journal, orders, contexts>>
Assemble ==
    /\ stage = "tick"
    /\ stage' = "evaluate"
    /\ UNCHANGED <<market, tapeVars, life, watermark, ctx, journal, orders, contexts>>

(* record commits before anything is sent.  A context has fresh identities, so  *)
(* nothing recorded earlier is found under them.                                *)
DecisionOf(c) == [life |-> life, bar |-> c.seen, grade |-> Grade(c)]
PersistDecision(decision) == journal' = Append(journal, decision)
RecordDecision(decision) == PersistDecision(decision)
EvaluateBug ==   \* records only what it will not send
    /\ stage = "evaluate" /\ Valid(ctx)
    /\ IF Grade(ctx) = "REJECT" \/ Drawn(ctx) = NoSetup
       THEN Finish /\ RecordDecision(DecisionOf(ctx))
       ELSE stage' = "send" /\ UNCHANGED <<ctx, journal>>
    /\ UNCHANGED <<market, tapeVars, life, watermark, orders, contexts>>
Evaluate ==
    /\ stage = "evaluate" /\ Valid(ctx)
    /\ RecordDecision(DecisionOf(ctx))
    /\ IF Grade(ctx) = "REJECT" \/ Drawn(ctx) = NoSetup
       THEN Finish
       ELSE stage' = "send" /\ UNCHANGED ctx
    /\ UNCHANGED <<market, tapeVars, life, watermark, orders, contexts>>
(* A decision that fails its own validation raises, and the loop ends. *)
Invalid ==
    /\ stage = "evaluate" /\ ~ Valid(ctx)
    /\ StartsAgain

(* The order is created and dispatched, or refused. *)
SubmitOrder ==
    /\ stage = "send" /\ ~ shadow
    /\ orders' = orders \cup {<<life, ctx.seen>>}
    /\ Finish
    /\ UNCHANGED <<market, tapeVars, life, watermark, journal, contexts>>
Refused ==
    /\ stage = "send"
    /\ Finish
    /\ UNCHANGED <<market, tapeVars, life, watermark, journal, orders, contexts>>

StrategyNext ==
    \/ \E shape \in Shapes : BarCloses(shape)
    \/ \E id \in Heads : TapeGrows(id)
    \/ \E w \in Writers : Storing(w) \/ OtherDies(w)
    \/ \E seen \in {Len(bars) - 1, Len(bars)}, target \in Targets :
          ContextFor(seen, target)
    \/ NotArmed \/ Managed \/ Assemble
    \/ Evaluate \/ Invalid
    \/ SubmitOrder \/ Refused
    \/ ProcessDies \/ FeedEnds

StrategySpec == StrategyInit /\ [][StrategyNext]_strategyVars

-----------------------------------------------------------------------------
(* Whenever the engine admits a setup, its levels are drawn and stand in order  *)
(* between the anchors: the engine's reading of the divergence and the drawing  *)
(* over the warmed-up series never disagree, so a tradeable decision is never   *)
(* recorded and then dropped with NO_SETUP_DRAWN.                               *)
QualifiedSetupIsDrawn ==
    stage = "evaluate" /\ Qualified(ctx) =>
        LET setup == Drawn(ctx)
            levels == <<100 * setup.b, Level(setup, 25), Level(setup, 50), Level(setup, 66),
                        100 * setup.a>>
        IN /\ setup # NoSetup
           /\ \A i \in 1 .. 4 : Further(ctx.side, levels[i], levels[i + 1])

(* A process evaluates a bar once: no two decisions of one life are about the   *)
(* same bar, however its reads lag and whatever the control said in between.    *)
OneDecisionPerBar ==
    \A i, j \in DOMAIN journal :
        i # j /\ journal[i].life = journal[j].life => journal[i].bar # journal[j].bar

(* Whatever has been sent has a tradeable decision on record, even when the     *)
(* process dies between the two.                                                *)
SentIsRecorded ==
    \A o \in orders : \E i \in DOMAIN journal :
        /\ <<journal[i].life, journal[i].bar>> = o
        /\ journal[i].grade # "REJECT"

(* The readings that are built step by step are what their definitions say: the *)
(* exhaustion chain is the longest run of drying swings at the end; the marked  *)
(* events are within the cap and none left out is bigger; the value area is the *)
(* run of levels around the busiest that holds seventy percent; zones are apart.*)
DryingRun(s, side, swings, k) ==
    \A n \in k .. Len(swings) - 1 : Dries(s, side, swings[n], swings[n + 1])
ReadingsMeetTheirDefinition ==
    stage = "evaluate" =>
        LET s == ExhaustionBars(ctx)
            swings == Swings(s, ctx.side)
            events == AssembledEvents(ctx)
            window == Window(ctx.tape)
            levels == Levels(window)
            area == ValueArea(window)
            zones == AssembledZones(ctx)
        IN /\ swings # <<>> =>
                Chain(s, ctx.side) =
                    SubSeq(swings, Min({k \in DOMAIN swings : DryingRun(s, ctx.side, swings, k)}),
                           Len(swings))
           /\ Cardinality(BigTrades(events)) <= MaxMarkers
           /\ \A i \in BigTrades(events), j \in DOMAIN events \ BigTrades(events) :
                EventNotional(events[j]) <= EventNotional(events[i])
           /\ window # <<>> =>
                /\ 10 * Held(window, area) >= 7 * Held(window, ToSet(levels))
                /\ Busiest(window, ToSet(levels)) \in area
                /\ \A p, q \in area : \A l \in ToSet(levels) : p < l /\ l < q => l \in area
           /\ \A y, z \in zones : y = z \/ y.high < z.low \/ z.high < y.low

-----------------------------------------------------------------------------
(* Three statements of the source that its code does not keep; see the README.  *)

(* "Every evaluation is written, tradeable or not." *)
EveryEvaluationIsWritten == stage = "evaluate" => Valid(ctx)
(* The source and the assembly cannot "disagree about which divergence is there". *)
SourceAndAssemblyAgree ==
    stage = "evaluate" => RegularSides(MacdBars(ctx)) = DirectionsOf(Visible(ctx.seen))
(* "One evaluation per bar", and so one order. *)
OneOrderPerBar == \A o, p \in orders : o[2] = p[2] => o = p
==============================================================================
