----------------------------- MODULE PaperTrade -----------------------------
(* One trade on the internal paper broker, from the size the risk engine gives *)
(* it to the order that closes it.  A pass of the trading loop settles what    *)
(* the bars have filled, puts a stop behind a filled entry, manages what is    *)
(* held and otherwise may enter; the broker journals every command in a        *)
(* transaction of its own.  Prices move between passes, a pass may begin in    *)
(* the middle of a bar, and the process may die between any two commits.       *)
(* The gates of dispatch are Dispatch's subject: here they let a command       *)
(* through or refuse it.                                                       *)
EXTENDS Totals, FiniteSets, Sequences

CONSTANTS
    MarketPrices, \* the prices the market can print, in half ticks
    Frame,        \* moments in a bar; a pass may begin at any moment
    MaxMoment,    \* bound on the moments of a behaviour
    Buffer,       \* how far behind the structural reference the stop is put
    Atr,          \* the average true range
    Cost,         \* cost_per_unit of the account's budget
    Slippage,     \* slippage_per_unit of the paper account
    Offsets,      \* what break-even may add to the average: fees, slippage, tick
    AddMoves,     \* the favourable moves that may allow the one add: the range varies
    Equities,     \* equity at the session's start, and now
    Fractions,    \* grade |-> risk fraction of the policy, in percent
    Cap,          \* max_quantity
    ExitKinds,    \* the rules that close a position; EMERGENCY is one of them
    Levels        \* favourable moves that are only recorded

ASSUME PaperAssumption ==
    /\ MarketPrices \subseteq {p \in Nat : p % 2 = 0} \ {0}
    /\ Frame \in Nat \ {0} /\ MaxMoment \in Nat
    /\ {Buffer, Atr, Cost, Slippage, Cap} \subseteq Nat
    /\ Offsets \subseteq Nat /\ AddMoves \subseteq Nat
    /\ Equities \subseteq Nat /\ Levels \subseteq Nat
    /\ "NORMAL" \in DOMAIN Fractions /\ \A grade \in DOMAIN Fractions : Fractions[grade] \in Nat
    /\ "EMERGENCY" \in ExitKinds /\ ExitKinds \cap {"ENTRY", "STOP"} = {}

Entry == "ENTRY"
Stop == "STOP"
OrderNames == {Entry, Stop} \cup ExitKinds

VARIABLES
    path,     \* the price at every moment so far; the last one is now
    trade,    \* what the decision recorded, or None
    orders,   \* order |-> its quantity and trigger, quantity 0 when there is none
    links,    \* order |-> the paper commands dispatch linked to it
    journal,  \* the paper commands, as staged, with their receipts
    ledger,   \* the paper commands recorded as executions
    marks,    \* the levels recorded for the position
    level,    \* the kill switch
    pc,       \* where the pass is
    then,     \* where it goes when the command is dispatched
    command,  \* the command being dispatched
    watermark \* the last bar evaluated; forgotten when the process dies

db == <<trade, orders, links, journal, ledger, marks, level>>
memory == <<pc, then, command, watermark>>
paperVars == <<path, db, memory>>

None == [side |-> "NONE", entry |-> 0, stop |-> 0, quantity |-> 0, base |-> 0]
NoTerms == [quantity |-> 0, limit |-> 0, trigger |-> 0]
NoCommand == [order |-> Entry, target |-> 0, at |-> 0]

-----------------------------------------------------------------------------
(* Bars.  The bar that closes at c covers the moments c - Frame .. c, carries   *)
(* c as its timestamp, and is visible at the venue from its opening on.         *)
Now == Len(path) - 1
Price(t) == path[t + 1]
LastClose == Now - (Now % Frame)
OpenPrice(c) == Price(c - Frame)
Low(c) == Min({Price(t) : t \in c - Frame .. Min({c, Now})})
High(c) == Max({Price(t) : t \in c - Frame .. Min({c, Now})})
Closes == {c \in Frame .. MaxMoment : c % Frame = 0}

Buys(o) == (o = Entry) = (trade.side = "BUY")
Expected(k) == k.at + Frame
Reaches(k, c) == IF Buys(k.order) THEN High(c) >= k.trigger ELSE Low(c) <= k.trigger

(* bar_at: a stop waits for the first closed bar that reaches it; any other     *)
(* order is settled by the one bar whose timestamp is a frame after its signal, *)
(* which is not asked whether it has closed.                                    *)
ResolvingBars(k) ==
    IF k.trigger > 0
    THEN {c \in Closes : c <= Now /\ c >= Expected(k) /\ Reaches(k, c)}
    ELSE {c \in Closes : c = Expected(k) /\ c - Frame <= Now}
BarAt(k) == Min(ResolvingBars(k))

(* _eligible_price: for a limit that was not reached, zero. *)
StopFill(k, c) ==
    IF Buys(k.order) THEN Max({OpenPrice(c), k.trigger}) + Slippage
                     ELSE Min({OpenPrice(c), k.trigger}) - Slippage
MarketFill(k, c) == IF Buys(k.order) THEN OpenPrice(c) + Slippage ELSE OpenPrice(c) - Slippage
LimitFill(k, c) ==
    IF Buys(k.order)
    THEN IF Low(c) > k.limit THEN 0
         ELSE Min({Min({OpenPrice(c), k.limit}) + Slippage, k.limit})
    ELSE IF High(c) < k.limit THEN 0
         ELSE Max({Max({OpenPrice(c), k.limit}) - Slippage, k.limit})
FillPrice(k, c) ==
    IF k.trigger > 0 THEN StopFill(k, c)
    ELSE IF k.limit > 0 THEN LimitFill(k, c)
    ELSE MarketFill(k, c)

(* The receipt of a command: NO_FILL is an answer as final as FILLED. *)
Resolved(k) ==
    LET price == FillPrice(k, BarAt(k)) IN
    [k EXCEPT !.status = IF price = 0 THEN "NO_FILL" ELSE "FILLED", !.price = price]

(* ck_exec_paper_order_fill: a fill at no price, which a stop or a market order *)
(* may come to, cannot be written.                                              *)
Unpayable(k) == k.limit = 0 /\ FillPrice(k, BarAt(k)) <= 0

Unresolved == {i \in DOMAIN journal : journal[i].status = "STAGED"}
FilledOf(o) == {i \in ledger : journal[i].order = o}
Linked(i) == i \in links[journal[i].order]

(* The position the ledger holds. *)
SignedQuantity(i) ==
    IF Buys(journal[i].order) THEN journal[i].quantity ELSE 0 - journal[i].quantity
Position == Total([i \in ledger |-> SignedQuantity(i)])
EntryPrice == journal[CHOOSE i \in FilledOf(Entry) : TRUE].price
Distance(a, b) == IF a < b THEN b - a ELSE a - b

-----------------------------------------------------------------------------
(* One bar has closed, on a market that stood still. *)
PaperInit ==
    /\ \E p \in MarketPrices : path = [t \in 1 .. Frame + 1 |-> p]
    /\ trade = None
    /\ orders = [o \in OrderNames |-> NoTerms]
    /\ links = [o \in OrderNames |-> {}]
    /\ journal = <<>> /\ ledger = {} /\ marks = {} /\ level = "NONE"
    /\ pc = "idle" /\ then = "idle" /\ command = NoCommand /\ watermark = 0

(* Time passes between two passes of the loop. *)
Move(p) ==
    /\ pc = "idle" /\ Now < MaxMoment
    /\ path' = Append(path, p)
    /\ UNCHANGED <<db, memory>>

ClearHalt ==
    /\ level # "NONE"
    /\ level' = "NONE"
    /\ UNCHANGED <<path, trade, orders, links, journal, ledger, marks, memory>>

(* An exception or a death: what was only in memory is gone.  The supervisor *)
(* starts the process again.                                                 *)
Raise ==
    /\ pc' = "idle" /\ then' = "idle" /\ command' = NoCommand /\ watermark' = 0

Crash ==
    /\ pc # "idle" \/ watermark # 0
    /\ Raise /\ UNCHANGED <<path, db>>

Goto(label) == pc' = label /\ UNCHANGED <<then, command, watermark>>
Dispatched ==
    /\ pc' = then /\ then' = "idle" /\ command' = NoCommand /\ UNCHANGED watermark

-----------------------------------------------------------------------------
(* settle: every receipt and every execution of a pass in one transaction.   *)
(* A command the broker staged and dispatch never linked makes it raise, and *)
(* so does a fill the table refuses; the transaction is lost, and the bug    *)
(* keeps the receipts written so far.                                        *)
Receipts(R) == [i \in DOMAIN journal |-> IF i \in R THEN Resolved(journal[i])
                                                    ELSE journal[i]]
RolledBackBug(R) == Receipts(R)
RolledBack(R) == journal

Settle ==
    /\ pc = "idle"
    /\ LET R == {i \in Unresolved : ResolvingBars(journal[i]) # {}}
           filled == {i \in R : Resolved(journal[i]).status = "FILLED"}
       IN IF \E i \in R : ~Linked(i) \/ Unpayable(journal[i])
          THEN /\ journal' = RolledBack(R)
               /\ Raise /\ UNCHANGED ledger
          ELSE /\ journal' = Receipts(R)
               /\ ledger' = ledger \cup filled
               /\ Goto(IF \E i \in filled : journal[i].order = Entry
                       THEN "protect" ELSE "reconcile")
    /\ UNCHANGED <<path, trade, orders, links, marks, level>>

(* An order and its SUBMIT are committed before they are dispatched.  Its     *)
(* intent is named by the position and the reason: the same reason again is   *)
(* refused by raising.                                                        *)
IntentIsNew(o) == orders[o] = NoTerms
SubmitCommand(o) == [order |-> o, target |-> 0, at |-> Now]
Create(o, terms, next) ==
    IF IntentIsNew(o)
    THEN /\ orders' = [orders EXCEPT ![o] = terms]
         /\ command' = SubmitCommand(o)
         /\ pc' = "dispatch" /\ then' = next /\ UNCHANGED watermark
    ELSE Raise /\ UNCHANGED orders

(* protection_plan: the filled quantity, at the stop the decision recorded. *)
StopTerms == [quantity |-> trade.quantity, limit |-> 0, trigger |-> trade.stop]

Protect ==
    /\ pc = "protect"
    /\ Create(Stop, StopTerms, "reconcile")
    /\ UNCHANGED <<path, trade, links, journal, ledger, marks, level>>

(* reconcile: the broker has the staged commands and what its receipts add up  *)
(* to; the database has every link of an order that is not filled, those of    *)
(* voided and unfilled commands too, and the ledger's position.                *)
InternalOpen == UNION {links[o] : o \in {x \in OrderNames : FilledOf(x) = {}}}
BrokerPosition ==
    Total([i \in {i \in DOMAIN journal : journal[i].status = "FILLED"} |-> SignedQuantity(i)])
Agrees == Unresolved = InternalOpen /\ BrokerPosition = Position

Reconcile ==
    /\ pc = "reconcile"
    /\ level' = IF ~Agrees /\ level = "NONE" THEN "BLOCK_NEW_EXPOSURE" ELSE level
    /\ Goto(IF Agrees THEN "guard" ELSE "idle")
    /\ UNCHANGED <<path, trade, orders, links, journal, ledger, marks>>

StopWorking == links[Stop] # {} /\ FilledOf(Stop) = {}
Unprotected == Position # 0 /\ ~StopWorking

Guard ==
    /\ pc = "guard"
    /\ level' = IF Unprotected /\ level = "NONE" THEN "BLOCK_NEW_EXPOSURE" ELSE level
    /\ Goto(IF Unprotected THEN "idle" ELSE "context")
    /\ UNCHANGED <<path, trade, orders, links, journal, ledger, marks>>

(* A bar is evaluated once in the life of a process, armed or not. *)
NextContext ==
    /\ pc = "context"
    /\ IF LastClose > watermark
       THEN /\ watermark' = LastClose
            /\ pc' = (IF level = "NONE" THEN "tick" ELSE "idle")
       ELSE pc' = "idle" /\ UNCHANGED watermark
    /\ UNCHANGED <<path, db, then, command>>

-----------------------------------------------------------------------------
(* evaluate_v6_risk.  The stop goes behind the structural reference; the      *)
(* quantity is what the budget of the lower equity pays for, rounded down.    *)
RiskBaseBug(session, current) == session
RiskBase(session, current) == Min({session, current})

(* The score is research: no grade is sized above NORMAL. *)
RiskFraction(grade) == Min({Fractions[grade], Fractions["NORMAL"]})

StopPrice(side, ref) == IF side = "BUY" THEN ref - Buffer ELSE ref + Buffer
InWindow(d) == 10 * d >= 4 * Atr /\ 10 * d <= 15 * Atr
Behind(side, ref, entry) == IF side = "BUY" THEN ref < entry ELSE ref > entry

Quantity(base, grade, halved, d) ==
    Min({Cap, (base * RiskFraction(grade)) \div (100 * (IF halved THEN 2 ELSE 1) * (d + Cost))})

(* What the risk engine is asked: the side, the confirmed extreme of the leg,  *)
(* the account's equities, the grade, and half size around the open.          *)
Requests ==
    [side : {"BUY", "SELL"}, ref : MarketPrices, session : Equities, current : Equities,
     grade : DOMAIN Fractions, halved : BOOLEAN]
PlannedEntry == Price(LastClose)
EntryTerms(quantity, limit) == [quantity |-> quantity, limit |-> limit, trigger |-> 0]

Enter(r) ==
    LET entry == PlannedEntry
        stop == StopPrice(r.side, r.ref)
        base == RiskBase(r.session, r.current)
        quantity == Quantity(base, r.grade, r.halved, Distance(entry, stop))
    IN /\ pc = "tick" /\ trade = None
       /\ Behind(r.side, r.ref, entry) /\ stop > 0
       /\ InWindow(Distance(entry, stop)) /\ quantity > 0
       /\ trade' = [side |-> r.side, entry |-> entry, stop |-> stop, quantity |-> quantity,
                    base |-> Min({r.session, r.current})]
       /\ Create(Entry, EntryTerms(quantity, entry), "idle")
       /\ UNCHANGED <<path, links, journal, ledger, marks, level>>

Decline ==
    /\ pc = "tick" /\ Position <= 0
    /\ Goto("idle")
    /\ UNCHANGED <<path, db>>

-----------------------------------------------------------------------------
(* manage_v6_position.  Only what is held long is read back as held. *)
HeldLong == pc = "tick" /\ Position > 0
Favourable == Price(LastClose) - EntryPrice
ActiveStop == orders[Stop].trigger
InitialR == EntryPrice - trade.stop

(* V6ManagedPosition refuses to describe what risks more than was approved. *)
Describable ==
    /\ trade.stop < EntryPrice
    /\ Distance(EntryPrice, ActiveStop) <= InitialR

NonWideningBug(proposed) == proposed
NonWidening(proposed) == Max({ActiveStop, proposed})
BreakEvenStop(offset) == NonWidening(EntryPrice + offset)
AddStop(offset) == NonWidening((EntryPrice + Price(LastClose)) \div 2 + offset)
AtBreakEven == ActiveStop >= EntryPrice
AddDue(move) == Favourable >= move /\ Favourable > 0
BreakEvenDue == ~AtBreakEven /\ 10 * Favourable >= 3 * InitialR

Undescribable ==
    /\ HeldLong /\ ~Describable
    /\ Raise /\ UNCHANGED <<path, db>>

(* All that is held, at the market, and the account halted after it. *)
ExitTerms == [quantity |-> Position, limit |-> 0, trigger |-> 0]

Close(kind) ==
    /\ HeldLong /\ Describable
    /\ Create(kind, ExitTerms, IF kind = "EMERGENCY" THEN "halt" ELSE "idle")
    /\ UNCHANGED <<path, trade, links, journal, ledger, marks, level>>

(* _move_stop: the new trigger is committed with the REPLACE, which names one *)
(* of the ids the stop was ever linked to.                                    *)
ReplaceCommand(i) == [order |-> Stop, target |-> i, at |-> Now]
MoveStop(price, next) ==
    IF ActiveStop = price
    THEN Goto(next) /\ UNCHANGED orders
    ELSE /\ orders' = [orders EXCEPT ![Stop].trigger = price]
         /\ \E i \in links[Stop] : command' = ReplaceCommand(i)
         /\ pc' = "dispatch" /\ then' = next /\ UNCHANGED watermark

(* The add moves the stop first; the order it then builds carries neither a   *)
(* quote nor a trigger, and the intent refuses that by raising.               *)
AddToPosition(offset, move) ==
    /\ HeldLong /\ Describable /\ AddDue(move)
    /\ MoveStop(AddStop(offset), "fail")
    /\ UNCHANGED <<path, trade, links, journal, ledger, marks, level>>

BreakEven(offset, move) ==
    /\ HeldLong /\ Describable /\ ~AddDue(move) /\ BreakEvenDue
    /\ MoveStop(BreakEvenStop(offset), "mark")
    /\ UNCHANGED <<path, trade, links, journal, ledger, marks, level>>

(* Nothing is due, or the slippage sample is too small to move a stop by. *)
Watch ==
    /\ HeldLong /\ Describable
    /\ Goto("mark") /\ UNCHANGED <<path, db>>

(* Levels are recorded once for a position and move nothing. *)
Mark ==
    /\ pc = "mark"
    /\ marks' = marks \cup {l \in Levels : Favourable >= l}
    /\ Goto("idle")
    /\ UNCHANGED <<path, trade, orders, links, journal, ledger, level>>

Halt ==
    /\ pc = "halt"
    /\ level' = "EMERGENCY" /\ Goto("idle")
    /\ UNCHANGED <<path, trade, orders, links, journal, ledger, marks>>

AddFails ==
    /\ pc = "fail"
    /\ Raise /\ UNCHANGED <<path, db>>

-----------------------------------------------------------------------------
(* dispatch.  The gates refuse, or the broker stages the command in its own   *)
(* transaction and the link is committed after it.                            *)
Refuse ==
    /\ pc = "dispatch"
    /\ Dispatched /\ UNCHANGED <<path, db>>

PaperCommand ==
    [order |-> command.order, quantity |-> orders[command.order].quantity,
     limit |-> orders[command.order].limit, trigger |-> orders[command.order].trigger,
     at |-> command.at, status |-> "STAGED", price |-> 0]

(* A resolved command keeps its receipt; the replace goes on all the same. *)
Voided ==
    IF command.target \in Unresolved
    THEN [journal EXCEPT ![command.target].status = "NO_FILL"]
    ELSE journal

(* void_and_stage, both or neither.  The bug takes a row of the same order    *)
(* for the command being staged.                                              *)
VoidAndStageBug ==
    IF \E i \in DOMAIN journal : journal[i].order = command.order
    THEN Voided ELSE Append(Voided, PaperCommand)
VoidAndStage == Append(Voided, PaperCommand)

(* The broker's journal commits in a session of its own, before dispatch links *)
(* the order in its.                                                           *)
Stage ==
    /\ pc = "dispatch" /\ command.target = 0
    /\ journal' = Append(journal, PaperCommand)
    /\ Goto("link")
    /\ UNCHANGED <<path, trade, orders, links, ledger, marks, level>>

Replace ==
    /\ pc = "dispatch" /\ command.target # 0
    /\ journal' = VoidAndStage
    /\ Goto("link")
    /\ UNCHANGED <<path, trade, orders, links, ledger, marks, level>>

LinkOrder ==
    /\ pc = "link"
    /\ links' = [links EXCEPT ![command.order] = @ \cup {Len(journal)}]
    /\ Dispatched
    /\ UNCHANGED <<path, trade, orders, journal, ledger, marks, level>>

-----------------------------------------------------------------------------

PaperNext ==
    \/ \E p \in MarketPrices : Move(p)
    \/ ClearHalt \/ Crash
    \/ Settle \/ Protect \/ Reconcile \/ Guard \/ NextContext
    \/ \E r \in Requests : Enter(r)
    \/ Decline \/ Undescribable
    \/ \E kind \in ExitKinds : Close(kind)
    \/ \E offset \in Offsets, move \in AddMoves :
          AddToPosition(offset, move) \/ BreakEven(offset, move)
    \/ Watch \/ Mark \/ Halt \/ AddFails
    \/ Refuse \/ Stage \/ Replace \/ LinkOrder

PaperSpec == PaperInit /\ [][PaperNext]_paperVars

-----------------------------------------------------------------------------
(* Settlement never splits a receipt from its execution: the paper commands    *)
(* the ledger has recorded are exactly the ones whose receipt says FILLED, so  *)
(* a pass that dies or raises on an unlinked command neither loses a fill nor  *)
(* records it twice (MySqlFillSettlement.settle, persist_receipt).             *)
LedgerIsTheJournal ==
    ledger = {i \in DOMAIN journal : journal[i].status = "FILLED"}

(* "The gap between them is a position with no stop behind it": once a stop    *)
(* was accepted, what the trade still holds always has a stop staged behind    *)
(* it, whatever crash or replace came between (void_and_stage).                *)
StopNeverLost ==
    (links[Stop] # {} /\ (IF trade.side = "BUY" THEN Position > 0 ELSE Position < 0))
        => \E i \in Unresolved : journal[i].order = Stop

(* "Only ever tightens": a long's stop, on record and at the broker, is never  *)
(* moved away from the market, across adds that failed, replaces that were     *)
(* refused and the restarts after them (_non_widening_stop, _replace_stop).    *)
StopOnlyTightens ==
    [][trade.side = "BUY" /\ orders[Stop] # NoTerms =>
          /\ orders[Stop].trigger <= orders'[Stop].trigger
          /\ \A i \in DOMAIN journal, j \in DOMAIN journal' \ DOMAIN journal :
                journal[i].order = Stop /\ journal'[j].order = Stop
                    => journal[i].trigger <= journal'[j].trigger]_paperVars

(* Being stopped out of what actually filled costs no more than NORMAL's share *)
(* of the lower equity, whatever the grade and whatever bar filled the entry   *)
(* (evaluate_v6_risk, _risk_fraction, the limit branch of _eligible_price).    *)
LossAtStop ==
    LET entry == IF FilledOf(Entry) = {} THEN trade.entry ELSE EntryPrice
    IN IF trade.side = "BUY" THEN entry - trade.stop ELSE trade.stop - entry
RiskWithinBudget ==
    trade # None =>
        100 * trade.quantity * (LossAtStop + Cost) <= trade.base * Fractions["NORMAL"]

(* "Place an order that only ever closes": a stop or an exit never turns the   *)
(* position round.  The code does not hold it: an exit leaves the stop staged. *)
ClosingOrdersOnlyClose ==
    IF trade.side = "BUY" THEN Position >= 0 ELSE Position <= 0

(* "A disagreement between them is a defect in one of those paths": the two    *)
(* sides differ only when a command was staged and never linked.  The code     *)
(* does not hold it: an entry that did not fill and a stop that was moved both *)
(* leave a link behind, and the loop is unreconciled from then on.             *)
DisagreementIsADefect ==
    pc = "reconcile" /\ ~Agrees => \E i \in Unresolved : ~Linked(i)

(* "The bar that resolves this command, once it has closed": no receipt is     *)
(* written from a bar still forming.  The code does not hold it for an entry   *)
(* or an exit: bar_at asks for the bar a frame ahead and never looks at now.   *)
ResolvedBarHasClosed ==
    \A i \in DOMAIN journal :
        journal[i].trigger = 0 /\ journal[i].status # "STAGED" => Expected(journal[i]) <= Now
=============================================================================
