-------------------------- MODULE TradingLoopProofs --------------------------
(***************************************************************************)
(* TradingLoop holds for any entries, sizes and assets, any number of      *)
(* trades made by hand, of deaths of the process and of cleared halts;     *)
(* Strategy and TradeTape for any market, tape, readers and calendar.      *)
(***************************************************************************)
EXTENDS TradingLoop, Strategy, FiniteSetTheorems, SequenceTheorems, WellFoundedInduction, TLAPS

OrderOf(t) == trades[t].order

(* An order that was not sent: the venue does not know it. *)
Unsent(o) == o \notin open /\ \A t \in DOMAIN trades : OrderOf(t) # o

(* A trade settlement has to store: a capture still reports it. *)
Due(t) == Linked(OrderOf(t)) /\ horizon < t

(* Below a trade that is stored every trade that is due is stored. *)
StoredInOrder ==
    \A u \in applied : \A t \in 1 .. u : Due(t) => t \in applied

(* Settlement's window lies above what is stored, and below any trade in it    *)
(* one that is due is stored or in the window too.  Outside settlement it is   *)
(* empty.                                                                      *)
WindowInOrder ==
    /\ pc \notin {"settle", "down"} => window = {}
    /\ \A u \in window :
         /\ \A t \in applied : t < u
         /\ \A t \in 1 .. u : Due(t) => t \in applied \cup window

(* An order is sent once, by the pass that created its row: until then the     *)
(* venue has nothing of it, and until the answer is recorded settlement has    *)
(* passed none of its trades.                                                  *)
SentByItsPass ==
    /\ \A o \in Orders : row[o] = "absent" => Unsent(o)
    /\ pc \in {"dispatch", "send"} => row[target] = "created" /\ Unsent(target)
    /\ pc = "record" =>
         /\ row[target] = "created"
         /\ \A t \in DOMAIN trades : OrderOf(t) = target => \A u \in applied : u < t

SettlementInv == StoredInOrder /\ WindowInOrder /\ SentByItsPass

(* From the protection check to the broker call nothing takes the protection   *)
(* away, and a stop does not get that far.                                     *)
GuardedUntilSent ==
    /\ pc = "tick" => ~Unprotected
    /\ pc = "dispatch" => target = Stop \/ ~Unprotected
    /\ pc = "send" => target \in Entries /\ ~Unprotected
-----------------------------------------------------------------------------
Trades == [order : Orders \cup {Manual}, buy : BOOLEAN, asset : Assets]

(* A nonempty set of naturals has a least element. *)
LEMMA LeastElement ==
    ASSUME NEW S, S \subseteq Nat, S # {}
    PROVE  \E x \in S : \A y \in S : x <= y
<1> DEFINE R == OpToRel(<, Nat)
<1>1. IsWellFoundedOn(R, Nat)
  BY NatLessThanWellFounded
<1>2. \A x, y \in Nat : <<y, x>> \in R <=> y < x
  BY DEF OpToRel
<1> HIDE DEF R
<1>3. PICK x \in S : \A y \in S : ~ (<<y, x>> \in R)
  BY <1>1, WFMin
<1>4. ASSUME NEW y \in S PROVE x <= y
  <2>1. x \in Nat /\ y \in Nat
    OBVIOUS
  <2>2. ~ (y < x)
    BY <1>2, <1>3, <2>1
  <2> QED
    BY <2>1, <2>2
<1> QED
  BY <1>4

(* A nonempty set of naturals with a bound has a greatest element. *)
LEMMA GreatestElement ==
    ASSUME NEW n \in Nat, NEW S, S \subseteq 1 .. n, S # {}
    PROVE  \E x \in S : \A y \in S : y <= x
<1> DEFINE M == {n - x : x \in S}
<1>0. \A x \in S : x \in Nat /\ n - x \in Nat
  <2> SUFFICES ASSUME NEW x \in S PROVE x \in Nat /\ n - x \in Nat
    OBVIOUS
  <2>1. x \in 1 .. n
    OBVIOUS
  <2> QED
    BY <2>1
<1>1. M \subseteq Nat /\ M # {}
  BY <1>0
<1>2. PICK m \in M : \A k \in M : m <= k
  BY <1>1, LeastElement
<1>3. PICK x \in S : m = n - x
  BY <1>2
<1>4. ASSUME NEW y \in S PROVE y <= x
  <2>1. m <= n - y
    BY <1>2
  <2>2. x \in Nat /\ y \in Nat
    BY <1>0
  <2> QED
    BY <1>3, <2>1, <2>2
<1> QED
  BY <1>4

(* The trades are numbered from one. *)
LEMMA TradeIds ==
    ASSUME TypeOK
    PROVE  /\ Len(trades) \in Nat /\ DOMAIN trades = 1 .. Len(trades)
           /\ \A t \in DOMAIN trades : trades[t] \in Trades
<1>1. trades \in Seq(Trades)
  BY DEF TypeOK, Trades
<1> QED
  BY <1>1, LenProperties, ElementOfSeq

(* The counts of trades are numbers. *)
LEMMA CountsAreNumbers ==
    ASSUME TypeOK, NEW T, T \subseteq DOMAIN trades
    PROVE  Net(T) \in Int
<1>1. IsFiniteSet(DOMAIN trades)
  BY TradeIds, FS_Interval
<1>2. ASSUME NEW U, U \subseteq T PROVE Cardinality(U) \in Nat
  BY <1>1, <1>2, FS_Subset, FS_CardinalityType
<1>3. /\ Cardinality({t \in T : trades[t].buy}) \in Nat
      /\ Cardinality({t \in T : ~trades[t].buy}) \in Nat
  BY <1>2
<1> QED
  BY <1>3 DEF Net

(* A trade is added to the venue's log: the ones before it stay what they are. *)
LEMMA TradeAdded ==
    ASSUME TypeOK, NEW x \in Trades, trades' = Append(trades, x)
    PROVE  /\ trades' \in Seq(Trades) /\ DOMAIN trades' = DOMAIN trades \cup {Len(trades) + 1}
           /\ \A t \in DOMAIN trades : trades'[t] = trades[t]
           /\ trades'[Len(trades) + 1] = x
<1>1. Len(trades) \in Nat /\ DOMAIN trades = 1 .. Len(trades) /\ trades \in Seq(Trades)
  BY TradeIds DEF TypeOK, Trades
<1>2. /\ trades' \in Seq(Trades) /\ Len(trades') = Len(trades) + 1
      /\ \A t \in 1 .. Len(trades) : trades'[t] = trades[t]
      /\ trades'[Len(trades) + 1] = x
  BY <1>1, AppendProperties
<1>3. DOMAIN trades' = 1 .. Len(trades) + 1
  BY <1>2, LenProperties
<1> QED
  BY <1>1, <1>2, <1>3

(* Settlement takes the oldest trade of its window. *)
LEMMA OldestIsFirst ==
    ASSUME TypeOK, window # {}
    PROVE  OldestFirst(window) \in window /\ \A u \in window : OldestFirst(window) <= u
<1>1. window \subseteq Nat
  BY TradeIds DEF TypeOK
<1>2. \E t \in window : \A u \in window : t <= u
  BY <1>1, LeastElement
<1> QED
  BY <1>2 DEF OldestFirst

(* The cursor is the newest trade that is stored. *)
LEMMA CursorIsNewest ==
    ASSUME TypeOK
    PROVE  /\ applied = {} => Cursor = 0
           /\ applied # {} => Cursor \in applied /\ \A u \in applied : u <= Cursor
<1>1. CASE applied = {}
  BY <1>1 DEF Cursor
<1>2. CASE applied # {}
  <2>1. \E t \in applied : \A u \in applied : u <= t
    BY <1>2, GreatestElement, TradeIds DEF TypeOK
  <2> QED
    BY <1>2, <2>1 DEF Cursor
<1> QED
  BY <1>1, <1>2

(* What is recorded is what the broker answered. *)
Answered == pc = "record" => answer \in Outcomes
(* An answer is kept until it is recorded. *)
LEMMA AnsweredKept ==
    ASSUME TypeOK, Answered, [Next]_vars
    PROVE  Answered'
<1>1. ASSUME NEW outcome \in Outcomes, NEW reached \in BOOLEAN, Send(outcome, reached)
      PROVE  Answered'
  BY <1>1 DEF Send, Answered
<1>2. CASE Environment \/ UNCHANGED vars
  BY <1>2 DEF Environment, Fill, Expire, TradeByHand, Age, ClearHalt, Crash, Raise, Goto,
     vars, locals, Answered
<1>3. CASE FetchTrades \/ ApplyTrade \/ Protect \/ Settled \/ ReadInternal \/ Compare
  BY <1>3 DEF FetchTrades, ApplyTrade, Protect, Settled, ReadInternal, Compare, Raise, Goto,
     CreateOrder, Answered
<1>4. CASE \/ Guard \/ Decline \/ Dispatch \/ Record \/ Restart
           \/ \E e \in Entries : Submit(e)
  BY <1>4 DEF Guard, Decline, Dispatch, Record, Restart, Submit, Goto, CreateOrder, Resume,
     Answered
<1> QED
  BY <1>1, <1>2, <1>3, <1>4 DEF Next, Process

(* The types hold, and so does what they take to hold. *)
LEMMA TypedAlways == Spec => [](TypeOK /\ Answered)
<1>1. Init => TypeOK /\ Answered
  <2> SUFFICES ASSUME Init PROVE TypeOK /\ Answered
    OBVIOUS
  <2>1. /\ trades \in Seq([order : Orders \cup {Manual}, buy : BOOLEAN, asset : Assets])
        /\ horizon \in Nat
    BY EmptySeq DEF Init
  <2>2. NoReading \in [open : SUBSET Orders, position : Int] /\ Stop \in Orders
    BY DEF NoReading, Orders
  <2>3. open = {} /\ applied = {} /\ window = {} /\ owed = 0 /\ target = Stop
    BY DEF Init
  <2>4. row \in [Orders -> {"absent", "created"} \cup Outcomes]
    BY DEF Init
  <2>5. crashes \in 0..MaxCrashes /\ clears \in 0..MaxClears
    BY LoopAssumption DEF Init, LoopAssumption
  <2>6. /\ level = "NONE" /\ incident = FALSE /\ diffs = FALSE /\ pc = "sleep"
        /\ answer = "none" /\ seen = NoReading
    BY DEF Init
  <2> QED
    BY <2>1, <2>2, <2>3, <2>4, <2>5, <2>6 DEF TypeOK, Answered
<1>2. TypeOK /\ Answered /\ [Next]_vars => TypeOK' /\ Answered'
  <2> SUFFICES ASSUME TypeOK, Answered, [Next]_vars PROVE TypeOK'
    BY AnsweredKept
  <2>1. ASSUME NEW x \in Trades, trades' = Append(trades, x), open' \subseteq open,
               UNCHANGED <<horizon, db, pc, locals, crashes, clears>>
        PROVE  TypeOK'
    <3>1. trades' \in Seq(Trades) /\ DOMAIN trades \subseteq DOMAIN trades'
      BY <2>1, TradeAdded
    <3> QED
      BY <2>1, <3>1 DEF TypeOK, Trades, db, locals
  <2>2. ASSUME NEW o \in Orders, NEW asset \in Assets, Fill(o, asset) PROVE TypeOK'
    <3>1. [order |-> o, buy |-> (o # Stop), asset |-> asset] \in Trades
      BY DEF Trades
    <3> QED
      BY <2>1, <2>2, <3>1 DEF Fill, Trade
  <2>3. ASSUME NEW buy \in BOOLEAN, TradeByHand(buy) PROVE TypeOK'
    <3>1. [order |-> Manual, buy |-> buy, asset |-> Settlement] \in Trades
      BY LoopAssumption DEF Trades, LoopAssumption
    <3> QED
      BY <2>1, <2>3, <3>1 DEF TradeByHand, Trade
  <2>4. ASSUME NEW o \in Orders, Expire(o) PROVE TypeOK'
    BY <2>4 DEF Expire, TypeOK, db, locals
  <2>19. ASSUME NEW t \in DOMAIN trades, Age(t) PROVE TypeOK'
    <3>1. horizon' \in Nat
      BY <2>19, TradeIds DEF Age
    <3> QED
      BY <2>19, <3>1 DEF Age, TypeOK, db, locals
  <2>5. CASE ClearHalt \/ Crash
    BY <2>5, LoopAssumption DEF ClearHalt, Crash, Raise, Goto, TypeOK, venue, db, locals, LoopAssumption
  <2>6. CASE FetchTrades
    BY <2>6 DEF FetchTrades, Recent, Raise, Goto, TypeOK, venue, db
  <2>7. CASE ApplyTrade
    <3>1. OldestFirst(window) \in window
      BY <2>7, OldestIsFirst DEF ApplyTrade
    <3>2. applied' \subseteq DOMAIN trades /\ owed' \in Nat /\ window' \subseteq window
          /\ pc' \in {pc, "down"}
      BY <2>7, <3>1 DEF ApplyTrade, TypeOK, Raise, Goto
    <3> QED
      BY <2>7, <3>2 DEF ApplyTrade, TypeOK, venue
  <2>8. CASE Protect
    <3>1. Stop \in Orders
      BY DEF Orders
    <3> QED
      BY <2>8, <3>1 DEF Protect, CreateOrder, Raise, Goto, TypeOK, venue
  <2>9. CASE Settled \/ Decline
    BY <2>9 DEF Settled, Decline, Goto, TypeOK, venue, db, locals
  <2>10. CASE ReadInternal
    <3>1. Position \in Int
      BY CountsAreNumbers DEF Position, TypeOK
    <3>2. [open |-> InternalOpen, position |-> Position] \in [open : SUBSET Orders, position : Int]
      BY <3>1 DEF InternalOpen
    <3> QED
      BY <2>10, <3>2 DEF ReadInternal, Goto, TypeOK, venue, db
  <2>11. CASE Compare
    BY <2>11 DEF Compare, PersistRun, Blocked, Raise, Goto, TypeOK, venue, locals
  <2>12. CASE Guard
    BY <2>12 DEF Guard, Blocked, Goto, TypeOK, venue, locals
  <2>13. ASSUME NEW e \in Entries, Submit(e) PROVE TypeOK'
    <3>1. e \in Orders
      BY DEF Orders
    <3> QED
      BY <2>13, <3>1 DEF Submit, CreateOrder, Goto, TypeOK, venue
  <2>14. CASE Dispatch
    BY <2>14 DEF Dispatch, Resume, Goto, TypeOK, venue, db, locals
  <2>15. ASSUME NEW outcome \in Outcomes, NEW reached \in BOOLEAN, Send(outcome, reached)
         PROVE  TypeOK'
    BY <2>15 DEF Send, Goto, TypeOK, db
  <2>16. CASE Record
    <3>1. row' \in [Orders -> {"absent", "created"} \cup Outcomes]
      BY <2>16 DEF Record, TypeOK, Answered
    <3> QED
      BY <2>16, <3>1 DEF Record, Resume, Goto, TypeOK, venue, locals
  <2>17. CASE Restart
    BY <2>17 DEF Restart, NoReading, Orders, Goto, TypeOK, venue, db
  <2>18. CASE UNCHANGED vars
    BY <2>18 DEF vars, TypeOK, venue, db, locals
  <2> QED
    BY <2>2, <2>3, <2>4, <2>5, <2>6, <2>7, <2>8, <2>9, <2>10, <2>11, <2>12, <2>13, <2>14,
       <2>15, <2>16, <2>17, <2>18, <2>19 DEF Next, Process, Environment
<1> QED
  BY <1>1, <1>2, PTL DEF Spec

(* The trades, the tables and the process's variables keep their types         *)
(* (live_settlement.py, live_pass.py, reconciliation.py and live_safety.py     *)
(* write nothing else).                                                        *)
THEOREM TypeCorrect == Spec => []TypeOK
BY TypedAlways, PTL

-----------------------------------------------------------------------------
(* A step that leaves the trades, the rows and the ledger alone, and does not   *)
(* begin to send.                                                              *)
LEMMA LedgerAtRest ==
    ASSUME TypeOK, SettlementInv, UNCHANGED <<trades, row, applied>>, open' \subseteq open,
           horizon \in Nat, horizon' \in Nat, horizon <= horizon',
           window' = window \/ window' = {},
           pc' \notin {"settle", "down"} => window' = {},
           pc' \in {"dispatch", "send"} => pc \in {"dispatch", "send"} /\ target' = target,
           pc' = "record" => pc = "record" /\ target' = target
    PROVE  SettlementInv'
<1>1. \A t \in Nat : Due(t)' => Due(t)
  BY DEF Due, OrderOf, Linked
<1>3. applied \subseteq Nat /\ window \subseteq Nat
  BY TradeIds DEF TypeOK
<1>5. StoredInOrder'
  <2> SUFFICES ASSUME NEW u \in applied, NEW t \in 1 .. u, Due(t)' PROVE t \in applied
    BY DEF StoredInOrder
  <2>1. Due(t)
    BY <1>1, <1>3
  <2> QED
    BY <2>1 DEF SettlementInv, StoredInOrder
<1>6. ASSUME NEW u \in window', NEW t \in 1 .. u, Due(t)' PROVE t \in applied \cup window'
  <2>1. Due(t) /\ u \in window /\ window' = window
    BY <1>1, <1>3, <1>6
  <2> QED
    BY <1>6, <2>1 DEF SettlementInv, WindowInOrder
<1>4. WindowInOrder'
  BY <1>6 DEF SettlementInv, WindowInOrder
<1>2. SentByItsPass'
  BY DEF SettlementInv, SentByItsPass, OrderOf, Unsent
<1> QED
  BY <1>2, <1>4, <1>5 DEF SettlementInv

(* The venue trades: an order that works there, or one nobody here placed. *)
LEMMA VenueTrades ==
    ASSUME TypeOK, SettlementInv, NEW x \in Trades, trades' = Append(trades, x),
           open' \subseteq open, x.order \in open \cup {Manual},
           UNCHANGED <<horizon, db, pc, locals>>
    PROVE  SettlementInv'
<1>1. /\ DOMAIN trades' = DOMAIN trades \cup {Len(trades) + 1}
      /\ \A t \in DOMAIN trades : trades'[t] = trades[t]
      /\ trades'[Len(trades) + 1] = x
  BY TradeAdded
<1>2. Len(trades) \in Nat /\ DOMAIN trades = 1 .. Len(trades)
  BY TradeIds
<1>3. UNCHANGED <<row, applied, pc, window, target>>
  BY DEF db, locals
<1>4. /\ applied \subseteq 1 .. Len(trades) /\ window \subseteq 1 .. Len(trades)
      /\ target \in Orders
  BY <1>2 DEF TypeOK
<1>5. \A u \in applied \cup window : \A t \in 1 .. u : OrderOf(t)' = OrderOf(t)
  BY <1>1, <1>2, <1>4 DEF OrderOf
<1>6. StoredInOrder' /\ WindowInOrder'
  BY <1>3, <1>5 DEF SettlementInv, StoredInOrder, WindowInOrder, Due, Linked
<1>7. ASSUME NEW o \in Orders, Unsent(o) PROVE Unsent(o)'
  <2>1. x.order # o
    BY <1>7, LoopAssumption DEF Unsent, LoopAssumption, Orders
  <2> QED
    BY <1>1, <1>7, <2>1 DEF Unsent, OrderOf
<1>8. ASSUME pc = "record", NEW t \in DOMAIN trades', trades'[t].order = target, NEW u \in applied
      PROVE  u < t
  <2>1. CASE t \in DOMAIN trades
    BY <1>1, <1>8, <2>1 DEF SettlementInv, SentByItsPass, OrderOf
  <2>2. CASE t = Len(trades) + 1
    BY <1>2, <1>4, <1>8, <2>2
  <2> QED
    BY <1>1, <2>1, <2>2
<1>9. SentByItsPass'
  BY <1>3, <1>4, <1>7, <1>8 DEF SettlementInv, SentByItsPass, OrderOf
<1> QED
  BY <1>6, <1>9 DEF SettlementInv

(* A pass takes what lies above its cursor from a capture. *)
LEMMA TradesFetched ==
    ASSUME TypeOK, SettlementInv, FetchTrades, ~Truncated
    PROVE  SettlementInv'
<1>1. UNCHANGED <<trades, open, horizon, row, applied, target>> /\ pc' = "settle"
      /\ window' = {t \in DOMAIN trades : t > Cursor /\ t > horizon}
  BY DEF FetchTrades, Recent, Goto, venue, db
<1>2. Len(trades) \in Nat /\ DOMAIN trades = 1 .. Len(trades) /\ applied \subseteq 1 .. Len(trades)
      /\ horizon \in Nat
  BY TradeIds DEF TypeOK
<1>3. Cursor \in Nat /\ \A t \in applied : t <= Cursor
  <2>1. CASE applied = {}
    BY <2>1, CursorIsNewest
  <2>2. CASE applied # {}
    <3>1. Cursor \in applied /\ \A t \in applied : t <= Cursor
      BY <2>2, CursorIsNewest
    <3> QED
      BY <1>2, <3>1
  <2> QED
    BY <2>1, <2>2
<1>4. ASSUME NEW u \in window'
      PROVE  /\ \A t \in applied : t < u
             /\ \A t \in 1 .. u : Due(t) => t \in applied \cup window'
  <2>1. u \in 1 .. Len(trades) /\ u > Cursor
    BY <1>1, <1>2, <1>4
  <2>2. \A t \in applied : t < u
    BY <1>2, <1>3, <2>1
  <2>3. ASSUME NEW t \in 1 .. u, Due(t) PROVE t \in applied \cup window'
    <3>1. t \in DOMAIN trades /\ t > horizon
      BY <1>2, <2>1, <2>3 DEF Due
    <3>2. CASE t > Cursor
      BY <1>1, <3>1, <3>2
    <3>3. CASE ~ (t > Cursor)
      <4>1. Cursor # 0 /\ t \in 1 .. Cursor
        BY <1>3, <3>3
      <4>2. Cursor \in applied
        BY <4>1, CursorIsNewest
      <4> QED
        BY <2>3, <4>1, <4>2 DEF SettlementInv, StoredInOrder
    <3> QED
      BY <3>2, <3>3
  <2> QED
    BY <2>2, <2>3
<1>5. StoredInOrder' /\ WindowInOrder'
  BY <1>1, <1>4 DEF SettlementInv, StoredInOrder, WindowInOrder, Due, OrderOf, Linked
<1>6. SentByItsPass'
  BY <1>1 DEF SettlementInv, SentByItsPass, OrderOf, Unsent
<1> QED
  BY <1>5, <1>6 DEF SettlementInv

(* Settlement stores the oldest trade of its window, or leaves one of no order *)
(* of ours.                                                                    *)
LEMMA TradeSettled ==
    ASSUME TypeOK, SettlementInv, ApplyTrade
    PROVE  SettlementInv'
<1> DEFINE t0 == OldestFirst(window)
<1>1. t0 \in window /\ \A u \in window : t0 <= u
  BY OldestIsFirst DEF ApplyTrade
<1>2. UNCHANGED <<trades, open, horizon, row, target>> /\ pc = "settle"
  BY DEF ApplyTrade, venue
<1>3. Len(trades) \in Nat /\ applied \subseteq 1 .. Len(trades) /\ window \subseteq 1 .. Len(trades)
      /\ horizon \in Nat /\ horizon <= horizon
  BY TradeIds DEF TypeOK
<1> HIDE DEF t0
<1>4. CASE UNCHANGED <<applied, window>> /\ pc' = "down"
  BY <1>2, <1>3, <1>4, LedgerAtRest
<1>5. CASE /\ window' = window \ {t0} /\ pc' = "settle"
           /\ \/ applied' = applied \cup {t0}
              \/ applied' = applied /\ ~Linked(OrderOf(t0))
  <2>1. t0 \in Nat /\ \A u \in window' : t0 < u
    BY <1>1, <1>3, <1>5
  <2>2. StoredInOrder'
    <3> SUFFICES ASSUME NEW u \in applied', NEW t \in 1 .. u, Due(t)
                 PROVE  t \in applied'
      BY <1>2 DEF StoredInOrder, Due, OrderOf, Linked
    <3>1. CASE u \in applied
      BY <1>5, <3>1 DEF SettlementInv, StoredInOrder
    <3>2. CASE u = t0 /\ applied' = applied \cup {t0}
      <4>1. t \in applied \cup window
        BY <1>1, <3>2 DEF SettlementInv, WindowInOrder
      <4>2. ASSUME t \in window PROVE t = t0
        <5>1. t0 <= t /\ t <= t0 /\ t \in Nat
          BY <1>1, <1>3, <2>1, <3>2, <4>2
        <5> QED
          BY <2>1, <5>1
      <4> QED
        BY <3>2, <4>1, <4>2
    <3> QED
      BY <1>5, <3>1, <3>2
  <2>3. WindowInOrder'
    <3>1. ASSUME NEW u \in window'
          PROVE  /\ \A t \in applied' : t < u
                 /\ \A t \in 1 .. u : Due(t) => t \in applied' \cup window'
      <4>1. CASE applied' = applied /\ ~Linked(OrderOf(t0))
        BY <1>5, <2>1, <3>1, <4>1 DEF SettlementInv, WindowInOrder, Due
      <4>2. CASE applied' = applied \cup {t0}
        BY <1>5, <2>1, <3>1, <4>2 DEF SettlementInv, WindowInOrder
      <4> QED
        BY <1>5, <4>1, <4>2
    <3> QED
      BY <1>2, <1>5, <3>1 DEF WindowInOrder, Due, OrderOf, Linked
  <2>4. SentByItsPass'
    BY <1>2, <1>5 DEF SettlementInv, SentByItsPass, OrderOf, Unsent
  <2> QED
    BY <2>2, <2>3, <2>4 DEF SettlementInv
<1> QED
  BY <1>2, <1>4, <1>5 DEF ApplyTrade, Recordable, Skippable, Raise, Goto, OrderOf, t0

(* A new order gets its row before anything of it is sent. *)
LEMMA OrderCreated ==
    ASSUME TypeOK, SettlementInv, NEW o \in Orders, row[o] = "absent", CreateOrder(o),
           window = {}, UNCHANGED <<trades, open, horizon, applied, window>>
    PROVE  SettlementInv'
<1>1. \A p \in Orders : p # o => row'[p] = row[p]
  BY DEF CreateOrder, TypeOK
<1>2. row'[o] = "created" /\ target' = o /\ pc' = "dispatch"
  BY DEF CreateOrder, TypeOK, Goto
<1>3. \A p : Linked(p)' <=> Linked(p)
  BY <1>1, <1>2 DEF Linked
<1>4. StoredInOrder' /\ WindowInOrder'
  BY <1>3 DEF SettlementInv, StoredInOrder, WindowInOrder, Due, OrderOf
<1>5. Unsent(o) /\ \A p \in Orders : Unsent(p)' <=> Unsent(p)
  BY DEF SettlementInv, SentByItsPass, Unsent, OrderOf
<1>6. SentByItsPass'
  BY <1>1, <1>2, <1>5 DEF SettlementInv, SentByItsPass, Unsent, OrderOf
<1> QED
  BY <1>4, <1>6 DEF SettlementInv

(* The order goes to the venue, or does not get there. *)
LEMMA OrderSent ==
    ASSUME TypeOK, SettlementInv, NEW outcome \in Outcomes, NEW reached \in BOOLEAN,
           Send(outcome, reached)
    PROVE  SettlementInv'
<1>1. /\ UNCHANGED <<trades, horizon, row, applied, window, target>> /\ pc = "send" /\ pc' = "record"
      /\ open' \subseteq open \cup {target}
  BY DEF Send, Goto, db
<1>2. row[target] = "created" /\ Unsent(target) /\ target \in Orders
  BY <1>1 DEF SettlementInv, SentByItsPass, TypeOK
<1>3. StoredInOrder' /\ WindowInOrder'
  BY <1>1 DEF SettlementInv, StoredInOrder, WindowInOrder, Due, OrderOf, Linked
<1>4. ASSUME NEW o \in Orders, row[o] = "absent" PROVE Unsent(o)'
  <2>1. o # target
    BY <1>2, <1>4
  <2> QED
    BY <1>1, <1>4, <2>1 DEF SettlementInv, SentByItsPass, Unsent, OrderOf
<1>5. SentByItsPass'
  BY <1>1, <1>2, <1>4 DEF SentByItsPass, Unsent, OrderOf
<1> QED
  BY <1>3, <1>5 DEF SettlementInv

(* The answer is recorded: if that links the order, none of its trades was passed. *)
LEMMA AnswerRecorded ==
    ASSUME TypeOK, SettlementInv, Answered, Record
    PROVE  SettlementInv'
<1>1. /\ UNCHANGED <<trades, open, horizon, applied, window, target>> /\ pc = "record"
      /\ row' = [row EXCEPT ![target] = answer] /\ pc' \in {"settle", "sleep"}
      /\ answer \in Outcomes /\ target \in Orders
  BY DEF Record, Resume, Goto, venue, locals, Answered, TypeOK
<1>2. window = {}
  BY <1>1 DEF SettlementInv, WindowInOrder
<1>3. \A o \in Orders : o # target => row'[o] = row[o]
  BY <1>1 DEF TypeOK
<1>4. Len(trades) \in Nat /\ DOMAIN trades = 1 .. Len(trades) /\ applied \subseteq 1 .. Len(trades)
  BY TradeIds DEF TypeOK
<1>5. StoredInOrder'
  <2> SUFFICES ASSUME NEW u \in applied, NEW t \in 1 .. u, Due(t)'
               PROVE  t \in applied
    BY <1>1 DEF StoredInOrder
  <2>1. t \in DOMAIN trades /\ t <= u /\ t \in Nat /\ u \in Nat
    BY <1>4
  <2>2. OrderOf(t) # target
    <3>1. ASSUME OrderOf(t) = target PROVE FALSE
      <4>1. u < t
        BY <1>1, <2>1, <3>1 DEF SettlementInv, SentByItsPass
      <4> QED
        BY <2>1, <4>1
    <3> QED
      BY <3>1
  <2>3. Due(t)
    BY <1>1, <1>3, <2>2 DEF Due, Linked, OrderOf
  <2> QED
    BY <2>3 DEF SettlementInv, StoredInOrder
<1>6. WindowInOrder'
  BY <1>1, <1>2 DEF WindowInOrder
<1>7. SentByItsPass'
  BY <1>1, <1>3 DEF SettlementInv, SentByItsPass, Unsent, OrderOf, TypeOK, Outcomes
<1> QED
  BY <1>5, <1>6, <1>7 DEF SettlementInv

(* The settlement cursor (live_settlement.py, _cursor) loses no fill of an     *)
(* order of ours that a capture still reports, for any number of trades and    *)
(* deaths and however time passes between and within the passes.  The cursor   *)
(* is safe because trades are stored oldest first and an order gets its link   *)
(* before settlement can pass a trade of it.                                   *)
THEOREM NoRecentTradeLostAlways == Spec => []NoRecentTradeLost
<1>1. Init => SettlementInv
  BY LoopAssumption DEF Init, SettlementInv, StoredInOrder, WindowInOrder, SentByItsPass, Unsent,
     Orders, LoopAssumption
<1>2. TypeOK /\ Answered /\ SettlementInv /\ [Next]_vars => SettlementInv'
  <2> SUFFICES ASSUME TypeOK, Answered, SettlementInv, [Next]_vars PROVE SettlementInv'
    OBVIOUS
  <2>1. ASSUME NEW o \in Orders, NEW asset \in Assets, Fill(o, asset) PROVE SettlementInv'
    <3>1. [order |-> o, buy |-> (o # Stop), asset |-> asset] \in Trades
      BY DEF Trades
    <3> QED
      BY <2>1, <3>1, VenueTrades DEF Fill, Trade
  <2>2. ASSUME NEW buy \in BOOLEAN, TradeByHand(buy) PROVE SettlementInv'
    <3>1. [order |-> Manual, buy |-> buy, asset |-> Settlement] \in Trades
      BY LoopAssumption DEF Trades, LoopAssumption
    <3> QED
      BY <2>2, <3>1, VenueTrades DEF TradeByHand, Trade
  <2>3. CASE \/ \E o \in Orders : Expire(o)
             \/ (\E t \in DOMAIN trades : Age(t)) \/ (FetchTrades /\ Truncated)
             \/ ClearHalt \/ Crash \/ Settled \/ ReadInternal \/ Compare \/ Guard \/ Decline
             \/ Dispatch \/ Restart \/ UNCHANGED vars
    <3>1. /\ UNCHANGED <<trades, row, applied>> /\ open' \subseteq open
          /\ window' = window \/ window' = {}
          /\ pc' \in {"dispatch", "send"} => pc \in {"dispatch", "send"} /\ target' = target
          /\ pc' = "record" => pc = "record" /\ target' = target
      BY <2>3 DEF Expire, Age, FetchTrades, ClearHalt, Crash, Settled, ReadInternal, Compare, Guard, Decline,
         Dispatch, Resume, Restart, Raise, Goto, vars, venue, db, locals
    <3>2. pc' \notin {"settle", "down"} => window' = {}
      BY <2>3 DEF Expire, Age, FetchTrades, ClearHalt, Crash, Settled, ReadInternal, Compare, Guard, Decline,
         Dispatch, Resume, Restart, Raise, Goto, vars, venue, db, locals, SettlementInv,
         WindowInOrder
    <3>3. horizon \in Nat /\ horizon' \in Nat /\ horizon <= horizon'
      <4>1. ASSUME NEW t \in DOMAIN trades, Age(t)
            PROVE  horizon \in Nat /\ horizon' \in Nat /\ horizon <= horizon'
        BY <4>1, TradeIds DEF Age, TypeOK
      <4>2. horizon \in Nat
        BY DEF TypeOK
      <4>3. UNCHANGED horizon \/ \E t \in DOMAIN trades : Age(t)
        BY <2>3 DEF Expire, FetchTrades, ClearHalt, Crash, Settled, ReadInternal, Compare,
           Guard, Decline, Dispatch, Restart, vars, venue
      <4> QED
        BY <4>1, <4>2, <4>3
    <3> QED
      BY <3>1, <3>2, <3>3, LedgerAtRest
  <2>4. CASE FetchTrades /\ ~Truncated
    BY <2>4, TradesFetched
  <2>5. CASE ApplyTrade
    BY <2>5, TradeSettled
  <2>6. CASE Protect
    <3>1. UNCHANGED <<trades, open, horizon, applied, window>> /\ window = {} /\ pc = "settle"
          /\ horizon \in Nat /\ horizon <= horizon
      BY <2>6 DEF Protect, venue, TypeOK
    <3>2. Stop \in Orders
      BY DEF Orders
    <3>3. CASE row[Stop] = "absent" /\ CreateOrder(Stop)
      BY <3>1, <3>2, <3>3, OrderCreated
    <3>4. CASE pc' = "down" /\ UNCHANGED <<row, target>>
      BY <3>1, <3>4, LedgerAtRest
    <3> QED
      BY <2>6, <3>3, <3>4 DEF Protect, IntentIsNew, Raise, Goto
  <2>7. ASSUME NEW e \in Entries, Submit(e) PROVE SettlementInv'
    <3>1. UNCHANGED <<trades, open, horizon, applied, window>> /\ window = {}
      BY <2>7 DEF Submit, venue, SettlementInv, WindowInOrder
    <3>2. e \in Orders
      BY DEF Orders
    <3> QED
      BY <2>7, <3>1, <3>2, OrderCreated DEF Submit, IntentIsNew
  <2>8. ASSUME NEW outcome \in Outcomes, NEW reached \in BOOLEAN, Send(outcome, reached)
        PROVE  SettlementInv'
    BY <2>8, OrderSent
  <2>9. CASE Record
    BY <2>9, AnswerRecorded
  <2> QED
    BY <2>1, <2>2, <2>3, <2>4, <2>5, <2>6, <2>7, <2>8, <2>9 DEF Next, Process, Environment
<1>3. TypeOK /\ SettlementInv => NoRecentTradeLost
  <2> SUFFICES ASSUME TypeOK, SettlementInv, NEW t \in 1 .. Cursor, Linked(trades[t].order),
                      ~ (t <= horizon)
               PROVE  t \in applied
    BY DEF NoRecentTradeLost
  <2>1. applied # {}
    <3>1. Cursor # 0
      OBVIOUS
    <3> QED
      BY <3>1, CursorIsNewest
  <2>2. Cursor \in applied /\ Cursor \in Nat
    BY <2>1, CursorIsNewest, TradeIds DEF TypeOK
  <2>3. Due(t)
    BY <2>2 DEF Due, OrderOf, TypeOK
  <2> QED
    BY <2>2, <2>3 DEF SettlementInv, StoredInOrder
<1> QED
  BY <1>1, <1>2, <1>3, TypedAlways, PTL DEF Spec

-----------------------------------------------------------------------------
(* Whether the position is protected is a matter of what is stored and of the  *)
(* stop's row: what the venue does meanwhile does not change it.               *)
LEMMA ProtectionStays ==
    ASSUME TypeOK, UNCHANGED applied, row'[Stop] = row[Stop],
           \/ UNCHANGED trades
           \/ \E x \in Trades : trades' = Append(trades, x)
    PROVE  Unprotected' <=> Unprotected
<1>1. \A t \in applied : trades'[t] = trades[t]
  <2>1. applied \subseteq DOMAIN trades
    BY DEF TypeOK
  <2> QED
    BY <2>1, TradeAdded
<1>2. Position' = Position
  <2>1. {t \in applied : trades'[t].buy} = {t \in applied : trades[t].buy}
    BY <1>1
  <2>2. {t \in applied : ~trades'[t].buy} = {t \in applied : ~trades[t].buy}
    BY <1>1
  <2> QED
    BY <2>1, <2>2 DEF Position, Net
<1>3. Filled(Stop)' = Filled(Stop)
  <2>1. {t \in applied : trades'[t].order = Stop} = {t \in applied : trades[t].order = Stop}
    BY <1>1
  <2> QED
    BY <2>1 DEF Filled, Of
<1>4. StopWorking' <=> StopWorking
  BY <1>3 DEF StopWorking, Linked, Quantity
<1> QED
  BY <1>2, <1>4 DEF Unprotected

(* An entry is sent (run_pass's order of checks, up to dispatch's broker call) *)
(* only while the ledger holds nothing unprotected, whatever the venue, an     *)
(* operator or a person did since the check: between the two the process       *)
(* stores no fill and touches no row but the entry's.                          *)
THEOREM NoEntryWhileUnprotectedAlways == Spec => []NoEntryWhileUnprotected
<1>1. Init => GuardedUntilSent
  BY DEF Init, GuardedUntilSent
<1>2. TypeOK /\ GuardedUntilSent /\ [Next]_vars => GuardedUntilSent'
  <2> SUFFICES ASSUME TypeOK, GuardedUntilSent, [Next]_vars PROVE GuardedUntilSent'
    OBVIOUS
  <2>1. ASSUME UNCHANGED <<db, pc, locals>>,
               UNCHANGED trades \/ \E x \in Trades : trades' = Append(trades, x)
        PROVE  GuardedUntilSent'
    <3>1. Unprotected' <=> Unprotected
      BY <2>1, ProtectionStays DEF db
    <3> QED
      BY <2>1, <3>1 DEF GuardedUntilSent, locals
  <2>2. ASSUME NEW o \in Orders, NEW asset \in Assets, Fill(o, asset) PROVE GuardedUntilSent'
    <3>1. [order |-> o, buy |-> (o # Stop), asset |-> asset] \in Trades
      BY DEF Trades
    <3> QED
      BY <2>1, <2>2, <3>1 DEF Fill, Trade
  <2>3. ASSUME NEW buy \in BOOLEAN, TradeByHand(buy) PROVE GuardedUntilSent'
    <3>1. [order |-> Manual, buy |-> buy, asset |-> Settlement] \in Trades
      BY LoopAssumption DEF Trades, LoopAssumption
    <3> QED
      BY <2>1, <2>3, <3>1 DEF TradeByHand, Trade
  <2>4. ASSUME NEW o \in Orders, Expire(o) PROVE GuardedUntilSent'
    BY <2>1, <2>4 DEF Expire
  <2>13. ASSUME NEW t \in DOMAIN trades, Age(t) PROVE GuardedUntilSent'
    BY <2>1, <2>13 DEF Age
  <2>5. CASE ClearHalt
    <3>1. UNCHANGED <<trades, row, applied, pc, target>>
      BY <2>5 DEF ClearHalt, venue, locals
    <3>2. Unprotected' <=> Unprotected
      BY <3>1, ProtectionStays
    <3> QED
      BY <3>1, <3>2 DEF GuardedUntilSent
  <2>6. CASE Guard
    <3>1. UNCHANGED <<trades, row, applied>> /\ (pc' = "tick" => ~Unprotected)
          /\ pc' \in {"sleep", "tick"}
      BY <2>6 DEF Guard, Goto, Missing, venue
    <3>2. Unprotected' <=> Unprotected
      BY <3>1, ProtectionStays
    <3> QED
      BY <3>1, <3>2 DEF GuardedUntilSent
  <2>7. ASSUME NEW e \in Entries, Submit(e) PROVE GuardedUntilSent'
    <3>1. /\ UNCHANGED <<trades, applied>> /\ pc = "tick" /\ pc' = "dispatch"
          /\ row' = [row EXCEPT ![e] = "created"]
      BY <2>7 DEF Submit, CreateOrder, Goto, venue
    <3>2. row'[Stop] = row[Stop]
      BY <3>1, LoopAssumption DEF TypeOK, Orders, LoopAssumption
    <3>3. Unprotected' <=> Unprotected
      BY <3>1, <3>2, ProtectionStays
    <3> QED
      BY <3>1, <3>3 DEF GuardedUntilSent
  <2>8. CASE Protect
    BY <2>8 DEF Protect, CreateOrder, Raise, Goto, GuardedUntilSent
  <2>9. CASE Dispatch
    <3>1. /\ UNCHANGED <<trades, row, applied, target>> /\ pc = "dispatch"
          /\ pc' \in {"send", "settle", "sleep"} /\ (pc' = "send" => GateAllows(target))
      BY <2>9 DEF Dispatch, Goto, Resume, venue, db, locals
    <3>2. Unprotected' <=> Unprotected
      BY <3>1, ProtectionStays
    <3>3. pc' = "send" => target \in Entries /\ target # Stop
      BY <3>1, LoopAssumption DEF GateAllows, LoopAssumption
    <3> QED
      BY <3>1, <3>2, <3>3 DEF GuardedUntilSent
  <2>10. ASSUME \/ FetchTrades \/ ApplyTrade \/ Settled \/ ReadInternal \/ Compare \/ Decline
                \/ (\E outcome \in Outcomes, reached \in BOOLEAN : Send(outcome, reached))
                \/ Record \/ Restart \/ Crash
         PROVE  pc' \notin {"tick", "dispatch", "send"}
    BY <2>10 DEF FetchTrades, ApplyTrade, Settled, ReadInternal, Compare, Decline, Send, Record,
       Resume, Restart, Crash, Raise, Goto
  <2>11. ASSUME pc' \notin {"tick", "dispatch", "send"} PROVE GuardedUntilSent'
    BY <2>11 DEF GuardedUntilSent
  <2>12. CASE UNCHANGED vars
    BY <2>1, <2>12 DEF vars, venue
  <2> QED
    BY <2>2, <2>3, <2>4, <2>5, <2>6, <2>7, <2>8, <2>9, <2>10, <2>11, <2>12, <2>13
       DEF Next, Process, Environment
<1>3. GuardedUntilSent => NoEntryWhileUnprotected
  BY DEF GuardedUntilSent, NoEntryWhileUnprotected
<1> QED
  BY <1>1, <1>2, <1>3, TypeCorrect, PTL DEF Spec

-----------------------------------------------------------------------------
(* Extremes of the sets of ids the tape works with. *)
LEMMA ExtremesOfIds ==
    ASSUME NEW a \in Int, NEW b \in Int
    PROVE  /\ a <= b => Max(a .. b) = b /\ Min(a .. b) = a
           /\ Max({a, b}) = IF a <= b THEN b ELSE a
           /\ Min({a, b}) = IF a <= b THEN a ELSE b
<1>1. ASSUME a <= b PROVE Max(a .. b) = b
  <2>1. b \in a .. b /\ \A y \in a .. b : b >= y
    BY <1>1
  <2> QED
    BY <2>1 DEF Max
<1>2. ASSUME a <= b PROVE Min(a .. b) = a
  <2>1. a \in a .. b /\ \A y \in a .. b : a <= y
    BY <1>2
  <2> QED
    BY <2>1 DEF Min
<1>3. Max({a, b}) = IF a <= b THEN b ELSE a
  BY DEF Max
<1>4. Min({a, b}) = IF a <= b THEN a ELSE b
  BY DEF Min
<1> QED
  BY <1>1, <1>2, <1>3, <1>4

(* What an instance is storing follows what it knows, and what it has seen     *)
(* stored is stored.                                                           *)
PageInOrder(p, k, ids) ==
    /\ p = [rows |-> p.rows, skip |-> p.skip, asked |-> p.asked]
    /\ p.skip \subseteq ids
    /\ p.rows = {} => ~ p.asked
    /\ p.rows # {} => k # Unread /\ \E m \in Nat : m > k /\ p.rows = k + 1 .. m

(* The tape is stored from its first trade to the checkpoint, and no instance  *)
(* knows of more.                                                              *)
TapeInv ==
    /\ checkpoint \in Nat \ {0} /\ head \in Nat
    /\ stored = 1 .. checkpoint
    /\ known = [w \in Writers |-> known[w]] /\ page = [w \in Writers |-> page[w]]
    /\ \A w \in Writers :
          /\ known[w] = Unread \/ known[w] \in 1 .. checkpoint
          /\ PageInOrder(page[w], known[w], stored)

(* One instance steps, and the tape only grows. *)
LEMMA WriterSteps ==
    ASSUME TapeInv, NEW w \in Writers, NEW k, NEW p,
           head' = head, checkpoint' \in Nat, checkpoint' >= checkpoint,
           stored' = 1 .. checkpoint',
           known' = [known EXCEPT ![w] = k], page' = [page EXCEPT ![w] = p],
           k = Unread \/ k \in 1 .. checkpoint', PageInOrder(p, k, stored')
    PROVE  TapeInv'
<1>1. checkpoint \in Nat \ {0} /\ stored = 1 .. checkpoint
  BY DEF TapeInv
<1>2. checkpoint' # 0 /\ stored \subseteq stored'
  BY <1>1
<1>3. /\ known' = [v \in Writers |-> IF v = w THEN k ELSE known[v]]
      /\ page' = [v \in Writers |-> IF v = w THEN p ELSE page[v]]
  BY DEF TapeInv
<1>4. ASSUME NEW v \in Writers, v # w
      PROVE  /\ known[v] = Unread \/ known[v] \in 1 .. checkpoint'
             /\ PageInOrder(page[v], known[v], stored')
  BY <1>1, <1>2, <1>4 DEF TapeInv, PageInOrder
<1>5. ASSUME NEW v \in Writers
      PROVE  /\ known'[v] = Unread \/ known'[v] \in 1 .. checkpoint'
             /\ PageInOrder(page'[v], known'[v], stored')
  BY <1>3, <1>4
<1>6. /\ known' = [v \in Writers |-> known'[v]] /\ page' = [v \in Writers |-> page'[v]]
  BY <1>3
<1> QED
  BY <1>2, <1>5, <1>6 DEF TapeInv

(* A page is what follows the id the instance resumes from. *)
LEMMA IngestStep ==
    ASSUME TapeInv, NEW w \in Writers, Poll(w) \/ Frame(w, head)
    PROVE  TapeInv'
<1>1. /\ checkpoint \in Nat \ {0} /\ head \in Nat /\ stored = 1 .. checkpoint
      /\ PageLimit \in Nat \ {0}
  BY TapeAssumption DEF TapeInv, TapeAssumption
<1>2. PICK last \in 1 .. checkpoint : last = ResumesFrom(w) /\ last # Unread
  BY <1>1 DEF TapeInv, ResumesFrom, Unread
<1>3. PICK rows : Ingest(w, rows) /\ (rows = {} \/ \E m \in Nat : m > last /\ rows = last + 1 .. m)
  <2>1. CASE Poll(w)
    <3>1. PICK m \in Int : m = Min({last + PageLimit, head})
      <4>1. PICK b \in Int : b = last + PageLimit
        BY <1>1
      <4>2. PICK h \in Int : h = head
        BY <1>1
      <4>3. Min({b, h}) = IF b <= h THEN b ELSE h
        BY <4>1, <4>2, ExtremesOfIds
      <4> QED
        BY <4>1, <4>2, <4>3
    <3>2. RowsAfter(last) = last + 1 .. m
      BY <1>2, <3>1 DEF RowsAfter
    <3>3. last + 1 .. m = {} \/ (m > last /\ m \in Nat)
      BY <1>2, <3>1
    <3> QED
      BY <1>2, <2>1, <3>2, <3>3 DEF Poll
  <2>2. CASE Frame(w, head)
    <3>1. Recovered(last, head) = last + 1 .. head - 1 /\ head > last
      BY <1>2, <2>2 DEF Recovered, Frame
    <3>2. Recovered(last, head) \cup {head} = last + 1 .. head
      BY <1>1, <1>2, <3>1
    <3> QED
      BY <1>1, <1>2, <2>2, <3>1, <3>2 DEF Frame
  <2> QED
    BY <2>1, <2>2
<1>4. PICK p : p = [NoPage EXCEPT !.rows = rows]
  OBVIOUS
<1>5. p = [rows |-> p.rows, skip |-> p.skip, asked |-> p.asked]
  BY <1>4 DEF NoPage
<1>6. /\ known' = [known EXCEPT ![w] = last] /\ page' = [page EXCEPT ![w] = p]
      /\ head' = head /\ checkpoint' = checkpoint /\ stored' = stored
  BY <1>2, <1>3, <1>4 DEF Ingest
<1>7. p.rows = rows /\ p.skip = {} /\ p.asked = FALSE
  BY <1>4 DEF NoPage
<1>8. PageInOrder(p, last, stored')
  BY <1>2, <1>3, <1>5, <1>7 DEF PageInOrder
<1>9. checkpoint' >= checkpoint /\ checkpoint' \in Nat /\ stored' = 1 .. checkpoint'
      /\ last \in 1 .. checkpoint'
  BY <1>1, <1>6
<1> QED
  BY <1>6, <1>8, <1>9, WriterSteps

(* What the instance finds stored already it will not insert. *)
LEMMA SelectStep ==
    ASSUME TapeInv, NEW w \in Writers, Select(w)
    PROVE  TapeInv'
<1>1. PICK k, old : k = known[w] /\ old = page[w]
  OBVIOUS
<1>2. PICK p : p = [old EXCEPT !.skip = old.rows \cap stored, !.asked = TRUE]
  OBVIOUS
<1>3. /\ PageInOrder(old, k, stored) /\ old.rows # {}
      /\ (k = Unread \/ k \in 1 .. checkpoint)
  BY <1>1 DEF TapeInv, Select
<1>4. /\ p = [rows |-> p.rows, skip |-> p.skip, asked |-> p.asked]
      /\ p.rows = old.rows /\ p.skip = old.rows \cap stored
  BY <1>2, <1>3 DEF PageInOrder
<1>5. PageInOrder(p, k, stored)
  BY <1>3, <1>4 DEF PageInOrder
<1>6. /\ known' = [known EXCEPT ![w] = k] /\ page' = [page EXCEPT ![w] = p]
      /\ head' = head /\ checkpoint' = checkpoint /\ stored' = stored
  BY <1>1, <1>2 DEF Select, TapeInv
<1>7. checkpoint' >= checkpoint /\ checkpoint' \in Nat /\ stored' = 1 .. checkpoint'
  BY <1>6 DEF TapeInv
<1> QED
  BY <1>3, <1>5, <1>6, <1>7, WriterSteps

(* What is inserted reaches from what was stored to the new checkpoint: the    *)
(* page began at an id that was stored, and what it left out was stored too.   *)
LEMMA CommitStep ==
    ASSUME TapeInv, NEW w \in Writers, Commit(w)
    PROVE  TapeInv'
<1>1. PICK k, old : k = known[w] /\ old = page[w]
  OBVIOUS
<1>2. /\ checkpoint \in Nat \ {0} /\ stored = 1 .. checkpoint
      /\ PageInOrder(old, k, stored) /\ old.rows # {}
      /\ (k = Unread \/ k \in 1 .. checkpoint)
  BY <1>1 DEF TapeInv, Commit, PageInOrder
<1>3. PICK m \in Nat : m > k /\ old.rows = k + 1 .. m /\ k \in 1 .. checkpoint
  BY <1>2 DEF PageInOrder
<1>4. Max(old.rows) = m
  <2>1. PICK a \in Int : a = k + 1 /\ a <= m
    BY <1>3
  <2>2. m \in Int
    BY <1>3
  <2>3. Max(a .. m) = m
    BY <2>1, <2>2, ExtremesOfIds
  <2> QED
    BY <1>3, <2>1, <2>3
<1>5. PICK c \in Nat : c = Max({checkpoint, m}) /\ c = IF checkpoint <= m THEN m ELSE checkpoint
  BY <1>2, ExtremesOfIds
<1>6. stored \cup (old.rows \ old.skip) = 1 .. c
  <2>1. stored \cup (old.rows \ old.skip) = stored \cup old.rows
    BY <1>2 DEF PageInOrder
  <2>2. (1 .. checkpoint) \cup (k + 1 .. m) = 1 .. c
    BY <1>2, <1>3, <1>5
  <2> QED
    BY <1>2, <1>3, <2>1, <2>2
<1>7. /\ stored' = 1 .. c /\ checkpoint' = c /\ head' = head
      /\ known' = [known EXCEPT ![w] = m] /\ page' = [page EXCEPT ![w] = NoPage]
  BY <1>1, <1>4, <1>5, <1>6 DEF Commit, Inserted, NotStored
<1>8. PageInOrder(NoPage, m, stored')
  BY DEF PageInOrder, NoPage
<1>9. checkpoint' \in Nat /\ checkpoint' >= checkpoint /\ m \in 1 .. checkpoint'
  BY <1>2, <1>3, <1>5, <1>7
<1> QED
  BY <1>7, <1>8, <1>9, WriterSteps

(* An instance that is started again knows nothing and stores nothing. *)
LEMMA ForgetStep ==
    ASSUME TapeInv, NEW w, Forgets(w)
    PROVE  TapeInv'
<1>1. PageInOrder(NoPage, Unread, stored')
  BY DEF PageInOrder, NoPage
<1>2. /\ known' = [known EXCEPT ![w] = Unread] /\ page' = [page EXCEPT ![w] = NoPage]
      /\ head' = head /\ checkpoint' = checkpoint /\ stored' = stored
  BY DEF Forgets
<1>3. checkpoint' >= checkpoint /\ checkpoint' \in Nat /\ stored' = 1 .. checkpoint'
  BY <1>2 DEF TapeInv
<1>4. CASE w \in Writers
  BY <1>1, <1>2, <1>3, <1>4, WriterSteps
<1>5. CASE w \notin Writers
  BY <1>2, <1>5 DEF TapeInv
<1> QED
  BY <1>4, <1>5

(* Every step of an evaluation leaves the tape alone, reads it, writes a page   *)
(* or starts over.                                                             *)
LEMMA TapeKept ==
    ASSUME TapeInv, [StrategyNext]_strategyVars
    PROVE  TapeInv'
<1>1. CASE \E w \in Writers : Poll(w) \/ Frame(w, head)
  BY <1>1, IngestStep
<1>2. CASE \E w \in Writers : Select(w)
  BY <1>2, SelectStep
<1>3. CASE \E w \in Writers : Commit(w)
  BY <1>3, CommitStep
<1>4. CASE \E w : Forgets(w)
  BY <1>4, ForgetStep
<1>5. CASE \E id \in Heads : TapeGrows(id)
  <2>1. PICK id \in Heads : VenuePrints(id)
    BY <1>5 DEF TapeGrows
  <2>2. /\ head' = id /\ id \in Nat
        /\ UNCHANGED <<stored, checkpoint, known, page>>
    BY <2>1, StrategyAssumption DEF VenuePrints, StrategyAssumption
  <2> QED
    BY <2>2 DEF TapeInv
<1>6. CASE UNCHANGED tapeVars
  <2>1. UNCHANGED <<head, stored, checkpoint, known, page>>
    BY <1>6 DEF tapeVars
  <2> QED
    BY <2>1 DEF TapeInv
<1>7. CASE \E w \in Writers : Storing(w)
  BY <1>1, <1>2, <1>3, <1>7 DEF Storing
<1>8. CASE \E w \in Writers : OtherDies(w)
  BY <1>4, <1>8 DEF OtherDies
<1>9. CASE Invalid \/ ProcessDies \/ FeedEnds
  BY <1>4, <1>9 DEF Invalid, ProcessDies, FeedEnds, StartsAgain
<1>10. CASE \E shape \in Shapes : BarCloses(shape)
  BY <1>6, <1>10 DEF BarCloses
<1>11. CASE \E s \in {Len(bars) - 1, Len(bars)}, t \in Targets : ContextFor(s, t)
  BY <1>6, <1>11 DEF ContextFor
<1>12. CASE NotArmed \/ Managed \/ Assemble \/ Evaluate \/ SubmitOrder \/ Refused
  BY <1>6, <1>12 DEF NotArmed, Managed, Assemble, Evaluate, SubmitOrder, Refused
<1>13. CASE UNCHANGED strategyVars
  BY <1>6, <1>13 DEF strategyVars
<1> QED
  BY <1>5, <1>7, <1>8, <1>9, <1>10, <1>11, <1>12, <1>13 DEF StrategyNext

(* A tape that had been read once is stored from its oldest trade to the       *)
(* checkpoint without a hole, for any number of instances, whichever of them   *)
(* wrote it and whenever one of them dies (_ingest_page, persist).             *)
THEOREM NoHolesAlways ==
    ASSUME \A start \in Starts : start.read > 0
    PROVE  StrategySpec => []NoHoles
<1>1. StrategyInit => TapeInv
  <2> SUFFICES ASSUME StrategyInit PROVE TapeInv
    OBVIOUS
  <2>1. PICK start \in Starts :
           head = start.head /\ stored = 1 .. start.read /\ checkpoint = start.read
    BY DEF StrategyInit
  <2>2. start.read \in Nat \ {0} /\ start.head \in Nat
    BY StrategyAssumption DEF StrategyAssumption
  <2>3. /\ known = [w \in Writers |-> known[w]] /\ page = [w \in Writers |-> page[w]]
        /\ \A w \in Writers : known[w] = Unread /\ page[w] = NoPage
    BY DEF StrategyInit
  <2>4. \A k, ids : PageInOrder(NoPage, k, ids)
    BY DEF PageInOrder, NoPage
  <2> QED
    BY <2>1, <2>2, <2>3, <2>4 DEF TapeInv
<1>2. TapeInv => NoHoles
  <2> SUFFICES ASSUME TapeInv PROVE NoHoles
    OBVIOUS
  <2>1. PICK c \in Nat \ {0} : c = checkpoint /\ stored = 1 .. c
    BY DEF TapeInv
  <2>2. PICK a \in Int : a = 1 /\ a <= c
    BY <2>1
  <2>3. c \in Int
    BY <2>1
  <2>4. Min(a .. c) = a
    BY <2>2, <2>3, ExtremesOfIds
  <2> QED
    BY <2>1, <2>2, <2>4 DEF NoHoles
<1> QED
  BY <1>1, <1>2, TapeKept, PTL DEF StrategySpec

Grades == {"REJECT", "A", "A_CANDIDATE", "NORMAL"}
Decisions == [life : Nat, bar : Nat, grade : Grades]

(* Of each bar of a life there is one decision, none of a life or a bar that    *)
(* has not come, and none of the bar that is still being evaluated.             *)
DecidedOnce ==
    /\ \A i \in DOMAIN journal :
          /\ journal[i].life <= life
          /\ journal[i].life = life => journal[i].bar <= watermark
          /\ journal[i].life = life /\ stage \in {"tick", "evaluate"} => journal[i].bar # watermark
    /\ OneDecisionPerBar

(* A decision is on record, tradeable, from the moment it is to be sent. *)
Recorded(l, bar) ==
    \E i \in DOMAIN journal :
        journal[i].life = l /\ journal[i].bar = bar /\ journal[i].grade # "REJECT"
SendsWhatIsRecorded ==
    /\ stage = "send" => Recorded(life, ctx.seen)
    /\ \A o \in orders : \E l, bar : o = <<l, bar>> /\ Recorded(l, bar)

(* The inductive invariant of the evaluations. *)
EvaluationInv ==
    /\ bars \in Seq(Bars) /\ life \in Nat /\ watermark \in 0 .. Len(bars)
    /\ journal \in Seq(Decisions)
    /\ stage \in {"idle", "tick", "evaluate", "send"}
    /\ stage # "idle" => ctx.seen = watermark /\ watermark > 0
    /\ DecidedOnce /\ SendsWhatIsRecorded

(* A pass ends or goes on without deciding anything. *)
LEMMA PassMoves ==
    ASSUME EvaluationInv, UNCHANGED <<bars, life, watermark, journal, orders>>,
           \/ stage' = "idle"
           \/ stage = "tick" /\ stage' = "evaluate" /\ ctx' = ctx
           \/ stage' = stage /\ ctx' = ctx
    PROVE  EvaluationInv'
<1>1. /\ bars' \in Seq(Bars) /\ life' \in Nat /\ watermark' \in Nat
      /\ journal' \in Seq(Decisions)
      /\ stage' \in {"idle", "tick", "evaluate", "send"}
      /\ stage' # "idle" => ctx'.seen = watermark' /\ watermark' > 0
  BY DEF EvaluationInv
<1>2. DecidedOnce'
  BY DEF EvaluationInv, DecidedOnce, OneDecisionPerBar
<1>3. SendsWhatIsRecorded'
  BY DEF EvaluationInv, SendsWhatIsRecorded, Recorded
<1> QED
  BY <1>1, <1>2, <1>3 DEF EvaluationInv

(* A new bar is above all this life has evaluated. *)
LEMMA ContextStep ==
    ASSUME EvaluationInv, NEW s \in {Len(bars) - 1, Len(bars)}, NEW t, ContextFor(s, t)
    PROVE  EvaluationInv'
<1>1. /\ s \in Nat /\ s > watermark /\ watermark \in Nat
  <2>1. Len(bars) \in Nat
    BY LenProperties DEF EvaluationInv
  <2> QED
    BY <2>1 DEF ContextFor, NewBar, EvaluationInv
<1>2. /\ watermark' = s /\ ctx'.seen = s /\ stage' = "tick"
      /\ UNCHANGED <<bars, life, journal, orders>>
  BY DEF ContextFor, market
<1>3. \A i \in DOMAIN journal : journal[i].bar \in Nat
  <2> SUFFICES ASSUME NEW i \in DOMAIN journal PROVE journal[i].bar \in Nat
    OBVIOUS
  <2>1. journal[i] \in Decisions
    BY ElementOfSeq DEF EvaluationInv
  <2> QED
    BY <2>1 DEF Decisions
<1>4. DecidedOnce'
  BY <1>1, <1>2, <1>3 DEF EvaluationInv, DecidedOnce, OneDecisionPerBar
<1>5. SendsWhatIsRecorded'
  BY <1>2 DEF EvaluationInv, SendsWhatIsRecorded, Recorded
<1> QED
  BY <1>1, <1>2, <1>4, <1>5 DEF EvaluationInv

(* A decision is recorded before the pass ends or the order is sent. *)
LEMMA EvaluateStep ==
    ASSUME EvaluationInv, Evaluate
    PROVE  EvaluationInv'
<1>1. PICK d : d = [life |-> life, bar |-> ctx.seen, grade |-> Grade(ctx)]
  OBVIOUS
<1>2. d \in Decisions /\ d.life = life /\ d.bar = watermark /\ d.grade = Grade(ctx)
  <2>1. Grade(ctx) \in Grades
    BY DEF Grade, Grades
  <2>2. ctx.seen = watermark /\ watermark \in Nat /\ life \in Nat
    BY DEF Evaluate, EvaluationInv
  <2> QED
    BY <1>1, <2>1, <2>2 DEF Decisions
<1>3. /\ stage = "evaluate" /\ journal' = Append(journal, d)
      /\ \/ stage' = "idle"
         \/ stage' = "send" /\ ctx' = ctx /\ d.grade # "REJECT"
      /\ UNCHANGED <<bars, life, watermark, orders>>
  <2>1. journal' = Append(journal, d)
    BY <1>1 DEF Evaluate, RecordDecision, PersistDecision, DecisionOf
  <2>2. \/ stage' = "idle"
        \/ stage' = "send" /\ ctx' = ctx /\ d.grade # "REJECT"
    BY <1>2 DEF Evaluate, Finish
  <2> QED
    BY <2>1, <2>2 DEF Evaluate, market
<1>4. journal \in Seq(Decisions)
  BY DEF EvaluationInv
<1>5. PICK n \in Nat : n = Len(journal) /\ DOMAIN journal = 1 .. n
  BY <1>4, LenProperties
<1>6. /\ journal' \in Seq(Decisions) /\ DOMAIN journal' = 1 .. n + 1
      /\ \A i \in 1 .. n : journal'[i] = journal[i]
      /\ journal'[n + 1] = d
  BY <1>2, <1>3, <1>4, <1>5, AppendProperties
<1>7. DecidedOnce'
  <2>1. \A i \in 1 .. n :
           /\ journal[i].life <= life
           /\ journal[i].life = life => journal[i].bar <= watermark
           /\ journal[i].life = life => journal[i].bar # watermark
    BY <1>3, <1>5 DEF EvaluationInv, DecidedOnce
  <2>2. \A i \in 1 .. n + 1 :
           /\ journal'[i].life <= life'
           /\ journal'[i].life = life' => journal'[i].bar <= watermark'
    <3>1. life \in Nat /\ watermark \in Nat
      BY DEF EvaluationInv
    <3>2. \A i \in 1 .. n + 1 : i \in 1 .. n \/ i = n + 1
      OBVIOUS
    <3> QED
      BY <1>2, <1>3, <1>6, <2>1, <3>1, <3>2
  <2>3. OneDecisionPerBar'
    <3> SUFFICES ASSUME NEW i \in 1 .. n + 1, NEW j \in 1 .. n + 1, i # j,
                        journal'[i].life = journal'[j].life
                 PROVE  journal'[i].bar # journal'[j].bar
      BY <1>6 DEF OneDecisionPerBar
    <3>1. CASE i \in 1 .. n /\ j \in 1 .. n
      BY <1>5, <1>6, <3>1 DEF EvaluationInv, DecidedOnce, OneDecisionPerBar
    <3>2. CASE i = n + 1 /\ j \in 1 .. n
      BY <1>2, <1>6, <2>1, <3>2
    <3>3. CASE j = n + 1 /\ i \in 1 .. n
      BY <1>2, <1>6, <2>1, <3>3
    <3> QED
      BY <3>1, <3>2, <3>3
  <2> QED
    BY <1>3, <1>6, <2>2, <2>3 DEF DecidedOnce
<1>8. \A l, bar : Recorded(l, bar) => Recorded(l, bar)'
  BY <1>5, <1>6 DEF Recorded
<1>9. stage' = "send" => Recorded(life, ctx.seen)'
  <2>1. n + 1 \in DOMAIN journal'
    BY <1>6
  <2>2. stage # "idle" => ctx.seen = watermark
    BY DEF EvaluationInv
  <2> QED
    BY <1>2, <1>3, <1>6, <2>1, <2>2 DEF Recorded
<1>10. SendsWhatIsRecorded'
  BY <1>3, <1>8, <1>9 DEF EvaluationInv, SendsWhatIsRecorded
<1>11. stage' # "idle" => ctx'.seen = watermark' /\ watermark' > 0
  BY <1>3 DEF EvaluationInv
<1> QED
  BY <1>3, <1>6, <1>7, <1>10, <1>11 DEF EvaluationInv

(* What is sent is the decision that was recorded. *)
LEMMA SubmitStep ==
    ASSUME EvaluationInv, SubmitOrder
    PROVE  EvaluationInv'
<1>1. /\ stage = "send" /\ stage' = "idle" /\ orders' = orders \cup {<<life, ctx.seen>>}
      /\ UNCHANGED <<bars, life, watermark, journal>>
  BY DEF SubmitOrder, Finish, market
<1>2. DecidedOnce'
  BY <1>1 DEF EvaluationInv, DecidedOnce, OneDecisionPerBar
<1>3. \A l, bar : Recorded(l, bar)' <=> Recorded(l, bar)
  BY <1>1 DEF Recorded
<1>4. Recorded(life, ctx.seen)
  BY <1>1 DEF EvaluationInv, SendsWhatIsRecorded
<1>5. SendsWhatIsRecorded'
  <2> SUFFICES ASSUME NEW o \in orders'
               PROVE  \E l, bar : o = <<l, bar>> /\ Recorded(l, bar)'
    BY <1>1 DEF SendsWhatIsRecorded
  <2>1. CASE o \in orders
    BY <1>3, <2>1 DEF EvaluationInv, SendsWhatIsRecorded
  <2>2. CASE o = <<life, ctx.seen>>
    BY <1>3, <1>4, <2>2
  <2> QED
    BY <1>1, <2>1, <2>2
<1> QED
  BY <1>1, <1>2, <1>5 DEF EvaluationInv

(* A new life has decided nothing. *)
LEMMA NewLifeStep ==
    ASSUME EvaluationInv, StartsAgain
    PROVE  EvaluationInv'
<1>1. /\ life' = life + 1 /\ watermark' = 0 /\ stage' = "idle" /\ life \in Nat
      /\ UNCHANGED <<bars, journal, orders>>
  BY DEF StartsAgain, market, EvaluationInv
<1>2. \A i \in DOMAIN journal : journal[i].life \in Nat
  <2> SUFFICES ASSUME NEW i \in DOMAIN journal PROVE journal[i].life \in Nat
    OBVIOUS
  <2>1. journal[i] \in Decisions
    BY ElementOfSeq DEF EvaluationInv
  <2> QED
    BY <2>1 DEF Decisions
<1>3. \A i \in DOMAIN journal : journal[i].life <= life' /\ journal[i].life # life'
  BY <1>1, <1>2 DEF EvaluationInv, DecidedOnce
<1>4. DecidedOnce'
  BY <1>1, <1>3 DEF EvaluationInv, DecidedOnce, OneDecisionPerBar
<1>5. SendsWhatIsRecorded'
  BY <1>1 DEF EvaluationInv, SendsWhatIsRecorded, Recorded
<1> QED
  BY <1>1, <1>4, <1>5 DEF EvaluationInv

(* Every step keeps the invariant of the evaluations. *)
LEMMA EvaluationKept ==
    ASSUME EvaluationInv, [StrategyNext]_strategyVars
    PROVE  EvaluationInv'
<1>1. CASE \E shape \in Shapes : BarCloses(shape)
  <2>1. PICK shape \in Shapes : BarCloses(shape)
    BY <1>1
  <2>2. PICK old \in Seq(Bars) : old = bars
    BY DEF EvaluationInv
  <2>3. PICK bar : bar = [shape EXCEPT !.t = Len(old) + 1]
    OBVIOUS
  <2>4. bar \in Bars
    <3>1. shape \in Bars /\ Len(old) + 1 \in Nat
      BY LenProperties, StrategyAssumption DEF StrategyAssumption
    <3> QED
      BY <2>3, <3>1 DEF Bars
  <2>5. Append(old, bar) \in Seq(Bars) /\ Len(Append(old, bar)) = Len(old) + 1
    BY <2>4, AppendProperties
  <2>6. bars' \in Seq(Bars) /\ watermark' \in 0 .. Len(bars')
    <3>1. bars' = Append(old, bar) /\ watermark' = watermark
      BY <2>1, <2>2, <2>3 DEF BarCloses, pass
    <3>2. watermark \in 0 .. Len(old) /\ Len(old) \in Nat
      BY <2>2, LenProperties DEF EvaluationInv
    <3> QED
      BY <2>5, <3>1, <3>2
  <2>7. UNCHANGED <<life, watermark, stage, ctx, journal, orders>>
    BY <2>1 DEF BarCloses, pass
  <2>8. DecidedOnce' /\ SendsWhatIsRecorded'
    BY <2>7 DEF EvaluationInv, DecidedOnce, OneDecisionPerBar, SendsWhatIsRecorded, Recorded
  <2> QED
    BY <2>6, <2>7, <2>8 DEF EvaluationInv
<1>2. CASE \E s \in {Len(bars) - 1, Len(bars)}, t \in Targets : ContextFor(s, t)
  BY <1>2, ContextStep
<1>3. CASE UNCHANGED <<market, pass>>
  <2>1. UNCHANGED <<bars, life, watermark, stage, ctx, journal, orders>>
    BY <1>3 DEF market, pass
  <2> QED
    BY <2>1, PassMoves
<1>4. CASE NotArmed \/ Managed \/ Assemble \/ Refused
  <2>1. /\ UNCHANGED <<bars, life, watermark, journal, orders>>
        /\ \/ stage' = "idle"
           \/ stage = "tick" /\ stage' = "evaluate" /\ ctx' = ctx
    BY <1>4 DEF NotArmed, Managed, Assemble, Refused, Finish, market
  <2> QED
    BY <2>1, PassMoves
<1>5. CASE Evaluate
  BY <1>5, EvaluateStep
<1>6. CASE SubmitOrder
  BY <1>6, SubmitStep
<1>7. CASE Invalid \/ ProcessDies \/ FeedEnds
  BY <1>7, NewLifeStep DEF Invalid, ProcessDies, FeedEnds
<1>8. CASE \E w \in Writers : Storing(w) \/ OtherDies(w)
  BY <1>3, <1>8 DEF Storing, OtherDies
<1>9. CASE \E id \in Heads : TapeGrows(id)
  BY <1>3, <1>9 DEF TapeGrows
<1>10. CASE UNCHANGED strategyVars
  BY <1>3, <1>10 DEF strategyVars, pass
<1> QED
  BY <1>1, <1>2, <1>4, <1>5, <1>6, <1>7, <1>8, <1>9, <1>10 DEF StrategyNext

(* The evaluations keep their invariant. *)
LEMMA EvaluationAlways == StrategySpec => []EvaluationInv
<1>1. StrategyInit => EvaluationInv
  <2> SUFFICES ASSUME StrategyInit PROVE EvaluationInv
    OBVIOUS
  <2>1. bars \in Seq(Bars)
    BY StrategyAssumption DEF StrategyAssumption, StrategyInit
  <2>2. /\ life = 1 /\ watermark = 0 /\ stage = "idle" /\ journal = <<>> /\ orders = {}
    BY DEF StrategyInit
  <2>3. journal \in Seq(Decisions) /\ DOMAIN journal = {}
    BY <2>2
  <2> QED
    BY <2>1, <2>2, <2>3 DEF EvaluationInv, DecidedOnce, OneDecisionPerBar, SendsWhatIsRecorded
<1> QED
  BY <1>1, EvaluationKept, PTL DEF StrategySpec

(* Whatever has been sent has a tradeable decision on record, for any market,  *)
(* tape and calendar, even when the process dies between the two (run_tick).   *)
THEOREM SentIsRecordedAlways == StrategySpec => []SentIsRecorded
<1>1. EvaluationInv => SentIsRecorded
  <2> SUFFICES ASSUME EvaluationInv, NEW o \in orders
               PROVE  \E i \in DOMAIN journal :
                         /\ <<journal[i].life, journal[i].bar>> = o
                         /\ journal[i].grade # "REJECT"
    BY DEF SentIsRecorded
  <2>1. PICK l, bar : o = <<l, bar>> /\ Recorded(l, bar)
    BY DEF EvaluationInv, SendsWhatIsRecorded
  <2> QED
    BY <2>1 DEF Recorded
<1> QED
  BY <1>1, EvaluationAlways, PTL

(* No two decisions of one life are about the same bar, however the reads of   *)
(* the source lag and whatever the control said in between (the watermark of   *)
(* the context source).                                                        *)
THEOREM OneDecisionPerBarAlways == StrategySpec => []OneDecisionPerBar
<1>1. EvaluationInv => OneDecisionPerBar
  BY DEF EvaluationInv, DecidedOnce
<1> QED
  BY <1>1, EvaluationAlways, PTL

(* Of a finite set of naturals each rank is held. *)
LEMMA RankIsHeld ==
    ASSUME NEW S, S \subseteq Nat, IsFiniteSet(S)
    PROVE  \A i \in 1 .. Cardinality(S) :
              \E n \in S : Cardinality({k \in S : k < n}) = i - 1
<1> DEFINE Under(n) == {k \in S : k < n}
           Missed == {i \in 1 .. Cardinality(S) : ~ \E n \in S : Cardinality(Under(n)) = i - 1}
<1>1. Cardinality(S) \in Nat
  BY FS_CardinalityType
<1>2. SUFFICES ASSUME Missed # {} PROVE FALSE
  OBVIOUS
<1>3. PICK i \in Missed : \A j \in Missed : i <= j
  <2>1. Missed \subseteq Nat
    BY <1>1
  <2> HIDE DEF Missed
  <2> QED
    BY <1>2, <2>1, LeastElement
<1>4. i \in 1 .. Cardinality(S) /\ \A n \in S : Cardinality(Under(n)) # i - 1
  OBVIOUS
<1>5. CASE i = 1
  <2>1. S # {}
    BY <1>4, FS_EmptySet
  <2>2. PICK m \in S : \A y \in S : m <= y
    BY <2>1, LeastElement
  <2>3. Under(m) = {}
    <3>1. ASSUME NEW k \in S PROVE ~ (k < m)
      <4>1. k \in Nat /\ m \in Nat /\ m <= k
        BY <2>2
      <4> QED
        BY <4>1
    <3> QED
      BY <3>1
  <2> QED
    BY <1>4, <1>5, <2>3, FS_EmptySet
<1>6. CASE i # 1
  <2>1. PICK n \in S : Cardinality(Under(n)) = i - 2
    <3>1. i - 1 \in 1 .. Cardinality(S) /\ i - 1 \notin Missed
      BY <1>1, <1>3, <1>4, <1>6
    <3> QED
      BY <1>4, <3>1
  <2> DEFINE Low == Under(n) \cup {n}
  <2>2. IsFiniteSet(Low) /\ Cardinality(Low) = i - 1
    <3>1. IsFiniteSet(Under(n))
      BY FS_Subset
    <3>2. n \notin Under(n)
      OBVIOUS
    <3>3. /\ IsFiniteSet(Low)
          /\ Cardinality(Low) = IF n \in Under(n) THEN Cardinality(Under(n))
                                ELSE Cardinality(Under(n)) + 1
      <4> HIDE DEF Under
      <4> QED
        BY <3>1, FS_AddElement
    <3> HIDE DEF Under, Low
    <3> QED
      BY <1>4, <2>1, <3>2, <3>3
  <2>3. S \ Low # {}
    <3>1. Low \subseteq S
      OBVIOUS
    <3>2. S # Low
      <4> HIDE DEF Low
      <4> QED
        BY <1>1, <1>4, <2>2
    <3> HIDE DEF Low
    <3> QED
      BY <3>1, <3>2
  <2>4. PICK m \in S \ Low : \A y \in S \ Low : m <= y
    <3>1. S \ Low \subseteq Nat
      OBVIOUS
    <3> HIDE DEF Low
    <3> QED
      BY <2>3, <3>1, LeastElement
  <2>5. Under(m) = Low
    <3>1. m \in Nat /\ n \in Nat /\ m > n
      BY <2>4
    <3>2. ASSUME NEW k \in S PROVE k < m <=> k \in Low
      <4>1. k \in Nat
        OBVIOUS
      <4>2. CASE k \in Low
        BY <3>1, <4>1, <4>2
      <4>3. CASE k \notin Low
        <5>1. m <= k
          BY <2>4, <4>3
        <5> QED
          BY <3>1, <4>1, <4>3, <5>1
      <4> QED
        BY <4>2, <4>3
    <3>3. Low \subseteq S
      OBVIOUS
    <3> QED
      BY <3>2, <3>3
  <2> QED
    BY <1>4, <2>2, <2>4, <2>5
<1> QED
  BY <1>5, <1>6

(* Ascending lists a finite set of naturals in order. *)
LEMMA AscendingOrder ==
    ASSUME NEW S, S \subseteq Nat, IsFiniteSet(S)
    PROVE  /\ Ascending(S) \in [1 .. Cardinality(S) -> S]
           /\ Ascending(S) \in Seq(S) /\ Len(Ascending(S)) = Cardinality(S)
           /\ \A i, j \in 1 .. Cardinality(S) : i < j => Ascending(S)[i] < Ascending(S)[j]
<1> DEFINE Under(n) == {k \in S : k < n}
           A == Ascending(S)
           N == Cardinality(S)
<1>1. N \in Nat
  BY FS_CardinalityType
<1>2. A = [i \in 1 .. N |-> CHOOSE n \in S : Cardinality(Under(n)) = i - 1]
  BY DEF Ascending
<1>3. ASSUME NEW i \in 1 .. N
      PROVE  A[i] \in S /\ Cardinality(Under(A[i])) = i - 1
  <2>1. \E n \in S : Cardinality(Under(n)) = i - 1
    BY RankIsHeld
  <2>2. A[i] = CHOOSE n \in S : Cardinality(Under(n)) = i - 1
    BY <1>2
  <2> HIDE DEF Under, A
  <2> QED
    BY <2>1, <2>2
<1>4. A \in [1 .. N -> S]
  <2>1. DOMAIN A = 1 .. N
    BY <1>2, Zenon
  <2>2. A = [i \in 1 .. N |-> A[i]]
    BY <1>2, Zenon
  <2> HIDE DEF A
  <2> QED
    BY <1>3, <2>2
<1>5. A \in Seq(S)
  <2> HIDE DEF A, N
  <2> QED
    BY <1>1, <1>4, SeqDef
<1>6. Len(A) = N
  <2> HIDE DEF A, N
  <2>1. DOMAIN A = 1 .. N
    BY <1>4
  <2>2. Len(A) \in Nat /\ DOMAIN A = 1 .. Len(A)
    BY <1>5, LenProperties
  <2> QED
    BY <1>1, <2>1, <2>2
<1>7. ASSUME NEW i \in 1 .. N, NEW j \in 1 .. N, i < j
      PROVE  A[i] < A[j]
  <2>1. PICK a \in S : a = A[i] /\ Cardinality(Under(a)) = i - 1
    BY <1>3
  <2>2. PICK b \in S : b = A[j] /\ Cardinality(Under(b)) = j - 1
    BY <1>3
  <2>3. ASSUME b <= a PROVE FALSE
    <3>1. Under(b) \subseteq Under(a)
      <4>1. ASSUME NEW k \in S, k < b PROVE k < a
        <5>1. k \in Nat /\ a \in Nat /\ b \in Nat
          OBVIOUS
        <5> QED
          BY <2>3, <4>1, <5>1
      <4> QED
        BY <4>1
    <3>2. IsFiniteSet(Under(a))
      BY FS_Subset
    <3>3. Cardinality(Under(b)) <= Cardinality(Under(a))
      <4> HIDE DEF Under
      <4> QED
        BY <3>1, <3>2, FS_Subset
    <3> HIDE DEF Under, N
    <3> QED
      BY <1>1, <1>7, <2>1, <2>2, <3>3
  <2> HIDE DEF A
  <2> QED
    BY <2>1, <2>2, <2>3
<1> QED
  BY <1>4, <1>5, <1>6, <1>7

(* A finite set of naturals that is not empty has a greatest element. *)
LEMMA FiniteHasGreatest ==
    ASSUME NEW S, S \subseteq Nat, IsFiniteSet(S), S # {}
    PROVE  \E x \in S : \A y \in S : y <= x
<1> DEFINE Under(n) == {k \in S : k < n}
           N == Cardinality(S)
<1>1. N \in Nat \ {0}
  BY FS_CardinalityType, FS_EmptySet
<1>2. PICK x \in S : Cardinality(Under(x)) = N - 1
  <2>1. N \in 1 .. N
    BY <1>1
  <2> QED
    BY <2>1, RankIsHeld
<1>3. ASSUME NEW y \in S, y > x PROVE FALSE
  <2>1. x \notin Under(x) /\ y \notin Under(x) \cup {x} /\ Under(x) \cup {x} \subseteq S
    BY <1>3
  <2>2. IsFiniteSet(Under(x))
    BY FS_Subset
  <2> HIDE DEF Under
  <2>3. IsFiniteSet(Under(x) \cup {x}) /\ Cardinality(Under(x) \cup {x}) = N
    <3> HIDE DEF N
    <3> QED
      BY <1>1, <1>2, <2>1, <2>2, FS_AddElement
  <2>4. S = Under(x) \cup {x}
    BY <2>1, <2>3, FS_Subset
  <2> QED
    BY <2>1, <2>4
<1> QED
  BY <1>3

(* The bars of a sequence, one by one. *)
LEMMA BarFields ==
    ASSUME NEW s \in Seq(Bars), NEW i \in DOMAIN s
    PROVE  s[i].h \in Nat /\ s[i].l \in Nat /\ s[i].t \in Nat /\ s[i].l <= s[i].h
<1>1. s[i] \in Bars
  BY LenProperties, ElementOfSeq
<1> QED
  BY <1>1 DEF Bars

(* The swings of a sequence stand in it in order. *)
LEMMA SwingsInOrder ==
    ASSUME NEW X, NEW s \in Seq(X), NEW side
    PROVE  /\ Swings(s, side) \in Seq(DOMAIN s)
           /\ \A i, j \in 1 .. Len(Swings(s, side)) :
                 i < j => Swings(s, side)[i] < Swings(s, side)[j]
<1> DEFINE S == {i \in DOMAIN s : IsSwing(s, side, i)}
<1>1. DOMAIN s = 1 .. Len(s) /\ Len(s) \in Nat
  BY LenProperties
<1>2. S \subseteq DOMAIN s /\ S \subseteq Nat
  BY <1>1
<1>3. IsFiniteSet(S)
  <2>1. IsFiniteSet(1 .. Len(s))
    BY <1>1, FS_Interval
  <2> HIDE DEF S
  <2> QED
    BY <1>1, <1>2, <2>1, FS_Subset
<1>4. Swings(s, side) = Ascending(S)
  BY DEF Swings
<1> HIDE DEF S
<1>5. Swings(s, side) \in Seq(S)
  BY <1>2, <1>3, <1>4, AscendingOrder
<1>6. Swings(s, side) \in Seq(DOMAIN s)
  BY <1>2, <1>5, SeqMonotonic
<1> QED
  BY <1>2, <1>3, <1>4, <1>6, AscendingOrder

(* A regular divergence is read between two bars, the later one further. *)
LEMMA RegularSignal ==
    ASSUME NEW s \in Seq(Bars), NEW side, Divergence(s, side).kind = "REGULAR"
    PROVE  \E f, g \in DOMAIN s :
              /\ f < g
              /\ Divergence(s, side) = [kind |-> "REGULAR", first |-> f, second |-> g]
              /\ Further(side, Extreme(s, side, g), Extreme(s, side, f))
<1>1. PICK w \in Seq(DOMAIN s) :
         w = Swings(s, side) /\ \A i, j \in 1 .. Len(w) : i < j => w[i] < w[j]
  BY SwingsInOrder
<1>2. Len(w) \in Nat
  BY LenProperties
<1>3. Len(w) >= 2
  <2>1. NoSignal.kind # "REGULAR"
    BY DEF NoSignal
  <2>2. ~ (Len(w) < 2)
    BY <1>1, <2>1 DEF Divergence
  <2> QED
    BY <1>2, <2>2
<1>4. PICK f \in DOMAIN s : f = w[Len(w) - 1]
  <2>1. Len(w) - 1 \in 1 .. Len(w)
    BY <1>2, <1>3
  <2> QED
    BY <2>1, ElementOfSeq
<1>5. PICK g \in DOMAIN s : g = w[Len(w)]
  <2>1. Len(w) \in 1 .. Len(w)
    BY <1>2, <1>3
  <2> QED
    BY <2>1, ElementOfSeq
<1>6. f < g
  <2>1. Len(w) - 1 \in 1 .. Len(w) /\ Len(w) \in 1 .. Len(w) /\ Len(w) - 1 < Len(w)
    BY <1>2, <1>3
  <2> QED
    BY <1>1, <1>4, <1>5, <2>1
<1> DEFINE regular == /\ Further(side, Extreme(s, side, g), Extreme(s, side, f))
                      /\ Weaker(side, s[g].osc, s[f].osc)
           hidden == /\ Further(side, Extreme(s, side, f), Extreme(s, side, g))
                     /\ Weaker(side, s[f].osc, s[g].osc)
<1>7. Divergence(s, side) =
         IF regular \/ hidden
         THEN [kind |-> IF regular THEN "REGULAR" ELSE "HIDDEN", first |-> f, second |-> g]
         ELSE NoSignal
  <2>1. ~ (Len(w) < 2)
    BY <1>2, <1>3
  <2> QED
    BY <1>1, <1>4, <1>5, <2>1, Zenon DEF Divergence
<1>8. regular
  <2> HIDE DEF regular, hidden
  <2> QED
    BY <1>7 DEF NoSignal
<1>9. Divergence(s, side) = [kind |-> "REGULAR", first |-> f, second |-> g]
  <2> HIDE DEF regular, hidden
  <2> QED
    BY <1>7, <1>8
<1> QED
  BY <1>6, <1>8, <1>9

(* Extremes of the bars a signal spans. *)
LEMMA SegmentExtremes ==
    ASSUME NEW s \in Seq(Bars), NEW f \in DOMAIN s, NEW g \in DOMAIN s, f <= g
    PROVE  /\ Max({s[i].h : i \in f .. g}) \in Nat /\ Max({s[i].h : i \in f .. g}) >= s[f].h
           /\ Min({s[i].l : i \in f .. g}) \in Nat /\ Min({s[i].l : i \in f .. g}) <= s[f].l
<1> DEFINE H == {s[i].h : i \in f .. g}
           L == {s[i].l : i \in f .. g}
<1>1. DOMAIN s = 1 .. Len(s) /\ Len(s) \in Nat
  BY LenProperties
<1>2. f .. g \subseteq DOMAIN s /\ f \in f .. g /\ f \in Int /\ g \in Int
  BY <1>1
<1>3. \A i \in f .. g : s[i].h \in Nat /\ s[i].l \in Nat
  BY <1>2, BarFields
<1>4. H \subseteq Nat /\ L \subseteq Nat /\ s[f].h \in H /\ s[f].l \in L
  BY <1>2, <1>3
<1>5. IsFiniteSet(H)
  <2> DEFINE highs == [i \in f .. g |-> s[i].h]
  <2>1. highs \in Surjection(f .. g, H)
    BY DEF Surjection
  <2>2. IsFiniteSet(f .. g)
    BY <1>2, FS_Interval
  <2> HIDE DEF highs, H
  <2> QED
    BY <2>1, <2>2, FS_Surjection
<1> HIDE DEF H, L
<1>6. PICK x \in H : \A y \in H : y <= x
  BY <1>4, <1>5, FiniteHasGreatest
<1>7. Max(H) \in H /\ \A y \in H : y <= Max(H)
  <2>1. \A y \in H : x >= y
    BY <1>4, <1>6
  <2>2. Max(H) \in H /\ \A y \in H : Max(H) >= y
    BY <1>6, <2>1, Zenon DEF Max
  <2> QED
    BY <1>4, <2>2
<1>8. PICK z \in L : \A y \in L : z <= y
  BY <1>4, LeastElement
<1>9. Min(L) \in L /\ \A y \in L : Min(L) <= y
  BY <1>8, Zenon DEF Min
<1>10. /\ Max(H) \in Nat /\ Max(H) >= s[f].h
       /\ Min(L) \in Nat /\ Min(L) <= s[f].l
  BY <1>4, <1>7, <1>9
<1> QED
  BY <1>10 DEF H, L

(* A regular divergence has a drawing over the bars it was read from. *)
LEMMA RegularIsDrawn ==
    ASSUME NEW s \in Seq(Bars), NEW side, NEW signal, signal = Divergence(s, side),
           signal.kind = "REGULAR"
    PROVE  \E a, b \in Int :
              /\ BuildSetup(s, signal, Moments(s, signal), side) = [a |-> a, b |-> b]
              /\ Further(side, b, a)
<1>1. PICK f \in DOMAIN s, g \in DOMAIN s :
         /\ f < g
         /\ signal = [kind |-> "REGULAR", first |-> f, second |-> g]
         /\ Further(side, Extreme(s, side, g), Extreme(s, side, f))
  BY RegularSignal
<1>2. DOMAIN s = 1 .. Len(s) /\ Len(s) \in Nat
  BY LenProperties
<1>3. f \in Nat /\ g \in Nat /\ f <= g /\ ~ (g > Len(s))
  BY <1>1, <1>2
<1>4. PICK hi \in Nat, lo \in Nat :
         /\ hi = Max({s[i].h : i \in f .. g}) /\ hi >= s[f].h
         /\ lo = Min({s[i].l : i \in f .. g}) /\ lo <= s[f].l
  BY <1>1, <1>3, SegmentExtremes
<1>5. /\ s[f].h \in Nat /\ s[f].l \in Nat /\ s[f].l <= s[f].h
      /\ s[g].h \in Nat /\ s[g].l \in Nat
  BY <1>1, BarFields
<1>6. PICK a : a = IF side = "BUY" THEN hi ELSE lo
  OBVIOUS
<1>7. PICK b : b = Extreme(s, side, g)
  OBVIOUS
<1>8. a \in Int /\ b \in Int /\ Further(side, b, a)
  <2>1. CASE side = "BUY"
    BY <1>1, <1>4, <1>5, <1>6, <1>7, <2>1 DEF Further, Extreme
  <2>2. CASE side # "BUY"
    BY <1>1, <1>4, <1>5, <1>6, <1>7, <2>2 DEF Further, Extreme
  <2> QED
    BY <2>1, <2>2
<1>9. /\ signal.kind = "REGULAR" /\ signal.first = f /\ signal.second = g
  BY <1>1
<1>10. BuildSetup(s, signal, Moments(s, signal), side) =
          IF Further(side, b, a) THEN [a |-> a, b |-> b] ELSE NoSetup
  <2>1. CASE side = "BUY"
    BY <1>3, <1>4, <1>6, <1>7, <1>9, <2>1, Zenon DEF BuildSetup
  <2>2. CASE side # "BUY"
    BY <1>3, <1>4, <1>6, <1>7, <1>9, <2>2, Zenon DEF BuildSetup
  <2> QED
    BY <2>1, <2>2
<1> QED
  BY <1>8, <1>10

(* The levels of a drawing stand in order between its anchors. *)
LEMMA LevelsInOrder ==
    ASSUME NEW a \in Int, NEW b \in Int, NEW side, Further(side, b, a), NEW setup,
           setup = [a |-> a, b |-> b]
    PROVE  /\ Further(side, 100 * setup.b, Level(setup, 25))
           /\ Further(side, Level(setup, 25), Level(setup, 50))
           /\ Further(side, Level(setup, 50), Level(setup, 66))
           /\ Further(side, Level(setup, 66), 100 * setup.a)
<1>1. /\ Level(setup, 25) = 100 * b + 25 * (a - b)
      /\ Level(setup, 50) = 100 * b + 50 * (a - b)
      /\ Level(setup, 66) = 100 * b + 66 * (a - b)
      /\ setup.a = a /\ setup.b = b
  BY DEF Level
<1>2. CASE side = "BUY"
  BY <1>1, <1>2 DEF Further
<1>3. CASE side # "BUY"
  BY <1>1, <1>3 DEF Further
<1> QED
  BY <1>2, <1>3

(* A set of numbers with 0 and the successors of its members has them all. *)
LEMMA EveryNumber ==
    ASSUME NEW T, 0 \in T, \A m \in Nat : m \in T => m + 1 \in T
    PROVE  \A m \in Nat : m \in T
<1> SUFFICES ASSUME Nat \ T # {} PROVE FALSE
  OBVIOUS
<1>1. PICK m \in Nat \ T : \A k \in Nat \ T : m <= k
  <2>1. Nat \ T \subseteq Nat
    OBVIOUS
  <2> QED
    BY <2>1, LeastElement
<1>2. m # 0 /\ m - 1 \in Nat
  OBVIOUS
<1>3. m - 1 \in T
  BY <1>1, <1>2
<1>4. m - 1 + 1 = m
  OBVIOUS
<1> QED
  BY <1>2, <1>3, <1>4

(* What a fold takes next of a set that is not empty. *)
TakesFrom(ch, D) ==
    ch \in [(SUBSET D) \ {{}} -> D] /\ \A s \in (SUBSET D) \ {{}} : ch[s] \in s

(* i is the fold of step over the subsets of D from b, as Folds.tla defines one. *)
FoldsFrom(i, D, b, ch, step) ==
    \A s \in SUBSET D : i[s] = IF s = {} THEN b ELSE step[<<i[s \ {ch[s]}], ch[s]>>]

(* A fold exists: built for the subsets of one element more at a time. *)
LEMMA FoldExists ==
    ASSUME NEW D, IsFiniteSet(D), NEW X, NEW b \in X, NEW ch, TakesFrom(ch, D),
           NEW step \in [X \X D -> X]
    PROVE  \E i \in [SUBSET D -> X] : FoldsFrom(i, D, b, ch, step)
<1> DEFINE Upto(n, i) ==
              \A s \in SUBSET D : Cardinality(s) <= n =>
                 i[s] = IF s = {} THEN b ELSE step[<<i[s \ {ch[s]}], ch[s]>>]
           T == {n \in Nat : \E i \in [SUBSET D -> X] : Upto(n, i)}
<1>0. ASSUME NEW s \in SUBSET D
      PROVE  /\ IsFiniteSet(s) /\ Cardinality(s) \in Nat
             /\ Cardinality(s) <= Cardinality(D)
             /\ Cardinality(s) = 0 <=> s = {}
  BY FS_Subset, FS_CardinalityType, FS_EmptySet
<1>1. 0 \in T
  <2>1. ASSUME NEW s \in SUBSET D, Cardinality(s) <= 0 PROVE s = {}
    BY <1>0, <2>1
  <2>2. [s \in SUBSET D |-> b] \in [SUBSET D -> X]
    OBVIOUS
  <2>3. Upto(0, [s \in SUBSET D |-> b])
    BY <2>1
  <2> QED
    BY <2>2, <2>3
<1>2. ASSUME NEW n \in Nat, n \in T PROVE n + 1 \in T
  <2>1. PICK i \in [SUBSET D -> X] : Upto(n, i)
    BY <1>2
  <2> DEFINE j == [s \in SUBSET D |-> IF s = {} THEN b ELSE step[<<i[s \ {ch[s]}], ch[s]>>]]
  <2>2. j \in [SUBSET D -> X]
    <3> SUFFICES ASSUME NEW s \in SUBSET D, s # {}
                 PROVE  step[<<i[s \ {ch[s]}], ch[s]>>] \in X
      OBVIOUS
    <3>1. ch[s] \in D /\ i[s \ {ch[s]}] \in X
      BY DEF TakesFrom
    <3> QED
      BY <3>1
  <2>3. Upto(n + 1, j)
    <3> SUFFICES ASSUME NEW s \in SUBSET D, Cardinality(s) <= n + 1, s # {}
                 PROVE  j[s] = step[<<j[s \ {ch[s]}], ch[s]>>]
      OBVIOUS
    <3>1. PICK x \in s : x = ch[s]
      BY DEF TakesFrom
    <3>2. PICK t \in SUBSET D : t = s \ {x} /\ Cardinality(t) <= n
      <4>1. Cardinality(s \ {x}) = Cardinality(s) - 1 /\ s \ {x} \in SUBSET D
        BY <1>0, FS_RemoveElement
      <4> QED
        BY <1>0, <4>1
    <3>3. i[t] = j[t]
      BY <2>1, <3>2
    <3> QED
      BY <3>1, <3>2, <3>3
  <2>4. \E k \in [SUBSET D -> X] : Upto(n + 1, k)
    <3> HIDE DEF Upto, j
    <3> QED
      BY <2>2, <2>3
  <2>5. n + 1 \in Nat
    OBVIOUS
  <2> HIDE DEF Upto
  <2> QED
    BY <2>4, <2>5
<1>3. Cardinality(D) \in Nat
  BY FS_CardinalityType
<1>4. Cardinality(D) \in T
  <2> HIDE DEF T
  <2> QED
    BY <1>1, <1>2, <1>3, EveryNumber
<1>5. PICK i \in [SUBSET D -> X] : Upto(Cardinality(D), i)
  BY <1>4
<1>6. FoldsFrom(i, D, b, ch, step)
  BY <1>0, <1>5 DEF FoldsFrom
<1> QED
  BY <1>6

(* A fold from the left takes the last element of a prefix first. *)
Latest(n) == [s \in (SUBSET (1 .. n)) \ {{}} |-> Max(s)]
(* It takes an element each time, and leaves a shorter prefix. *)
LEMMA LatestTakes ==
    ASSUME NEW n \in Nat
    PROVE  /\ TakesFrom(Latest(n), 1 .. n)
           /\ \A m \in 0 .. n : /\ 1 .. m \in SUBSET (1 .. n)
                                /\ m > 0 => /\ Max(1 .. m) = m /\ 1 .. m # {}
                                            /\ (1 .. m) \ {m} = 1 .. m - 1
<1>1. ASSUME NEW s \in (SUBSET (1 .. n)) \ {{}}
      PROVE  Max(s) \in s
  <2>1. PICK x \in s : \A y \in s : y <= x
    BY GreatestElement
  <2>2. \A y \in s : x >= y
    BY <2>1
  <2> QED
    BY <2>2, Zenon DEF Max
<1>2. TakesFrom(Latest(n), 1 .. n)
  BY <1>1 DEF TakesFrom, Latest
<1>3. ASSUME NEW m \in 0 .. n
      PROVE  /\ 1 .. m \in SUBSET (1 .. n)
             /\ m > 0 => /\ Max(1 .. m) = m /\ 1 .. m # {}
                         /\ (1 .. m) \ {m} = 1 .. m - 1
  <2>1. 1 \in Int /\ m \in Int
    OBVIOUS
  <2>2. 1 <= m => Max(1 .. m) = m
    BY <2>1, ExtremesOfIds
  <2>3. m > 0 => 1 <= m
    BY <2>1
  <2> QED
    BY <2>2, <2>3
<1> QED
  BY <1>2, <1>3

(* The exhaustion chain, one swing after the other. *)
ChainStep(s, side, chain, i) ==
    IF chain # <<>> /\ Dries(s, side, Last(chain), i) THEN Append(chain, i) ELSE <<i>>
ChainFold(i, s, side) ==
    i = [r \in SUBSET (DOMAIN Swings(s, side)) |->
           IF r = {} THEN <<>>
           ELSE ChainStep(s, side, i[r \ {Max(r)}], Swings(s, side)[Max(r)])]
(* The chain is that fold over the swings. *)
LEMMA ChainIsAFold ==
    ASSUME NEW s, NEW side
    PROVE  Chain(s, side) = (CHOOSE i : ChainFold(i, s, side))[DOMAIN Swings(s, side)]
BY DEF Chain, FoldLeft, MapThenFoldSet, ChainFold, ChainStep
(* It runs from no chain over every swing in its order. *)
LEMMA ChainRuns ==
    ASSUME NEW s, NEW side, NEW I, NEW w \in Seq(I), w = Swings(s, side)
    PROVE  \E f :
              /\ f[0] = <<>>
              /\ \A m \in 1 .. Len(w) : f[m] = ChainStep(s, side, f[m - 1], w[m])
              /\ Chain(s, side) = f[Len(w)]
<1>1. PICK n \in Nat : n = Len(w) /\ DOMAIN w = 1 .. n
  BY LenProperties
<1> DEFINE D == 1 .. n
           X == Seq(I)
           step == [z \in X \X D |-> ChainStep(s, side, z[1], w[z[2]])]
<1>2. step \in [X \X D -> X]
  <2> SUFFICES ASSUME NEW c \in X, NEW m \in D PROVE ChainStep(s, side, c, w[m]) \in X
    OBVIOUS
  <2>1. w[m] \in I
    BY <1>1, ElementOfSeq
  <2>2. Append(c, w[m]) \in X /\ <<w[m]>> \in X
    BY <2>1, AppendProperties
  <2> HIDE DEF X
  <2> QED
    BY <2>2 DEF ChainStep
<1>3. PICK i \in [SUBSET D -> X] : FoldsFrom(i, D, <<>>, Latest(n), step)
  <2>1. IsFiniteSet(D)
    BY FS_Interval
  <2>2. <<>> \in X
    BY EmptySeq
  <2> HIDE DEF X, step
  <2> QED
    BY <1>2, <2>1, <2>2, LatestTakes, FoldExists
<1>4. ChainFold(i, s, side)
  <2>1. ASSUME NEW r \in SUBSET D, r # {}
        PROVE  i[r] = ChainStep(s, side, i[r \ {Max(r)}], w[Max(r)])
    <3>1. Latest(n)[r] = Max(r) /\ Latest(n)[r] \in D
      BY <2>1, LatestTakes DEF Latest, TakesFrom
    <3>2. i[r] = step[<<i[r \ {Max(r)}], Max(r)>>]
      BY <1>3, <2>1, <3>1 DEF FoldsFrom
    <3>3. i[r \ {Max(r)}] \in X /\ Max(r) \in D
      BY <1>3, <3>1
    <3> HIDE DEF X, D
    <3> QED
      BY <3>2, <3>3
  <2>2. i[{}] = <<>>
    BY <1>3 DEF FoldsFrom
  <2> HIDE DEF X, step
  <2> QED
    BY <1>1, <1>3, <2>1, <2>2 DEF ChainFold
<1>5. PICK j : j = (CHOOSE k : ChainFold(k, s, side)) /\ ChainFold(j, s, side)
  BY <1>4, Zenon
<1>6. Chain(s, side) = j[D]
  BY <1>1, <1>5, ChainIsAFold, Zenon
<1> DEFINE f == [m \in 0 .. n |-> j[1 .. m]]
<1>7. \A r \in SUBSET D :
         j[r] = IF r = {} THEN <<>> ELSE ChainStep(s, side, j[r \ {Max(r)}], w[Max(r)])
  <2> HIDE DEF step, X
  <2> QED
    BY <1>1, <1>5, Zenon DEF ChainFold
<1> HIDE DEF X, step
<1>8. f[0] = <<>>
  <2>1. 1 .. 0 = {} /\ {} \in SUBSET D /\ f[0] = j[1 .. 0]
    OBVIOUS
  <2>2. j[{}] = <<>>
    BY <1>7, <2>1, Zenon
  <2> QED
    BY <2>1, <2>2
<1>9. ASSUME NEW m \in 1 .. n PROVE f[m] = ChainStep(s, side, f[m - 1], w[m])
  <2>1. /\ 1 .. m \in SUBSET D /\ Max(1 .. m) = m /\ 1 .. m # {}
        /\ (1 .. m) \ {m} = 1 .. m - 1
    <3>1. m \in 0 .. n /\ m > 0
      OBVIOUS
    <3> QED
      BY <3>1, LatestTakes
  <2>2. j[1 .. m] = ChainStep(s, side, j[(1 .. m) \ {Max(1 .. m)}], w[Max(1 .. m)])
    <3> HIDE DEF D
    <3> QED
      BY <1>7, <2>1, Zenon
  <2>3. j[1 .. m] = ChainStep(s, side, j[1 .. m - 1], w[m])
    BY <2>1, <2>2, Zenon
  <2>4. f[m] = j[1 .. m] /\ f[m - 1] = j[1 .. m - 1]
    OBVIOUS
  <2> QED
    BY <2>3, <2>4, Zenon
<1>10. f[n] = j[D]
  OBVIOUS
<1> HIDE DEF f
<1> QED
  BY <1>1, <1>6, <1>8, <1>9, <1>10

(* The chain is the run of drying swings that reaches furthest back from the    *)
(* last one.                                                                    *)
LEMMA ChainIsTheLastRun ==
    ASSUME NEW s, NEW side, NEW I, NEW w \in Seq(I), w = Swings(s, side), w # <<>>
    PROVE  Chain(s, side) =
              SubSeq(w, Min({k \in DOMAIN w : DryingRun(s, side, w, k)}), Len(w))
<1>1. PICK n \in Nat : n = Len(w) /\ DOMAIN w = 1 .. n /\ n > 0
  BY LenProperties, EmptySeq
<1>2. PICK f : /\ f[0] = <<>>
               /\ \A m \in 1 .. n : f[m] = ChainStep(s, side, f[m - 1], w[m])
               /\ Chain(s, side) = f[n]
  BY <1>1, ChainRuns
<1> DEFINE Dry(m) == Dries(s, side, w[m], w[m + 1])
           Run(m, a) == /\ f[m] = SubSeq(w, a, m)
                        /\ \A k \in a .. m - 1 : Dry(k)
                        /\ a > 1 => ~ Dry(a - 1)
           T == {m \in Nat : m \in 1 .. n => \E a \in 1 .. m : Run(m, a)}
<1>3. ASSUME NEW m \in 1 .. n, NEW a \in 1 .. m
      PROVE  /\ SubSeq(w, a, m) # <<>>
             /\ Last(SubSeq(w, a, m)) = w[m]
             /\ m < n => Append(SubSeq(w, a, m), w[m + 1]) = SubSeq(w, a, m + 1)
             /\ SubSeq(w, m, m) = <<w[m]>>
  <2>1. /\ SubSeq(w, a, m) \in Seq(I) /\ Len(SubSeq(w, a, m)) = m - a + 1
        /\ \A k \in 1 .. m - a + 1 : SubSeq(w, a, m)[k] = w[a + k - 1]
    BY <1>1
  <2>2. SubSeq(w, a, m) # <<>> /\ Last(SubSeq(w, a, m)) = w[m]
    <3>1. Len(SubSeq(w, a, m)) > 0 /\ a + (m - a + 1) - 1 = m
      BY <2>1
    <3>2. m - a + 1 \in 1 .. m - a + 1
      OBVIOUS
    <3> QED
      BY <2>1, <3>1, <3>2, EmptySeq DEF Last
  <2>3. ASSUME m < n PROVE Append(SubSeq(w, a, m), w[m + 1]) = SubSeq(w, a, m + 1)
    <3>1. m + 1 \in 1 .. n /\ w[m + 1] \in I
      BY <1>1, <2>3, ElementOfSeq
    <3>2. /\ SubSeq(w, a, m + 1) \in Seq(I) /\ Len(SubSeq(w, a, m + 1)) = m - a + 2
          /\ \A k \in 1 .. m - a + 2 : SubSeq(w, a, m + 1)[k] = w[a + k - 1]
      BY <1>1, <3>1
    <3>3. PICK u \in Seq(I) : u = SubSeq(w, a, m)
      BY <2>1
    <3>4. /\ Append(u, w[m + 1]) \in Seq(I) /\ Len(Append(u, w[m + 1])) = m - a + 2
          /\ \A k \in 1 .. m - a + 1 : Append(u, w[m + 1])[k] = u[k]
          /\ Append(u, w[m + 1])[m - a + 2] = w[m + 1]
      BY <2>1, <3>1, <3>3, AppendProperties
    <3>5. \A k \in 1 .. m - a + 2 : Append(u, w[m + 1])[k] = SubSeq(w, a, m + 1)[k]
      BY <2>1, <3>2, <3>3, <3>4
    <3> QED
      BY <3>2, <3>3, <3>4, <3>5, SeqEqual
  <2>4. SubSeq(w, m, m) = <<w[m]>>
    <3>1. w[m] \in I
      BY <1>1, ElementOfSeq
    <3>2. /\ SubSeq(w, m, m) \in Seq(I) /\ Len(SubSeq(w, m, m)) = 1
          /\ SubSeq(w, m, m)[1] = w[m]
      BY <1>1
    <3>3. <<w[m]>> \in Seq(I) /\ Len(<<w[m]>>) = 1 /\ <<w[m]>>[1] = w[m]
      BY <3>1
    <3>4. \A k \in 1 .. 1 : SubSeq(w, m, m)[k] = <<w[m]>>[k]
      BY <3>2, <3>3
    <3> QED
      BY <3>2, <3>3, <3>4, SeqEqual
  <2> QED
    BY <2>2, <2>3, <2>4
<1>4. ASSUME NEW m \in Nat, m \in T PROVE m + 1 \in T
  <2> SUFFICES ASSUME m + 1 \in 1 .. n PROVE \E a \in 1 .. m + 1 : Run(m + 1, a)
    OBVIOUS
  <2>1. f[m + 1] = ChainStep(s, side, f[m], w[m + 1])
    <3>1. m + 1 - 1 = m
      OBVIOUS
    <3> QED
      BY <1>2, <3>1
  <2>2. CASE m = 0
    <3>1. f[1] = <<w[1]>>
      BY <1>2, <2>1, <2>2 DEF ChainStep
    <3>2. SubSeq(w, 1, 1) = <<w[1]>>
      BY <1>1, <1>3
    <3> QED
      BY <2>2, <3>1, <3>2
  <2>3. CASE m # 0
    <3>1. PICK a \in 1 .. m : Run(m, a)
      <4>1. m \in 1 .. n
        BY <1>1, <2>3
      <4> HIDE DEF Run
      <4> QED
        BY <1>4, <4>1
    <3>0. m \in 1 .. n /\ m < n /\ f[m] # <<>> /\ Last(f[m]) = w[m]
      <4>1. m \in 1 .. n
        BY <1>1, <2>3
      <4>2. f[m] = SubSeq(w, a, m)
        BY <3>1
      <4>3. SubSeq(w, a, m) # <<>> /\ Last(SubSeq(w, a, m)) = w[m]
        BY <1>3, <4>1
      <4>4. m < n
        BY <1>1
      <4> QED
        BY <4>1, <4>2, <4>3, <4>4
    <3>2. CASE Dry(m)
      <4>1. f[m + 1] = Append(f[m], w[m + 1])
        BY <2>1, <3>0, <3>2 DEF ChainStep
      <4>2. f[m + 1] = SubSeq(w, a, m + 1)
        BY <1>3, <3>0, <3>1, <4>1
      <4>3. \A k \in a .. m : Dry(k)
        <5>1. \A k \in a .. m : k \in a .. m - 1 \/ k = m
          OBVIOUS
        <5> HIDE DEF Dry
        <5> QED
          BY <3>1, <3>2, <5>1
      <4>4. a \in 1 .. m + 1 /\ m + 1 - 1 = m
        OBVIOUS
      <4> HIDE DEF Dry
      <4> QED
        BY <3>1, <4>2, <4>3, <4>4
    <3>3. CASE ~ Dry(m)
      <4>1. f[m + 1] = <<w[m + 1]>>
        BY <2>1, <3>0, <3>3 DEF ChainStep
      <4>2. SubSeq(w, m + 1, m + 1) = <<w[m + 1]>>
        BY <1>3
      <4> QED
        BY <3>3, <4>1, <4>2
    <3> QED
      BY <3>2, <3>3
  <2> QED
    BY <2>2, <2>3
<1>5. n \in T
  <2>1. 0 \in T
    OBVIOUS
  <2> HIDE DEF T
  <2> QED
    BY <1>4, <2>1, EveryNumber
<1>6. PICK a \in 1 .. n : Run(n, a)
  BY <1>1, <1>5
<1> DEFINE K == {k \in DOMAIN w : DryingRun(s, side, w, k)}
<1>7. a \in K /\ \A k \in K : a <= k
  <2>1. \A k \in 1 .. n : k \in K <=> \A l \in k .. n - 1 : Dry(l)
    BY <1>1 DEF DryingRun
  <2>2. K \subseteq 1 .. n
    BY <1>1
  <2>3. ASSUME NEW k \in K, k < a PROVE FALSE
    <3>1. a - 1 \in k .. n - 1
      BY <2>2, <2>3
    <3> HIDE DEF K, Dry
    <3> QED
      BY <1>6, <2>1, <2>2, <2>3, <3>1
  <2> HIDE DEF K, Dry
  <2>4. a \in K
    BY <1>6, <2>1
  <2> QED
    BY <2>2, <2>3, <2>4
<1>8. Min(K) = a
  <2>1. K \subseteq Int
    BY <1>1
  <2>2. \A x \in K : (\A y \in K : x <= y) => x = a
    BY <1>7, <2>1
  <2> HIDE DEF K
  <2> QED
    BY <1>7, <2>2, Zenon DEF Min
<1> QED
  BY <1>1, <1>2, <1>6, <1>8

(* What a function takes on a finite set is a finite set. *)
LEMMA RangeIsFinite ==
    ASSUME NEW S, IsFiniteSet(S), NEW f, DOMAIN f = S
    PROVE  IsFiniteSet({f[x] : x \in S})
<1> DEFINE R == {f[x] : x \in S}
           g == [x \in S |-> f[x]]
<1>1. g \in Surjection(S, R)
  BY DEF Surjection
<1> HIDE DEF g, R
<1>2. IsFiniteSet(R)
  BY <1>1, FS_Surjection
<1> QED
  BY <1>2 DEF R

(* A finite set of numbers has its extremes. *)
LEMMA FiniteExtremes ==
    ASSUME NEW S, S \subseteq Nat, IsFiniteSet(S), S # {}
    PROVE  /\ Max(S) \in S /\ \A y \in S : y <= Max(S)
           /\ Min(S) \in S /\ \A y \in S : Min(S) <= y
<1>1. PICK x \in S : \A y \in S : y <= x
  BY FiniteHasGreatest
<1>2. Max(S) \in S /\ \A y \in S : y <= Max(S)
  <2>1. \A y \in S : x >= y
    BY <1>1
  <2>2. Max(S) \in S /\ \A y \in S : Max(S) >= y
    BY <1>1, <2>1, Zenon DEF Max
  <2> QED
    BY <2>2
<1>3. PICK z \in S : \A y \in S : z <= y
  BY LeastElement
<1>4. Min(S) \in S /\ \A y \in S : Min(S) <= y
  BY <1>3, Zenon DEF Min
<1> QED
  BY <1>2, <1>4

(* The chosen elements of a sequence, in its order. *)
LEMMA ChosenInOrder ==
    ASSUME NEW X, NEW s \in Seq(X), NEW I, I \subseteq DOMAIN s
    PROVE  /\ Chosen(s, I) \in Seq(X) /\ Len(Chosen(s, I)) = Cardinality(I)
           /\ Cardinality(I) \in Nat
           /\ \A n \in 1 .. Cardinality(I) :
                 Ascending(I)[n] \in I /\ Chosen(s, I)[n] = s[Ascending(I)[n]]
<1>1. DOMAIN s = 1 .. Len(s) /\ Len(s) \in Nat /\ \A i \in DOMAIN s : s[i] \in X
  BY LenProperties, ElementOfSeq
<1>2. IsFiniteSet(I) /\ I \subseteq Nat
  <2>1. IsFiniteSet(1 .. Len(s)) /\ I \subseteq 1 .. Len(s)
    BY <1>1, FS_Interval
  <2> QED
    BY <1>1, <2>1, FS_Subset
<1>3. PICK a : a = Ascending(I) /\ a \in [1 .. Cardinality(I) -> I] /\ Len(a) = Cardinality(I)
  BY <1>2, AscendingOrder
<1>4. Cardinality(I) \in Nat
  BY <1>2, FS_CardinalityType
<1>5. Chosen(s, I) = [n \in 1 .. Cardinality(I) |-> s[a[n]]]
  BY <1>3 DEF Chosen
<1>6. \A n \in 1 .. Cardinality(I) : a[n] \in I /\ s[a[n]] \in X
  BY <1>1, <1>3
<1>7. Chosen(s, I) \in Seq(X) /\ Len(Chosen(s, I)) = Cardinality(I)
  BY <1>4, <1>5, <1>6
<1> QED
  BY <1>3, <1>4, <1>5, <1>6, <1>7

(* Division rounds down, so it keeps the order. *)
LEMMA DivisionKeepsOrder ==
    ASSUME NEW a \in Nat, NEW b \in Nat, NEW d \in Nat \ {0}, a <= b
    PROVE  a \div d \in Nat /\ b \div d \in Nat /\ a \div d <= b \div d
<1>1. PICK x \in Int : x = a \div d
  OBVIOUS
<1>2. PICK y \in Int : y = b \div d
  OBVIOUS
<1>3. d * x <= a /\ a < d * x + d
  BY <1>1, Z3
<1>4. d * y <= b /\ b < d * y + d
  BY <1>2, Z3
<1>5. ASSUME x > y PROVE FALSE
  <2>1. PICK k \in Nat : x = y + 1 + k
    <3>1. x - y - 1 \in Nat /\ x = y + 1 + (x - y - 1)
      BY <1>5
    <3> QED
      BY <3>1
  <2>2. d * x = d * y + d + d * k
    BY <2>1, Z3
  <2>3. d * k >= 0
    BY Z3
  <2>4. d * x \in Int /\ d * y \in Int /\ d * k \in Int
    OBVIOUS
  <2> QED
    BY <1>3, <1>4, <2>2, <2>3, <2>4
<1>6. x >= 0 /\ y >= 0
  <2>1. ASSUME NEW z \in Int, z < 0 PROVE d * z + d <= 0
    <3>1. PICK k \in Nat : z = -1 - k
      <4>1. -1 - z \in Nat /\ z = -1 - (-1 - z)
        BY <2>1
      <4> QED
        BY <4>1
    <3>2. d * z = -d - d * k /\ d * k >= 0 /\ d * k \in Int
      BY <3>1, Z3
    <3> QED
      BY <3>2
  <2> QED
    BY <1>3, <1>4, <2>1
<1> QED
  BY <1>1, <1>2, <1>5, <1>6

(* The cube root of a count, rounded up, is a count of bins. *)
LEMMA SomeBins ==
    ASSUME NEW n \in Nat \ {0}
    PROVE  CubeRootCeiling(n) \in Nat \ {0}
<1> DEFINE K == {k \in 1 .. n : k * k * k >= n}
<1>1. n * n * n >= n
  <2>1. PICK k \in Nat : n = k + 1
    <3>1. n - 1 \in Nat /\ n = n - 1 + 1
      OBVIOUS
    <3> QED
      BY <3>1
  <2>2. n * n * n = n + n * (k * k + 2 * k)
    BY <2>1, Z3
  <2>3. k * k \in Nat
    BY Z3
  <2>4. PICK c \in Nat : c = k * k + 2 * k
    BY <2>3
  <2>5. n * c >= 0 /\ n * c \in Int
    BY Z3
  <2> QED
    BY <2>2, <2>4, <2>5
<1>2. K \subseteq Nat /\ K \subseteq 1 .. n /\ n \in K
  BY <1>1
<1>3. IsFiniteSet(K)
  <2>1. IsFiniteSet(1 .. n)
    BY FS_Interval
  <2> HIDE DEF K
  <2> QED
    BY <1>2, <2>1, FS_Subset
<1>4. Min(K) \in 1 .. n
  <2> HIDE DEF K
  <2>1. Min(K) \in K
    BY <1>2, <1>3, FiniteExtremes
  <2> QED
    BY <1>2, <2>1
<1> QED
  BY <1>4 DEF CubeRootCeiling

(* The marks of a sequence of bars are finitely many prices. *)
LEMMA MarksArePrices ==
    ASSUME NEW s \in Seq(Bars)
    PROVE  /\ IsFiniteSet(Marks(s))
           /\ \A m \in Marks(s) : m[3] \in Nat
<1> DEFINE Names == {"open", "close", "BUY", "SELL"}
           Price(i, name) ==
              IF name = "open" THEN s[i].o
              ELSE IF name = "close" THEN s[i].c ELSE Extreme(s, name, i)
           D == (DOMAIN s) \X Names
           mark == [z \in D |-> <<z[1], z[2], Price(z[1], z[2])>>]
           R == {mark[z] : z \in D}
<1>1. DOMAIN s = 1 .. Len(s) /\ Len(s) \in Nat /\ \A i \in DOMAIN s : s[i] \in Bars
  BY LenProperties, ElementOfSeq
<1>2. \A i \in DOMAIN s : \A name \in Names : Price(i, name) \in Nat
  BY <1>1 DEF Bars, Extreme
<1>3. IsFiniteSet(D)
  <2>1. IsFiniteSet(DOMAIN s)
    BY <1>1, FS_Interval
  <2>2. IsFiniteSet(Names)
    <3>1. IsFiniteSet({"open"})
      BY FS_Singleton
    <3>2. IsFiniteSet({"open"} \cup {"close"})
      BY <3>1, FS_AddElement
    <3>3. IsFiniteSet(({"open"} \cup {"close"}) \cup {"BUY"})
      BY <3>2, FS_AddElement
    <3>4. IsFiniteSet((({"open"} \cup {"close"}) \cup {"BUY"}) \cup {"SELL"})
      BY <3>3, FS_AddElement
    <3>5. Names = (({"open"} \cup {"close"}) \cup {"BUY"}) \cup {"SELL"}
      OBVIOUS
    <3> HIDE DEF Names
    <3> QED
      BY <3>4, <3>5
  <2> HIDE DEF Names
  <2> QED
    BY <2>1, <2>2, FS_Product
<1>4. \A m \in Marks(s) : \E i \in DOMAIN s : \E name \in Names : m = <<i, name, Price(i, name)>>
  <2> SUFFICES ASSUME NEW m \in Marks(s)
               PROVE  \E i \in DOMAIN s : \E name \in Names : m = <<i, name, Price(i, name)>>
    OBVIOUS
  <2>1. CASE \E i \in DOMAIN s : m = <<i, "open", s[i].o>>
    BY <2>1
  <2>2. CASE \E i \in DOMAIN s : m = <<i, "close", s[i].c>>
    BY <2>2
  <2>3. CASE \E i \in DOMAIN s : \E side \in Sides : m = <<i, side, Extreme(s, side, i)>>
    BY <2>3 DEF Sides
  <2> QED
    BY <2>1, <2>2, <2>3 DEF Marks
<1>5. Marks(s) \subseteq R
  <2> SUFFICES ASSUME NEW m \in Marks(s) PROVE m \in R
    OBVIOUS
  <2>1. PICK i \in DOMAIN s, name \in Names : m = <<i, name, Price(i, name)>>
    BY <1>4
  <2>2. <<i, name>> \in D /\ mark[<<i, name>>] = <<i, name, Price(i, name)>>
    OBVIOUS
  <2> QED
    BY <2>1, <2>2
<1>6. IsFiniteSet(R)
  <2>1. DOMAIN mark = D
    OBVIOUS
  <2> HIDE DEF mark, D
  <2> QED
    BY <1>3, <2>1, RangeIsFinite
<1>7. IsFiniteSet(Marks(s))
  <2> HIDE DEF R
  <2> QED
    BY <1>5, <1>6, FS_Subset
<1>8. ASSUME NEW m \in Marks(s) PROVE m[3] \in Nat
  <2>1. PICK i \in DOMAIN s, name \in Names : m = <<i, name, Price(i, name)>>
    BY <1>4
  <2>2. PICK p \in Nat : p = Price(i, name)
    BY <1>2
  <2>3. m = <<i, name, p>>
    BY <2>1, <2>2
  <2> QED
    BY <2>3
<1> QED
  BY <1>7, <1>8

(* The bin of a price grows with the price. *)
LEMMA BinsInOrder ==
    ASSUME NEW low \in Nat, NEW span \in Nat \ {0}, NEW bins \in Nat \ {0},
           NEW p \in Nat, NEW q \in Nat, low <= p, p <= q
    PROVE  /\ BinIndex(p, low, span, bins) \in Nat
           /\ BinIndex(p, low, span, bins) <= BinIndex(q, low, span, bins)
<1>0. ASSUME NEW d \in Nat, NEW e \in Nat
      PROVE  Min({d, e}) = IF d <= e THEN d ELSE e
  <2>1. d \in Int /\ e \in Int
    OBVIOUS
  <2> QED
    BY <2>1, ExtremesOfIds
<1>1. PICK a \in Nat : a = (p - low) * bins
  BY Z3
<1>2. PICK b \in Nat : b = (q - low) * bins /\ a <= b
  <2>1. PICK k \in Nat : q - low = p - low + k
    <3>1. q - p \in Nat /\ q - low = p - low + (q - p)
      OBVIOUS
    <3> QED
      BY <3>1
  <2>2. (q - low) * bins = a + k * bins /\ k * bins \in Nat
    BY <1>1, <2>1, Z3
  <2> QED
    BY <2>2
<1>3. PICK x \in Nat, y \in Nat : x = a \div span /\ y = b \div span /\ x <= y
  BY <1>2, DivisionKeepsOrder
<1>4. PICK c \in Nat : c = bins - 1
  OBVIOUS
<1>5. /\ Min({x, c}) = IF x <= c THEN x ELSE c
      /\ Min({y, c}) = IF y <= c THEN y ELSE c
  BY <1>0
<1>6. /\ BinIndex(p, low, span, bins) = IF x <= c THEN x ELSE c
      /\ BinIndex(q, low, span, bins) = IF y <= c THEN y ELSE c
  BY <1>1, <1>2, <1>3, <1>4, <1>5 DEF BinIndex
<1> QED
  BY <1>3, <1>6

(* Prices of a lower bin lie below those of a higher one, so zones are apart. *)
LEMMA ZonesAreApart ==
    ASSUME NEW s \in Seq(Bars)
    PROVE  \A y, z \in Zones(s) : y = z \/ y.high < z.low \/ z.high < y.low
<1> DEFINE M == Marks(Selected(s))
<1>1. IsFiniteSet(M) /\ \A m \in M : m[3] \in Nat
  <2> DEFINE I(kept) == {i \in DOMAIN s : DateOf(s[i]) \in kept}
  <2>1. PICK kept : Selected(s) = Chosen(s, I(kept))
    BY DEF Selected
  <2>2. I(kept) \subseteq DOMAIN s
    OBVIOUS
  <2> HIDE DEF I
  <2>3. Selected(s) \in Seq(Bars)
    BY <2>1, <2>2, ChosenInOrder
  <2> QED
    BY <2>3, MarksArePrices
<1> DEFINE P == {m[3] : m \in M}
           low == Min(P)
           span == Max(P) - low
           bins == CubeRootCeiling(Cardinality(M))
           bin(k) == {m \in M : BinIndex(m[3], low, span, bins) = k}
           pricesOf(k) == {m[3] : m \in bin(k)}
           touchedBy(k) == {m[1] : m \in bin(k)}
           touched == {k \in 0 .. bins - 1 : Cardinality(touchedBy(k)) >= MinTouches}
           zone(k) == [low |-> Min(pricesOf(k)), high |-> Max(pricesOf(k))]
<1>2. Zones(s) = IF Cardinality(Dates(s)) < RequiredDates(s) \/ span = 0 THEN {}
                 ELSE {zone(k) : k \in touched}
  BY DEF Zones
<1> HIDE DEF M
<1>3. ASSUME NEW S \in SUBSET M
      PROVE  IsFiniteSet({m[3] : m \in S}) /\ {m[3] : m \in S} \subseteq Nat
  <2> DEFINE price == [m \in S |-> m[3]]
             R == {price[m] : m \in S}
  <2>1. IsFiniteSet(R)
    <3>1. IsFiniteSet(S) /\ DOMAIN price = S
      BY <1>1, FS_Subset
    <3> HIDE DEF price
    <3> QED
      BY <3>1, RangeIsFinite
  <2>2. R = {m[3] : m \in S}
    OBVIOUS
  <2> HIDE DEF R
  <2> QED
    BY <1>1, <2>1, <2>2
<1>4. ASSUME span # 0, NEW k \in touched, NEW l \in touched, k < l
      PROVE  zone(k).high < zone(l).low
  <2>1. ASSUME NEW t \in touched PROVE pricesOf(t) # {}
    <3>1. bin(t) # {}
      <4> SUFFICES ASSUME bin(t) = {} PROVE FALSE
        OBVIOUS
      <4>1. touchedBy(t) = {}
        <5> HIDE DEF bin
        <5> QED
          OBVIOUS
      <4>2. Cardinality(touchedBy(t)) = 0
        <5> HIDE DEF touchedBy
        <5> QED
          BY <4>1, FS_EmptySet
      <4>3. MinTouches \in Nat \ {0}
        BY SignalsAssumption DEF SignalsAssumption
      <4>4. Cardinality(touchedBy(t)) >= MinTouches
        BY <2>1
      <4> HIDE DEF touchedBy
      <4> QED
        BY <4>2, <4>3, <4>4
    <3> HIDE DEF bin
    <3> QED
      BY <3>1
  <2>2. M # {}
    BY <1>4, <2>1
  <2>3. IsFiniteSet(P) /\ P \subseteq Nat /\ P # {}
    BY <1>3, <2>2
  <2>4. low \in Nat /\ Max(P) \in Nat /\ \A p \in P : low <= p /\ p <= Max(P)
    <3> HIDE DEF P
    <3>1. /\ Max(P) \in P /\ \A y \in P : y <= Max(P)
          /\ Min(P) \in P /\ \A y \in P : Min(P) <= y
      BY <2>3, FiniteExtremes
    <3> QED
      BY <2>3, <3>1
  <2>5. PICK lo \in Nat : lo = low
    BY <2>4
  <2>6. PICK width \in Nat \ {0} : width = span
    <3>1. PICK hi \in Nat : hi = Max(P)
      BY <2>4
    <3>2. lo <= hi
      <4>1. PICK p \in P : p \in Nat
        BY <2>3
      <4>2. lo <= p /\ p <= hi
        <5> HIDE DEF P
        <5> QED
          BY <2>4, <2>5, <3>1
      <4> HIDE DEF P
      <4> QED
        BY <4>1, <4>2
    <3>3. span = hi - lo /\ hi - lo # 0
      BY <1>4, <2>5, <3>1
    <3> HIDE DEF span
    <3> QED
      BY <3>2, <3>3
  <2>7. PICK count \in Nat \ {0} : count = bins
    <3>1. Cardinality(M) \in Nat \ {0}
      BY <1>1, <2>2, FS_CardinalityType, FS_EmptySet
    <3> QED
      BY <3>1, SomeBins
  <2>8. ASSUME NEW p \in pricesOf(k), NEW q \in pricesOf(l) PROVE p < q
    <3>1. p \in P /\ q \in P /\ p \in Nat /\ q \in Nat
      BY <2>3
    <3>2. /\ BinIndex(p, lo, width, count) = k /\ BinIndex(q, lo, width, count) = l
      <4> HIDE DEF low, span, bins
      <4> QED
        BY <2>5, <2>6, <2>7, <2>8
    <3>3. lo <= q
      BY <2>4, <2>5, <3>1
    <3> HIDE DEF P, pricesOf, bin
    <3>4. ASSUME q <= p PROVE FALSE
      <4>1. l <= k
        BY <3>1, <3>2, <3>3, <3>4, BinsInOrder
      <4>2. k \in Int /\ l \in Int
        <5>1. k \in 0 .. bins - 1 /\ l \in 0 .. bins - 1
          OBVIOUS
        <5> HIDE DEF bins, touched
        <5> QED
          BY <2>7, <5>1
      <4> HIDE DEF touched
      <4> QED
        BY <1>4, <4>1, <4>2
    <3> QED
      BY <3>1, <3>4
  <2>9. /\ Max(pricesOf(k)) \in pricesOf(k) /\ Min(pricesOf(l)) \in pricesOf(l)
    <3>1. bin(k) \in SUBSET M /\ bin(l) \in SUBSET M
      OBVIOUS
    <3>2. /\ IsFiniteSet(pricesOf(k)) /\ pricesOf(k) \subseteq Nat
          /\ IsFiniteSet(pricesOf(l)) /\ pricesOf(l) \subseteq Nat
      <4> HIDE DEF bin
      <4> QED
        BY <1>3, <3>1
    <3> HIDE DEF pricesOf, touched
    <3> QED
      BY <2>1, <3>2, FiniteExtremes
  <2> HIDE DEF pricesOf
  <2> QED
    BY <2>8, <2>9
<1> SUFFICES ASSUME NEW y \in Zones(s), NEW z \in Zones(s)
             PROVE  y = z \/ y.high < z.low \/ z.high < y.low
  OBVIOUS
<1>5. span # 0 /\ y \in {zone(k) : k \in touched} /\ z \in {zone(k) : k \in touched}
  <2> HIDE DEF span, zone, touched
  <2> QED
    BY <1>2
<1>6. PICK k \in touched, l \in touched : y = zone(k) /\ z = zone(l)
  <2> HIDE DEF zone, touched
  <2> QED
    BY <1>5
<1>7. k = l \/ k < l \/ l < k
  <2>1. k \in 0 .. bins - 1 /\ l \in 0 .. bins - 1
    OBVIOUS
  <2> HIDE DEF bins, touched
  <2> QED
    BY <2>1
<1> HIDE DEF zone, touched, span
<1> QED
  BY <1>4, <1>5, <1>6, <1>7

(* A fold that takes the latest first goes from the front to the end. *)
TakesLatest(j, n, X, b, step) ==
    /\ j[{}] = b
    /\ \A r \in SUBSET (1 .. n) : r # {} =>
          (j[r \ {Max(r)}] \in X => j[r] = step[<<j[r \ {Max(r)}], Max(r)>>])
RunsOver(f, j, n, b, step) ==
    /\ f[0] = b /\ j[1 .. n] = f[n]
    /\ \A m \in 1 .. n : f[m] = step[<<f[m - 1], m>>]
(* So it is what a run of the step over 1 .. n ends with. *)
LEMMA FoldRuns ==
    ASSUME NEW n \in Nat, NEW X, NEW b \in X, NEW step \in [X \X (1 .. n) -> X], NEW j,
           TakesLatest(j, n, X, b, step)
    PROVE  \E f \in [0 .. n -> X] : RunsOver(f, j, n, b, step)
<1>0. /\ j[{}] = b
      /\ \A r \in SUBSET (1 .. n) : r # {} =>
            (j[r \ {Max(r)}] \in X => j[r] = step[<<j[r \ {Max(r)}], Max(r)>>])
  BY DEF TakesLatest
<1>1. ASSUME NEW m \in 1 .. n, j[1 .. m - 1] \in X
      PROVE  j[1 .. m] = step[<<j[1 .. m - 1], m>>] /\ j[1 .. m] \in X
  <2>1. /\ 1 .. m \in SUBSET (1 .. n) /\ Max(1 .. m) = m /\ 1 .. m # {}
        /\ (1 .. m) \ {m} = 1 .. m - 1
    <3>1. m \in 0 .. n /\ m > 0
      OBVIOUS
    <3> QED
      BY <3>1, LatestTakes
  <2>2. j[(1 .. m) \ {Max(1 .. m)}] \in X
        => j[1 .. m] = step[<<j[(1 .. m) \ {Max(1 .. m)}], Max(1 .. m)>>]
    BY <1>0, <2>1, Zenon
  <2>3. j[1 .. m] = step[<<j[1 .. m - 1], m>>]
    BY <1>1, <2>1, <2>2, Zenon
  <2>4. <<j[1 .. m - 1], m>> \in X \X (1 .. n)
    BY <1>1
  <2> QED
    BY <2>3, <2>4
<1> DEFINE T == {m \in Nat : m <= n => j[1 .. m] \in X}
<1>2. \A m \in Nat : m \in T
  <2>1. 0 \in T
    <3>1. 1 .. 0 = {}
      OBVIOUS
    <3> QED
      BY <1>0, <3>1
  <2>2. ASSUME NEW m \in Nat, m \in T PROVE m + 1 \in T
    <3> SUFFICES ASSUME m + 1 <= n PROVE j[1 .. m + 1] \in X
      OBVIOUS
    <3>1. PICK l \in 1 .. n : l = m + 1 /\ l - 1 = m
      OBVIOUS
    <3>2. j[1 .. l - 1] \in X
      <4>1. j[1 .. m] \in X
        BY <2>2
      <4> QED
        BY <3>1, <4>1, Zenon
    <3>3. j[1 .. l] \in X
      BY <1>1, <3>2
    <3> QED
      BY <3>1, <3>3, Zenon
  <2> HIDE DEF T
  <2> QED
    BY <2>1, <2>2, EveryNumber
<1> DEFINE f == [m \in 0 .. n |-> j[1 .. m]]
<1>3. f \in [0 .. n -> X]
  BY <1>2
<1>4. f[0] = b
  <2>1. 1 .. 0 = {} /\ f[0] = j[1 .. 0]
    OBVIOUS
  <2> QED
    BY <1>0, <2>1, Zenon
<1>5. ASSUME NEW m \in 1 .. n PROVE f[m] = step[<<f[m - 1], m>>]
  <2>1. m - 1 \in Nat /\ m - 1 <= n
    OBVIOUS
  <2>2. j[1 .. m - 1] \in X
    BY <1>2, <2>1
  <2>3. f[m] = j[1 .. m] /\ f[m - 1] = j[1 .. m - 1]
    BY <2>1
  <2> QED
    BY <1>1, <2>2, <2>3, Zenon
<1>6. f[n] = j[1 .. n]
  OBVIOUS
<1> HIDE DEF f
<1> QED
  BY <1>3, <1>4, <1>5, <1>6 DEF RunsOver

(* The notional of prints is a number. *)
NotionalFold(i, e) ==
    i = [r \in SUBSET (DOMAIN e) |->
           IF r = {} THEN 0 ELSE i[r \ {Max(r)}] + Notional(e[Max(r)])]
(* Notionals are numbers, and so is what they add up to. *)
LEMMA NotionalIsNumber ==
    ASSUME NEW e \in Seq(Prints)
    PROVE  SumOf(Notional, e) \in Nat
<1>1. SumOf(Notional, e) = (CHOOSE i : NotionalFold(i, e))[DOMAIN e]
  BY DEF SumOf, FoldLeft, MapThenFoldSet, NotionalFold
<1>2. PICK n \in Nat : DOMAIN e = 1 .. n /\ \A m \in 1 .. n : Notional(e[m]) \in Nat
  <2>1. DOMAIN e = 1 .. Len(e) /\ Len(e) \in Nat /\ \A m \in 1 .. Len(e) : e[m] \in Prints
    BY LenProperties, ElementOfSeq
  <2>2. \A p \in Prints : Notional(p) \in Nat
    <3> SUFFICES ASSUME NEW p \in Prints PROVE Notional(p) \in Nat
      OBVIOUS
    <3>1. PICK a \in Nat, c \in Nat : a = p.price /\ c = p.qty
      BY DEF Prints
    <3>2. a * c \in Nat
      BY Z3
    <3> QED
      BY <3>1, <3>2 DEF Notional
  <2> QED
    BY <2>1, <2>2
<1> DEFINE D == 1 .. n
           step == [z \in Nat \X D |-> z[1] + Notional(e[z[2]])]
<1>3. step \in [Nat \X D -> Nat]
  BY <1>2
<1>4. PICK i \in [SUBSET D -> Nat] : FoldsFrom(i, D, 0, Latest(n), step)
  <2>1. IsFiniteSet(D)
    BY FS_Interval
  <2> HIDE DEF step
  <2> QED
    BY <1>3, <2>1, LatestTakes, FoldExists
<1>5. NotionalFold(i, e)
  <2>1. ASSUME NEW r \in SUBSET D, r # {}
        PROVE  i[r] = i[r \ {Max(r)}] + Notional(e[Max(r)])
    <3>1. Latest(n)[r] = Max(r) /\ Latest(n)[r] \in D
      BY <2>1, LatestTakes DEF Latest, TakesFrom
    <3>2. i[r] = step[<<i[r \ {Max(r)}], Max(r)>>]
      BY <1>4, <2>1, <3>1 DEF FoldsFrom
    <3>3. i[r \ {Max(r)}] \in Nat /\ Max(r) \in D
      BY <1>4, <3>1
    <3> HIDE DEF D
    <3> QED
      BY <3>2, <3>3
  <2>2. i[{}] = 0
    BY <1>4 DEF FoldsFrom
  <2> HIDE DEF step
  <2> QED
    BY <1>2, <1>4, <2>1, <2>2 DEF NotionalFold
<1>6. PICK j : j = (CHOOSE k : NotionalFold(k, e)) /\ NotionalFold(j, e)
  BY <1>5, Zenon
<1>7. j[{}] = 0 /\ \A r \in SUBSET D : r # {} => j[r] = j[r \ {Max(r)}] + Notional(e[Max(r)])
  <2> HIDE DEF step
  <2>1. {} \in SUBSET D
    OBVIOUS
  <2> QED
    BY <1>2, <1>6, <2>1, Zenon DEF NotionalFold
<1>8. TakesLatest(j, n, Nat, 0, step)
  <2> SUFFICES ASSUME NEW r \in SUBSET D, r # {}, j[r \ {Max(r)}] \in Nat
               PROVE  j[r] = step[<<j[r \ {Max(r)}], Max(r)>>]
    BY <1>7 DEF TakesLatest
  <2>1. Latest(n)[r] = Max(r) /\ Latest(n)[r] \in D
    BY LatestTakes DEF Latest, TakesFrom
  <2>2. PICK a \in Nat, m \in D : a = j[r \ {Max(r)}] /\ m = Max(r)
    BY <2>1
  <2>3. step[<<a, m>>] = a + Notional(e[m])
    OBVIOUS
  <2> HIDE DEF step
  <2> QED
    BY <1>7, <2>2, <2>3
<1>9. j[D] \in Nat
  <2> HIDE DEF step
  <2>1. 0 \in Nat /\ step \in [Nat \X (1 .. n) -> Nat]
    BY <1>3
  <2>2. PICK f \in [0 .. n -> Nat] : RunsOver(f, j, n, 0, step)
    BY <1>8, <2>1, FoldRuns, Zenon
  <2>3. n \in 0 .. n
    OBVIOUS
  <2> QED
    BY <2>2, <2>3 DEF RunsOver
<1> QED
  BY <1>1, <1>2, <1>6, <1>9

(* Events are sequences of prints, joined one print after the other. *)
EventStep(events, p) ==
    IF events # <<>> /\ Joins(Last(events), p)
    THEN Append(Front(events), Append(Last(events), p))
    ELSE Append(events, <<p>>)
EventFold(i, s) ==
    i = [r \in SUBSET (DOMAIN s) |->
           IF r = {} THEN <<>> ELSE EventStep(i[r \ {Max(r)}], s[Max(r)])]
(* An event stays a sequence of prints when a print joins it. *)
LEMMA EventsAreSequences ==
    ASSUME NEW s \in Seq(Prints)
    PROVE  Events(s) \in Seq(Seq(Prints))
<1>1. Events(s) = (CHOOSE i : EventFold(i, s))[DOMAIN s]
  BY DEF Events, FoldLeft, MapThenFoldSet, EventFold, EventStep
<1>2. PICK n \in Nat : DOMAIN s = 1 .. n /\ \A m \in 1 .. n : s[m] \in Prints
  BY LenProperties, ElementOfSeq
<1>3. PICK X : X = Seq(Seq(Prints)) /\ <<>> \in X
  BY EmptySeq
<1>4. ASSUME NEW events \in X, NEW p \in Prints
      PROVE  EventStep(events, p) \in X
  <2>1. events \in Seq(Seq(Prints)) /\ <<p>> \in Seq(Prints)
    BY <1>3
  <2>2. CASE events # <<>> /\ Joins(Last(events), p)
    <3>1. PICK k \in Nat : Len(events) = k + 1
      <4>1. Len(events) \in Nat /\ Len(events) # 0
        BY <2>1, <2>2, LenProperties, EmptySeq
      <4>2. Len(events) - 1 \in Nat /\ Len(events) = Len(events) - 1 + 1
        BY <4>1
      <4> QED
        BY <4>2
    <3>2. events[k + 1] \in Seq(Prints)
      <4>1. k + 1 \in 1 .. Len(events)
        BY <3>1
      <4> QED
        BY <2>1, <4>1, ElementOfSeq
    <3>3. Append(Last(events), p) \in Seq(Prints)
      <4>1. Last(events) \in Seq(Prints)
        BY <3>1, <3>2 DEF Last
      <4> QED
        BY <4>1, AppendProperties
    <3>4. Front(events) \in Seq(Seq(Prints))
      <4>1. Front(events) = SubSeq(events, 1, k)
        BY <3>1 DEF Front
      <4>2. \A m \in 1 .. k : events[m] \in Seq(Prints)
        <5> SUFFICES ASSUME NEW m \in 1 .. k PROVE events[m] \in Seq(Prints)
          OBVIOUS
        <5>1. m \in 1 .. Len(events)
          BY <3>1
        <5> QED
          BY <2>1, <5>1, ElementOfSeq
      <4> QED
        BY <2>1, <4>1, <4>2
    <3> QED
      BY <1>3, <2>2, <3>3, <3>4, AppendProperties DEF EventStep
  <2>3. CASE ~ (events # <<>> /\ Joins(Last(events), p))
    BY <1>3, <2>1, <2>3, AppendProperties DEF EventStep
  <2> QED
    BY <2>2, <2>3
<1> DEFINE D == 1 .. n
           step == [z \in X \X D |-> EventStep(z[1], s[z[2]])]
<1>5. step \in [X \X D -> X]
  BY <1>2, <1>4
<1>6. PICK i \in [SUBSET D -> X] : FoldsFrom(i, D, <<>>, Latest(n), step)
  <2>1. IsFiniteSet(D)
    BY FS_Interval
  <2> HIDE DEF step
  <2> QED
    BY <1>3, <1>5, <2>1, LatestTakes, FoldExists
<1>7. EventFold(i, s)
  <2>1. ASSUME NEW r \in SUBSET D, r # {}
        PROVE  i[r] = EventStep(i[r \ {Max(r)}], s[Max(r)])
    <3>1. Latest(n)[r] = Max(r) /\ Latest(n)[r] \in D
      BY <2>1, LatestTakes DEF Latest, TakesFrom
    <3>2. i[r] = step[<<i[r \ {Max(r)}], Max(r)>>]
      BY <1>6, <2>1, <3>1 DEF FoldsFrom
    <3>3. i[r \ {Max(r)}] \in X /\ Max(r) \in D
      BY <1>6, <3>1
    <3> HIDE DEF D
    <3> QED
      BY <3>2, <3>3
  <2>2. i[{}] = <<>>
    BY <1>6 DEF FoldsFrom
  <2> HIDE DEF step
  <2> QED
    BY <1>2, <1>6, <2>1, <2>2 DEF EventFold
<1>8. PICK j : j = (CHOOSE k : EventFold(k, s)) /\ EventFold(j, s)
  BY <1>7, Zenon
<1>9. j[{}] = <<>> /\ \A r \in SUBSET D : r # {} => j[r] = EventStep(j[r \ {Max(r)}], s[Max(r)])
  <2> HIDE DEF step
  <2>1. {} \in SUBSET D
    OBVIOUS
  <2> QED
    BY <1>2, <1>8, <2>1, Zenon DEF EventFold
<1>10. TakesLatest(j, n, X, <<>>, step)
  <2> SUFFICES ASSUME NEW r \in SUBSET D, r # {}, j[r \ {Max(r)}] \in X
               PROVE  j[r] = step[<<j[r \ {Max(r)}], Max(r)>>]
    BY <1>9 DEF TakesLatest
  <2>1. Latest(n)[r] = Max(r) /\ Latest(n)[r] \in D
    BY LatestTakes DEF Latest, TakesFrom
  <2>2. PICK a \in X, m \in D : a = j[r \ {Max(r)}] /\ m = Max(r)
    BY <2>1
  <2>3. step[<<a, m>>] = EventStep(a, s[m])
    OBVIOUS
  <2> HIDE DEF step
  <2> QED
    BY <1>9, <2>2, <2>3
<1>11. j[D] \in X
  <2> HIDE DEF step
  <2>1. step \in [X \X (1 .. n) -> X]
    BY <1>5
  <2>2. PICK f \in [0 .. n -> X] : RunsOver(f, j, n, <<>>, step)
    BY <1>3, <1>10, <2>1, FoldRuns, Zenon
  <2>3. n \in 0 .. n
    OBVIOUS
  <2> QED
    BY <2>2, <2>3 DEF RunsOver
<1> QED
  BY <1>1, <1>2, <1>3, <1>8, <1>11

(* What a quantile answers is one of its values. *)
LEMMA QuantileIsHeld ==
    ASSUME NEW n \in Nat \ {0}, NEW v \in [1 .. n -> Nat], NEW percent \in 1 .. 100
    PROVE  Quantile(v, percent) \in Nat
<1> DEFINE under(k) == {j \in 1 .. n : v[j] <= v[k]}
           K == {k \in 1 .. n : 100 * Cardinality(under(k)) >= percent * n}
           V == {v[k] : k \in K}
<1>1. v \in Seq(Nat) /\ Len(v) = n /\ DOMAIN v = 1 .. n
  BY LenProperties
<1>2. Quantile(v, percent) = Min(V)
  BY <1>1 DEF Quantile
<1>3. IsFiniteSet(1 .. n) /\ Cardinality(1 .. n) = n
  BY FS_Interval
<1>4. PICK k \in 1 .. n : \A j \in 1 .. n : v[j] <= v[k]
  <2> DEFINE R == {v[j] : j \in 1 .. n}
  <2>1. IsFiniteSet(R)
    <3>1. DOMAIN v = 1 .. n
      OBVIOUS
    <3> QED
      BY <1>3, <3>1, RangeIsFinite
  <2>2. R \subseteq Nat /\ v[1] \in R
    OBVIOUS
  <2>3. PICK x \in R : \A y \in R : y <= x
    <3> HIDE DEF R
    <3> QED
      BY <2>1, <2>2, FiniteHasGreatest
  <2> QED
    BY <2>3
<1>5. k \in K
  <2>1. under(k) = 1 .. n
    BY <1>4
  <2>2. Cardinality(under(k)) = n
    BY <1>3, <2>1
  <2>3. percent * n <= 100 * n
    <3>1. PICK c \in Nat : 100 = percent + c
      <4>1. 100 - percent \in Nat /\ 100 = percent + (100 - percent)
        OBVIOUS
      <4> QED
        BY <4>1
    <3>2. 100 * n = percent * n + c * n /\ c * n \in Nat /\ percent * n \in Nat
      BY <3>1, Z3
    <3> QED
      BY <3>2
  <2>4. percent * n \in Nat /\ 100 * n \in Nat
    BY Z3
  <2> HIDE DEF under
  <2> QED
    BY <2>2, <2>3, <2>4
<1>6. V \subseteq Nat /\ V # {}
  <2> HIDE DEF under
  <2> QED
    BY <1>5
<1>7. Min(V) \in V
  <2> HIDE DEF V
  <2>1. PICK z \in V : \A y \in V : z <= y
    BY <1>6, LeastElement
  <2> QED
    BY <2>1, Zenon DEF Min
<1> HIDE DEF V
<1> QED
  BY <1>2, <1>6, <1>7

(* The marked events are within the cap, and none left out is bigger. *)
LEMMA BiggestAreMarked ==
    ASSUME NEW events \in Seq(Seq(Prints))
    PROVE  /\ Cardinality(BigTrades(events)) <= MaxMarkers
           /\ \A i \in BigTrades(events), j \in DOMAIN events \ BigTrades(events) :
                 EventNotional(events[j]) <= EventNotional(events[i])
<1>1. PICK n \in Nat : /\ n = Len(events) /\ DOMAIN events = 1 .. n
                       /\ \A i \in 1 .. n : events[i] \in Seq(Prints)
  BY LenProperties, ElementOfSeq
<1>2. PICK v \in [1 .. n -> Nat] : \A i \in 1 .. n : v[i] = EventNotional(events[i])
  <2>1. \A i \in 1 .. n : EventNotional(events[i]) \in Nat
    BY <1>1, NotionalIsNumber DEF EventNotional
  <2>2. [i \in 1 .. n |-> EventNotional(events[i])] \in [1 .. n -> Nat]
    BY <2>1
  <2> QED
    BY <2>2
<1>3. MaxMarkers \in Nat /\ NormalRank \in 1 .. 100
  BY SignalsAssumption DEF SignalsAssumption
<1>4. CASE ~ Measured(events) \/ events = <<>>
  <2>1. BigTrades(events) = {}
    BY <1>4, Zenon DEF BigTrades
  <2>2. Cardinality(BigTrades(events)) = 0
    BY <2>1, FS_EmptySet
  <2>3. \A i \in BigTrades(events) : FALSE
    BY <2>1
  <2> QED
    BY <1>3, <2>2, <2>3
<1>5. CASE Measured(events) /\ events # <<>>
  <2> DEFINE normal == Quantile(Notionals(events), NormalRank)
             above == {i \in 1 .. n : v[i] >= normal}
             bigger(i) == {j \in above : Bigger(events, j, i)}
             rank(i) == Cardinality(bigger(i))
             marked == {i \in above : rank(i) < MaxMarkers}
  <2>1. BigTrades(events) = marked
    <3> DEFINE over == {i \in DOMAIN events : EventNotional(events[i]) >= normal}
    <3>1. BigTrades(events)
            = {i \in over : Cardinality({j \in over : Bigger(events, j, i)}) < MaxMarkers}
      BY <1>5, Zenon DEF BigTrades
    <3>2. over = above
      BY <1>1, <1>2
    <3> HIDE DEF over, above
    <3> QED
      BY <3>1, <3>2
  <2>2. normal \in Nat
    <3>1. n \in Nat \ {0}
      BY <1>1, <1>5, EmptySeq
    <3>2. Notionals(events) = v
      BY <1>1, <1>2 DEF Notionals
    <3> QED
      BY <1>3, <3>1, <3>2, QuantileIsHeld
  <2> HIDE DEF normal
  <2>3. \A i, j \in 1 .. n : Bigger(events, i, j) <=> v[i] > v[j] \/ (v[i] = v[j] /\ i > j)
    BY <1>2 DEF Bigger
  <2>4. IsFiniteSet(above) /\ above \subseteq 1 .. n
    <3>1. IsFiniteSet(1 .. n) /\ above \subseteq 1 .. n
      BY FS_Interval
    <3> HIDE DEF above
    <3> QED
      BY <3>1, FS_Subset
  <2>5. ASSUME NEW i \in 1 .. n
        PROVE  IsFiniteSet(bigger(i)) /\ bigger(i) \subseteq above /\ rank(i) \in Nat
    <3>1. bigger(i) \subseteq above
      OBVIOUS
    <3> HIDE DEF bigger, above
    <3> QED
      BY <2>4, <3>1, FS_Subset, FS_CardinalityType
  (* Whoever is bigger has the lower rank. *)
  <2>6. ASSUME NEW i \in above, NEW j \in above, Bigger(events, i, j)
        PROVE  rank(i) < rank(j)
    <3>1. i \in 1 .. n /\ j \in 1 .. n
      BY <2>4
    <3>2. bigger(i) \subseteq bigger(j)
      <4> SUFFICES ASSUME NEW k \in above, Bigger(events, k, i) PROVE Bigger(events, k, j)
        OBVIOUS
      <4>1. k \in 1 .. n
        BY <2>4
      <4> HIDE DEF above
      <4>2. v[k] \in Nat /\ v[i] \in Nat /\ v[j] \in Nat
        BY <3>1, <4>1
      <4>3. v[k] > v[i] \/ (v[k] = v[i] /\ k > i)
        BY <2>3, <3>1, <4>1
      <4>4. v[i] > v[j] \/ (v[i] = v[j] /\ i > j)
        BY <2>3, <2>6, <3>1
      <4>5. v[k] > v[j] \/ (v[k] = v[j] /\ k > j)
        BY <3>1, <4>1, <4>2, <4>3, <4>4
      <4> QED
        BY <2>3, <3>1, <4>1, <4>5
    <3>3. i \in bigger(j) /\ i \notin bigger(i)
      <4>1. ~ Bigger(events, i, i)
        <5>1. v[i] \in Nat
          BY <3>1
        <5> HIDE DEF above
        <5> QED
          BY <2>3, <3>1, <5>1
      <4> QED
        BY <2>6, <4>1
    <3>4. IsFiniteSet(bigger(i)) /\ IsFiniteSet(bigger(j)) /\ rank(i) \in Nat /\ rank(j) \in Nat
      BY <2>5, <3>1
    <3> HIDE DEF bigger, above
    <3>5. /\ Cardinality(bigger(i)) <= Cardinality(bigger(j))
          /\ Cardinality(bigger(j)) # Cardinality(bigger(i))
      BY <3>2, <3>3, <3>4, FS_Subset
    <3> QED
      BY <3>4, <3>5
  <2>7. ASSUME NEW i \in above, NEW j \in above, i # j
        PROVE  Bigger(events, i, j) \/ Bigger(events, j, i)
    <3>1. i \in 1 .. n /\ j \in 1 .. n
      BY <2>4
    <3>2. v[i] \in Nat /\ v[j] \in Nat
      BY <3>1
    <3> HIDE DEF above
    <3> QED
      BY <2>3, <2>7, <3>1, <3>2
  <2>8. Cardinality(marked) <= MaxMarkers
    <3> DEFINE ranks == [i \in marked |-> rank(i)]
    <3>1. ranks \in Injection(marked, 0 .. MaxMarkers - 1)
      <4>1. \A i \in marked : rank(i) \in 0 .. MaxMarkers - 1
        <5> SUFFICES ASSUME NEW i \in marked PROVE rank(i) \in 0 .. MaxMarkers - 1
          OBVIOUS
        <5>1. i \in 1 .. n /\ rank(i) < MaxMarkers
          BY <2>4
        <5>2. rank(i) \in Nat
          BY <2>5, <5>1
        <5> HIDE DEF rank, marked
        <5> QED
          BY <1>3, <5>1, <5>2
      <4>2. ASSUME NEW i \in marked, NEW j \in marked, rank(i) = rank(j) PROVE i = j
        <5>1. i \in above /\ j \in above /\ i \in 1 .. n /\ j \in 1 .. n
          BY <2>4
        <5>2. rank(i) \in Nat /\ rank(j) \in Nat
          BY <2>5, <5>1
        <5> HIDE DEF rank, above, marked
        <5> QED
          BY <2>6, <2>7, <4>2, <5>1, <5>2
      <4>3. /\ ranks \in [marked -> 0 .. MaxMarkers - 1]
            /\ \A i \in marked : ranks[i] = rank(i)
        <5> HIDE DEF rank, marked
        <5> QED
          BY <4>1
      <4>4. \A i, j \in marked : ranks[i] = ranks[j] => i = j
        <5> HIDE DEF rank, marked, ranks
        <5> QED
          BY <4>2, <4>3
      <4> HIDE DEF ranks, marked
      <4> QED
        BY <4>3, <4>4 DEF Injection, IsInjective
    <3>2. IsFiniteSet(0 .. MaxMarkers - 1) /\ Cardinality(0 .. MaxMarkers - 1) = MaxMarkers
      <4>1. PICK m \in Int : m = MaxMarkers - 1
        BY <1>3
      <4>2. IsFiniteSet(0 .. m) /\ Cardinality(0 .. m) = IF 0 > m THEN 0 ELSE m - 0 + 1
        BY FS_Interval
      <4> QED
        BY <1>3, <4>1, <4>2
    <3> HIDE DEF ranks, marked
    <3> QED
      BY <3>1, <3>2, FS_Injection
  <2>9. ASSUME NEW i \in marked, NEW j \in (1 .. n) \ marked PROVE v[j] <= v[i]
    <3>1. i \in above /\ i \in 1 .. n /\ v[i] \in Nat /\ v[j] \in Nat /\ v[i] >= normal
      BY <2>4
    <3>2. CASE j \notin above
      BY <2>2, <3>1, <3>2
    <3>3. CASE j \in above
      <4>1. rank(i) < MaxMarkers /\ ~ (rank(j) < MaxMarkers)
        BY <2>9, <3>3
      <4>2. rank(i) \in Nat /\ rank(j) \in Nat
        BY <2>5, <3>1
      <4>3. ~ Bigger(events, j, i)
        <5> HIDE DEF rank, above, marked
        <5> QED
          BY <1>3, <2>6, <3>1, <3>3, <4>1, <4>2
      <4> HIDE DEF rank, above, marked
      <4> QED
        BY <2>3, <3>1, <4>3
    <3> QED
      BY <3>2, <3>3
  <2>10. ASSUME NEW i \in BigTrades(events), NEW j \in DOMAIN events \ BigTrades(events)
         PROVE  EventNotional(events[j]) <= EventNotional(events[i])
    <3>1. i \in marked /\ j \in (1 .. n) \ marked
      BY <1>1, <2>1
    <3>2. i \in 1 .. n
      BY <3>1, <2>4
    <3> HIDE DEF marked
    <3> QED
      BY <1>2, <2>9, <3>1, <3>2
  <2> HIDE DEF marked
  <2> QED
    BY <2>1, <2>8, <2>10
<1> QED
  BY <1>4, <1>5

(* The levels of a tape that is not empty, in their order. *)
LEMMA LevelsOfTape ==
    ASSUME NEW s \in Seq(Prints), s # <<>>
    PROVE  /\ RoundToBucket(Last(s).price) \in Nat
           /\ \E n \in Nat \ {0} :
                 /\ Levels(s) \in [1 .. n -> Nat] /\ Levels(s) \in Seq(Nat) /\ Len(Levels(s)) = n
                 /\ \A i, j \in 1 .. n : i < j => Levels(s)[i] < Levels(s)[j]
<1>1. PICK n \in Nat \ {0} : n = Len(s) /\ DOMAIN s = 1 .. n /\ \A i \in 1 .. n : s[i] \in Prints
  <2>1. Len(s) \in Nat /\ Len(s) # 0
    BY LenProperties, EmptySeq
  <2> QED
    BY <2>1, LenProperties, ElementOfSeq
<1>2. ASSUME NEW p \in Nat PROVE RoundToBucket(p) \in Nat
  <2>1. Tick \in Nat \ {0}
    BY SignalsAssumption DEF SignalsAssumption
  <2>2. PICK a \in Nat, d \in Nat \ {0} : a = 2 * p + Tick /\ d = 2 * Tick
    BY <2>1
  <2>3. PICK x \in Nat : x = a \div d
    BY DivisionKeepsOrder
  <2>4. x * Tick \in Nat
    BY <2>1, Z3
  <2> QED
    BY <2>2, <2>3, <2>4 DEF RoundToBucket
<1>3. \A i \in 1 .. n : s[i].price \in Nat
  BY <1>1 DEF Prints
<1>4. RoundToBucket(Last(s).price) \in Nat
  <2>1. n \in 1 .. n
    OBVIOUS
  <2>2. Last(s) = s[n]
    BY <1>1 DEF Last
  <2> QED
    BY <1>2, <1>3, <2>1, <2>2
<1> DEFINE at == [i \in 1 .. n |-> RoundToBucket(s[i].price)]
           S == {at[i] : i \in 1 .. n}
<1>5. S = {RoundToBucket(p) : p \in PricesOf(s)}
  BY <1>1 DEF PricesOf
<1>6. S \subseteq Nat /\ S # {}
  <2>1. \A i \in 1 .. n : at[i] \in Nat
    BY <1>2, <1>3
  <2>2. 1 \in 1 .. n
    OBVIOUS
  <2> HIDE DEF at
  <2> QED
    BY <2>1, <2>2
<1>7. IsFiniteSet(S)
  <2>1. IsFiniteSet(1 .. n) /\ DOMAIN at = 1 .. n
    BY FS_Interval
  <2> HIDE DEF at
  <2> QED
    BY <2>1, RangeIsFinite
<1> HIDE DEF S
<1>8. PICK c \in Nat \ {0} : c = Cardinality(S)
  BY <1>6, <1>7, FS_CardinalityType, FS_EmptySet
<1>9. Levels(s) = Ascending(S)
  BY <1>5 DEF Levels
<1>10. /\ Levels(s) \in [1 .. c -> S] /\ Levels(s) \in Seq(S) /\ Len(Levels(s)) = c
       /\ \A i, j \in 1 .. c : i < j => Levels(s)[i] < Levels(s)[j]
  BY <1>6, <1>7, <1>8, <1>9, AscendingOrder
<1>11. Levels(s) \in [1 .. c -> Nat] /\ Levels(s) \in Seq(Nat)
  BY <1>6, <1>10, SeqMonotonic
<1> QED
  BY <1>4, <1>10, <1>11

(* Of some levels one is the busiest. *)
LEMMA BusiestIsFound ==
    ASSUME NEW s \in Seq(Prints), s # <<>>, NEW S, S \subseteq Nat, IsFiniteSet(S), S # {}
    PROVE  Busiest(s, S) \in S
<1>1. PICK now \in Nat : now = RoundToBucket(Last(s).price)
  BY LevelsOfTape
<1>2. PICK v \in [S -> Nat] : \A p \in S : v[p] = LevelNotional(s, p)
  <2>1. ASSUME NEW p \in S PROVE LevelNotional(s, p) \in Nat
    <3> DEFINE I == {i \in DOMAIN s : RoundToBucket(s[i].price) = p}
    <3>1. I \subseteq DOMAIN s
      OBVIOUS
    <3>2. LevelNotional(s, p) = SumOf(Notional, Chosen(s, I))
      BY DEF LevelNotional
    <3> HIDE DEF I
    <3> QED
      BY <3>1, <3>2, ChosenInOrder, NotionalIsNumber
  <2>2. [p \in S |-> LevelNotional(s, p)] \in [S -> Nat]
    BY <2>1
  <2> QED
    BY <2>2
<1>3. PICK away \in [S -> Nat] : \A p \in S : away[p] = Abs(p - now)
  <2>1. \A p \in S : Abs(p - now) \in Nat
    BY DEF Abs
  <2>2. [p \in S |-> Abs(p - now)] \in [S -> Nat]
    BY <2>1
  <2> QED
    BY <2>2
<1>4. \A p, q \in S :
         Busier(s, p, q) <=> \/ v[p] > v[q]
                             \/ v[p] = v[q] /\ away[p] < away[q]
                             \/ v[p] = v[q] /\ away[p] = away[q] /\ p <= q
  BY <1>1, <1>2, <1>3 DEF Busier
<1> DEFINE V == {v[p] : p \in S}
<1>5. PICK p1 \in S : \A q \in S : v[q] <= v[p1]
  <2>1. IsFiniteSet(V)
    <3>1. DOMAIN v = S
      OBVIOUS
    <3> QED
      BY <3>1, RangeIsFinite
  <2>2. V \subseteq Nat /\ V # {}
    OBVIOUS
  <2>3. PICK x \in V : \A y \in V : y <= x
    <3> HIDE DEF V
    <3> QED
      BY <2>1, <2>2, FiniteHasGreatest
  <2> QED
    BY <2>3
<1> DEFINE A == {p \in S : v[p] = v[p1]}
           W == {away[p] : p \in A}
<1>6. PICK p2 \in A : \A q \in A : away[p2] <= away[q]
  <2>1. W \subseteq Nat /\ away[p1] \in W
    OBVIOUS
  <2>2. PICK x \in W : \A y \in W : x <= y
    <3> HIDE DEF W
    <3> QED
      BY <2>1, LeastElement
  <2> QED
    BY <2>2
<1> DEFINE B == {p \in A : away[p] = away[p2]}
<1>7. PICK p3 \in B : \A q \in B : p3 <= q
  <2>1. B \subseteq Nat /\ p2 \in B
    OBVIOUS
  <2> HIDE DEF B
  <2> QED
    BY <2>1, LeastElement
<1>8. ASSUME NEW q \in S PROVE Busier(s, p3, q)
  <2>1. v[q] \in Nat /\ v[p3] \in Nat /\ away[q] \in Nat /\ away[p3] \in Nat
    OBVIOUS
  <2>2. v[p3] = v[p1] /\ v[q] <= v[p1] /\ p3 \in S
    BY <1>5
  <2>3. v[q] = v[p1] => away[p3] <= away[q]
    BY <1>6
  <2>4. v[q] = v[p1] /\ away[q] = away[p3] => p3 <= q
    BY <1>7
  <2>5. \/ v[p3] > v[q]
        \/ v[p3] = v[q] /\ away[p3] < away[q]
        \/ v[p3] = v[q] /\ away[p3] = away[q] /\ p3 <= q
    <3> HIDE DEF A, B
    <3> QED
      BY <2>1, <2>2, <2>3, <2>4
  <2> QED
    BY <1>4, <2>2, <2>5
<1>9. \E p \in S : \A q \in S : Busier(s, p, q)
  BY <1>8
<1> QED
  BY <1>9, Zenon DEF Busiest

(* What levels hold together is a number. *)
HeldFold(i, s, area) ==
    i = [r \in SUBSET area |->
           IF r = {} THEN 0
           ELSE LevelNotional(s, CHOOSE x \in r : TRUE) + i[r \ {CHOOSE x \in r : TRUE}]]
(* What a level holds is a number, whichever levels are counted. *)
LEMMA HeldIsNumber ==
    ASSUME NEW s \in Seq(Prints), NEW area, IsFiniteSet(area)
    PROVE  Held(s, area) \in Nat
<1>1. Held(s, area) = (CHOOSE i : HeldFold(i, s, area))[area]
  BY DEF Held, MapThenSumSet, MapThenFoldSet, HeldFold
<1>2. ASSUME NEW p PROVE LevelNotional(s, p) \in Nat
  <2> DEFINE I == {i \in DOMAIN s : RoundToBucket(s[i].price) = p}
  <2>1. I \subseteq DOMAIN s
    OBVIOUS
  <2>2. LevelNotional(s, p) = SumOf(Notional, Chosen(s, I))
    BY DEF LevelNotional
  <2> HIDE DEF I
  <2> QED
    BY <2>1, <2>2, ChosenInOrder, NotionalIsNumber
<1> DEFINE any(r) == CHOOSE x \in r : TRUE
           ch == [r \in (SUBSET area) \ {{}} |-> any(r)]
           step == [z \in Nat \X area |-> LevelNotional(s, z[2]) + z[1]]
<1>3. \A r \in (SUBSET area) \ {{}} : any(r) \in r /\ any(r) \in area
  <2> SUFFICES ASSUME NEW r \in (SUBSET area) \ {{}} PROVE any(r) \in r
    OBVIOUS
  <2>1. \E x \in r : TRUE
    OBVIOUS
  <2> QED
    BY <2>1, Zenon
<1>4. TakesFrom(ch, area)
  <2> HIDE DEF any
  <2> QED
    BY <1>3 DEF TakesFrom
<1>5. step \in [Nat \X area -> Nat]
  BY <1>2
<1>6. PICK i \in [SUBSET area -> Nat] : FoldsFrom(i, area, 0, ch, step)
  <2> HIDE DEF step, ch
  <2>1. 0 \in Nat
    OBVIOUS
  <2> QED
    BY <1>4, <1>5, <2>1, FoldExists
<1>7. HeldFold(i, s, area)
  <2>1. ASSUME NEW r \in SUBSET area, r # {}
        PROVE  i[r] = LevelNotional(s, any(r)) + i[r \ {any(r)}]
    <3>1. ch[r] = any(r) /\ any(r) \in area
      BY <1>3, <2>1
    <3>2. i[r] = step[<<i[r \ {any(r)}], any(r)>>]
      <4> HIDE DEF step, ch, any
      <4> QED
        BY <1>6, <2>1, <3>1 DEF FoldsFrom
    <3>3. PICK a \in Nat, p \in area : a = i[r \ {any(r)}] /\ p = any(r)
      BY <1>6, <3>1
    <3>4. step[<<a, p>>] = LevelNotional(s, p) + a
      OBVIOUS
    <3> HIDE DEF step, any
    <3> QED
      BY <3>2, <3>3, <3>4
  <2>2. i[{}] = 0
    <3> HIDE DEF step, ch
    <3> QED
      BY <1>6 DEF FoldsFrom
  <2> HIDE DEF step, ch
  <2> QED
    BY <1>6, <2>1, <2>2 DEF HeldFold
<1>8. PICK j : j = (CHOOSE k : HeldFold(k, s, area)) /\ HeldFold(j, s, area)
  BY <1>7, Zenon
<1>9. /\ j[{}] = 0
      /\ \A r \in SUBSET area : r # {} => j[r] = LevelNotional(s, any(r)) + j[r \ {any(r)}]
  <2>1. {} \in SUBSET area
    OBVIOUS
  <2>2. \A r \in SUBSET area :
           j[r] = IF r = {} THEN 0 ELSE LevelNotional(s, any(r)) + j[r \ {any(r)}]
    BY <1>8 DEF HeldFold
  <2> HIDE DEF any
  <2> QED
    BY <2>1, <2>2
<1> HIDE DEF any, ch, step
<1> DEFINE T == {n \in Nat : \A r \in SUBSET area : Cardinality(r) = n => j[r] \in Nat}
<1>10. \A n \in Nat : n \in T
  <2>0. \A r \in SUBSET area : IsFiniteSet(r) /\ (Cardinality(r) = 0 <=> r = {})
    BY FS_Subset, FS_EmptySet
  <2>1. 0 \in T
    <3> SUFFICES ASSUME NEW r \in SUBSET area, Cardinality(r) = 0 PROVE j[r] \in Nat
      OBVIOUS
    <3>1. r = {}
      BY <2>0
    <3>2. j[r] = 0
      BY <1>9, <3>1
    <3> QED
      BY <3>2
  <2>2. ASSUME NEW n \in Nat, n \in T PROVE n + 1 \in T
    <3> SUFFICES ASSUME NEW r \in SUBSET area, Cardinality(r) = n + 1 PROVE j[r] \in Nat
      OBVIOUS
    <3>1. r # {}
      BY <2>0
    <3>2. PICK p \in r : p = any(r)
      BY <1>3, <3>1
    <3>3. Cardinality(r \ {p}) = n /\ r \ {p} \in SUBSET area
      <4>1. Cardinality(r \ {p}) = Cardinality(r) - 1
        BY <2>0, FS_RemoveElement
      <4> QED
        BY <4>1
    <3>4. j[r \ {p}] \in Nat
      BY <2>2, <3>3
    <3>5. j[r] = LevelNotional(s, p) + j[r \ {p}]
      BY <1>9, <3>1, <3>2
    <3> QED
      BY <1>2, <3>4, <3>5
  <2> HIDE DEF T
  <2> QED
    BY <2>1, <2>2, EveryNumber
<1>11. j[area] \in Nat
  <2>1. Cardinality(area) \in Nat
    BY FS_CardinalityType
  <2> QED
    BY <1>10, <2>1
<1> QED
  BY <1>1, <1>8, <1>11

(* The value area, grown one level at a time. *)
AreaFold(i, s, w) ==
    i = [r \in SUBSET (DOMAIN w) |->
           IF r = {} THEN {Busiest(s, ToSet(w))} ELSE Grown(s, w, i[r \ {Max(r)}])]
AreaRun(f, s, w, n) ==
    /\ f[0] = {Busiest(s, ToSet(w))}
    /\ \A m \in 1 .. n : f[m] = Grown(s, w, f[m - 1])
    /\ ValueArea(s) = f[n]
(* The value area is where a run of one growth for each level ends. *)
LEMMA AreaRuns ==
    ASSUME NEW s \in Seq(Prints), NEW n \in Nat, NEW X, NEW w, w = Levels(s), DOMAIN w = 1 .. n,
           {Busiest(s, ToSet(w))} \in X, \A area \in X : Grown(s, w, area) \in X
    PROVE  \E f \in [0 .. n -> X] : AreaRun(f, s, w, n)
<1>1. ValueArea(s) = (CHOOSE i : AreaFold(i, s, w))[DOMAIN w]
  BY DEF ValueArea, FoldLeft, MapThenFoldSet, AreaFold
<1>2. PICK b : b = {Busiest(s, ToSet(w))} /\ b \in X
  OBVIOUS
<1> DEFINE D == 1 .. n
           step == [z \in X \X D |-> Grown(s, w, z[1])]
<1>3. step \in [X \X D -> X]
  OBVIOUS
<1>4. PICK i \in [SUBSET D -> X] : FoldsFrom(i, D, b, Latest(n), step)
  <2>1. IsFiniteSet(D)
    BY FS_Interval
  <2> HIDE DEF step
  <2> QED
    BY <1>2, <1>3, <2>1, LatestTakes, FoldExists
<1>5. AreaFold(i, s, w)
  <2>1. ASSUME NEW r \in SUBSET D, r # {}
        PROVE  i[r] = Grown(s, w, i[r \ {Max(r)}])
    <3>1. Latest(n)[r] = Max(r) /\ Latest(n)[r] \in D
      BY <2>1, LatestTakes DEF Latest, TakesFrom
    <3>2. i[r] = step[<<i[r \ {Max(r)}], Max(r)>>]
      BY <1>4, <2>1, <3>1 DEF FoldsFrom
    <3>3. i[r \ {Max(r)}] \in X /\ Max(r) \in D
      BY <1>4, <3>1
    <3> HIDE DEF D
    <3> QED
      BY <3>2, <3>3
  <2>2. i[{}] = b
    BY <1>4 DEF FoldsFrom
  <2> HIDE DEF step
  <2> QED
    BY <1>2, <1>4, <2>1, <2>2 DEF AreaFold
<1>6. PICK j : j = (CHOOSE k : AreaFold(k, s, w)) /\ AreaFold(j, s, w)
  BY <1>5, Zenon
<1>7. j[{}] = b /\ \A r \in SUBSET D : r # {} => j[r] = Grown(s, w, j[r \ {Max(r)}])
  <2>1. {} \in SUBSET D
    OBVIOUS
  <2>2. \A r \in SUBSET D : j[r] = IF r = {} THEN b ELSE Grown(s, w, j[r \ {Max(r)}])
    <3> HIDE DEF step
    <3>1. \A r \in SUBSET (DOMAIN w) :
             j[r] = IF r = {} THEN {Busiest(s, ToSet(w))} ELSE Grown(s, w, j[r \ {Max(r)}])
      <4>1. j = [r \in SUBSET (DOMAIN w) |->
                   IF r = {} THEN {Busiest(s, ToSet(w))} ELSE Grown(s, w, j[r \ {Max(r)}])]
        BY <1>6 DEF AreaFold
      <4> QED
        BY <4>1, Zenon
    <3> QED
      BY <1>2, <3>1
  <2> QED
    BY <2>1, <2>2, Zenon
<1>8. TakesLatest(j, n, X, b, step)
  <2> SUFFICES ASSUME NEW r \in SUBSET D, r # {}, j[r \ {Max(r)}] \in X
               PROVE  j[r] = step[<<j[r \ {Max(r)}], Max(r)>>]
    BY <1>7 DEF TakesLatest
  <2>1. Latest(n)[r] = Max(r) /\ Latest(n)[r] \in D
    BY LatestTakes DEF Latest, TakesFrom
  <2>2. PICK a \in X, m \in D : a = j[r \ {Max(r)}] /\ m = Max(r)
    BY <2>1
  <2>3. step[<<a, m>>] = Grown(s, w, a)
    OBVIOUS
  <2> HIDE DEF step
  <2> QED
    BY <1>7, <2>2, <2>3
<1>9. PICK f \in [0 .. n -> X] : RunsOver(f, j, n, b, step)
  <2> HIDE DEF step
  <2>1. step \in [X \X (1 .. n) -> X]
    BY <1>3
  <2> QED
    BY <1>2, <1>8, <2>1, FoldRuns, Zenon
<1>10. f[0] = b /\ j[D] = f[n]
  BY <1>9 DEF RunsOver
<1>11. ASSUME NEW m \in 1 .. n PROVE f[m] = Grown(s, w, f[m - 1])
  <2>1. f[m] = step[<<f[m - 1], m>>]
    <3> HIDE DEF step
    <3> QED
      BY <1>9 DEF RunsOver
  <2>2. PICK a \in X : a = f[m - 1]
    OBVIOUS
  <2>3. step[<<a, m>>] = Grown(s, w, a)
    OBVIOUS
  <2> HIDE DEF step
  <2> QED
    BY <2>1, <2>2, <2>3
<1>12. ValueArea(s) = f[n]
  BY <1>1, <1>6, <1>10
<1> QED
  BY <1>2, <1>10, <1>11, <1>12 DEF AreaRun

(* The area is a run of levels around the busiest that holds seventy percent. *)
LEMMA AreaHoldsTheValue ==
    ASSUME NEW s \in Seq(Prints), s # <<>>
    PROVE  LET levels == ToSet(Levels(s))
               area == ValueArea(s)
           IN /\ 10 * Held(s, area) >= 7 * Held(s, levels)
              /\ Busiest(s, levels) \in area
              /\ \A p, q \in area : \A l \in levels : p < l /\ l < q => l \in area
<1>0. PICK w : w = Levels(s)
  OBVIOUS
<1>1. PICK n \in Nat \ {0} :
         /\ w \in [1 .. n -> Nat] /\ Len(w) = n
         /\ \A i, j \in 1 .. n : i < j => w[i] < w[j]
  BY <1>0, LevelsOfTape
<1> DEFINE all == ToSet(w)
           X == SUBSET all
           Part(a, b) == {w[i] : i \in a .. b}
           Enough(area) == 10 * Held(s, area) >= 7 * Held(s, all)
<1>2. all = Part(1, n) /\ IsFiniteSet(all) /\ all \subseteq Nat /\ all # {}
  <2>1. all = {w[i] : i \in 1 .. n}
    BY <1>1 DEF ToSet
  <2>2. IsFiniteSet({w[i] : i \in 1 .. n})
    <3>1. IsFiniteSet(1 .. n) /\ DOMAIN w = 1 .. n
      BY <1>1, FS_Interval
    <3> QED
      BY <3>1, RangeIsFinite
  <2>3. 1 \in 1 .. n
    OBVIOUS
  <2> QED
    BY <1>1, <2>1, <2>2, <2>3
<1>3. ASSUME NEW S \in SUBSET all, S # {} PROVE Busiest(s, S) \in S
  <2>1. IsFiniteSet(S) /\ S \subseteq Nat
    <3> HIDE DEF all
    <3> QED
      BY <1>2, FS_Subset
  <2> HIDE DEF all
  <2> QED
    BY <1>3, <2>1, BusiestIsFound
<1>4. PICK top \in all : top = Busiest(s, all)
  <2> HIDE DEF all
  <2> QED
    BY <1>2, <1>3
<1>5. ASSUME NEW area \in X
      PROVE  /\ Neighbours(w, area) \subseteq all
             /\ Grown(s, w, area) \in X
             /\ Enough(area) => Grown(s, w, area) = area
             /\ Neighbours(w, area) = {} => Grown(s, w, area) = area
             /\ ~ Enough(area) /\ Neighbours(w, area) # {} =>
                   \E p \in Neighbours(w, area) : Grown(s, w, area) = area \cup {p}
  <2>1. Neighbours(w, area) \subseteq all
    BY DEF Neighbours, ToSet
  <2>2. Grown(s, w, area) = IF Enough(area) \/ Neighbours(w, area) = {} THEN area
                            ELSE area \cup {Busiest(s, Neighbours(w, area))}
    BY DEF Grown
  <2> HIDE DEF all, Enough
  <2>3. Neighbours(w, area) # {} => Busiest(s, Neighbours(w, area)) \in Neighbours(w, area)
    BY <1>3, <2>1
  <2> QED
    BY <2>1, <2>2, <2>3
<1>6. PICK f \in [0 .. n -> X] :
         /\ f[0] = {top}
         /\ \A m \in 1 .. n : f[m] = Grown(s, w, f[m - 1])
         /\ ValueArea(s) = f[n]
  <2>1. DOMAIN w = 1 .. n /\ {Busiest(s, ToSet(w))} \in X
    BY <1>1, <1>4
  <2>2. \A area \in X : Grown(s, w, area) \in X
    BY <1>5
  <2> HIDE DEF X
  <2>3. \E f \in [0 .. n -> X] : AreaRun(f, s, w, n)
    <3>1. n \in Nat
      OBVIOUS
    <3> HIDE DEF all
    <3> QED
      BY <1>0, <2>1, <2>2, <3>1, AreaRuns
  <2> QED
    BY <1>4, <2>3 DEF AreaRun
(* A level is in a part of the levels by its place. *)
<1>7. ASSUME NEW a \in 1 .. n, NEW b \in 1 .. n, NEW k \in 1 .. n
      PROVE  w[k] \in Part(a, b) <=> k \in a .. b
  <2>1. ASSUME NEW i \in a .. b, w[i] = w[k] PROVE i = k
    <3>1. i \in 1 .. n /\ w[i] \in Nat /\ w[k] \in Nat
      BY <1>1
    <3>2. i < k => w[i] < w[k]
      BY <1>1, <3>1
    <3>3. k < i => w[k] < w[i]
      BY <1>1, <3>1
    <3> QED
      BY <2>1, <3>1, <3>2, <3>3
  <2> QED
    BY <2>1
(* What grows is a part of the levels, by one place until it holds enough. *)
<1>8. ASSUME NEW a \in 1 .. n, NEW b \in 1 .. n, a <= b, Part(a, b) \in X
      PROVE  \/ Enough(Part(a, b)) /\ Grown(s, w, Part(a, b)) = Part(a, b)
             \/ a > 1 /\ Grown(s, w, Part(a, b)) = Part(a - 1, b)
             \/ b < n /\ Grown(s, w, Part(a, b)) = Part(a, b + 1)
  <2>1. PICK area \in X : area = Part(a, b)
    BY <1>8
  <2>2. ASSUME NEW p \in Neighbours(w, area)
        PROVE  (a > 1 /\ p = w[a - 1]) \/ (b < n /\ p = w[b + 1])
    <3>1. PICK k \in 1 .. n : /\ p = w[k] /\ w[k] \notin area
                              /\ \/ k > 1 /\ w[k - 1] \in area
                                 \/ k < n /\ w[k + 1] \in area
      <4>1. DOMAIN w = 1 .. n
        BY <1>1
      <4> HIDE DEF X
      <4> QED
        BY <1>1, <2>2, <4>1 DEF Neighbours
    <3>2. k \notin a .. b
      BY <1>7, <2>1, <3>1
    <3>3. CASE k > 1 /\ w[k - 1] \in area
      <4>1. k - 1 \in 1 .. n
        BY <3>3
      <4>2. k - 1 \in a .. b
        BY <1>7, <2>1, <3>3, <4>1
      <4>3. k = b + 1 /\ b < n
        BY <3>2, <4>2
      <4> QED
        BY <3>1, <4>3
    <3>4. CASE k < n /\ w[k + 1] \in area
      <4>1. k + 1 \in 1 .. n
        BY <3>4
      <4>2. k + 1 \in a .. b
        BY <1>7, <2>1, <3>4, <4>1
      <4>3. k = a - 1 /\ a > 1
        BY <3>2, <4>2
      <4> QED
        BY <3>1, <4>3
    <3> QED
      BY <3>1, <3>3, <3>4
  <2>3. ASSUME NEW k \in 1 .. n, w[k] \notin area,
               (k > 1 /\ w[k - 1] \in area) \/ (k < n /\ w[k + 1] \in area)
        PROVE  Neighbours(w, area) # {}
    <3>1. DOMAIN w = 1 .. n
      BY <1>1
    <3>2. w[k] \in Neighbours(w, area)
      <4> HIDE DEF X
      <4> QED
        BY <1>1, <2>3, <3>1 DEF Neighbours
    <3> QED
      BY <3>2
  <2>4. CASE Enough(area)
    BY <1>5, <2>1, <2>4
  <2>5. CASE ~ Enough(area)
    <3>1. Neighbours(w, area) # {}
      <4>1. CASE a > 1
        <5>1. a - 1 \in 1 .. n /\ a - 1 < n /\ a - 1 + 1 = a /\ a - 1 \notin a .. b /\ a \in a .. b
          BY <1>8, <4>1
        <5>2. PICK k \in 1 .. n : k = a - 1 /\ k < n /\ k + 1 = a
          BY <5>1
        <5>3. w[k] \notin area /\ w[k + 1] \in area
          BY <1>7, <2>1, <5>1, <5>2
        <5> HIDE DEF Part, X
        <5> QED
          BY <2>3, <5>2, <5>3
      <4>2. CASE b < n
        <5>1. b + 1 \in 1 .. n /\ b + 1 > 1 /\ b + 1 - 1 = b /\ b + 1 \notin a .. b /\ b \in a .. b
          BY <1>8, <4>2
        <5>2. PICK k \in 1 .. n : k = b + 1 /\ k > 1 /\ k - 1 = b
          BY <5>1
        <5>3. w[k] \notin area /\ w[k - 1] \in area
          BY <1>7, <2>1, <5>1, <5>2
        <5> HIDE DEF Part, X
        <5> QED
          BY <2>3, <5>2, <5>3
      <4>3. CASE a = 1 /\ b = n
        <5>1. area = all
          BY <1>2, <2>1, <4>3
        <5>2. Held(s, all) \in Nat
          <6> HIDE DEF all
          <6> QED
            BY <1>2, HeldIsNumber
        <5>3. PICK h \in Nat : h = Held(s, all) /\ h = Held(s, area)
          BY <5>1, <5>2
        <5> QED
          BY <2>5, <5>3
      <4> QED
        BY <4>1, <4>2, <4>3
    <3>2. PICK p \in Neighbours(w, area) : Grown(s, w, area) = area \cup {p}
      <4> HIDE DEF Enough, X
      <4> QED
        BY <1>5, <2>5, <3>1
    <3>3. CASE a > 1 /\ p = w[a - 1]
      <4>1. a - 1 .. b = (a .. b) \cup {a - 1}
        BY <1>8, <3>3
      <4>2. Part(a - 1, b) = Part(a, b) \cup {w[a - 1]}
        BY <4>1
      <4> HIDE DEF Part, X
      <4> QED
        BY <2>1, <3>2, <3>3, <4>2
    <3>4. CASE b < n /\ p = w[b + 1]
      <4>1. a .. b + 1 = (a .. b) \cup {b + 1}
        BY <1>8, <3>4
      <4>2. Part(a, b + 1) = Part(a, b) \cup {w[b + 1]}
        BY <4>1
      <4> HIDE DEF Part, X
      <4> QED
        BY <2>1, <3>2, <3>4, <4>2
    <3> HIDE DEF Part, X
    <3> QED
      BY <2>2, <3>3, <3>4
  <2> QED
    BY <2>4, <2>5
<1> DEFINE Run(m) == \E a, b \in 1 .. n :
                        /\ a <= b /\ f[m] = Part(a, b) /\ top \in Part(a, b)
                        /\ Enough(f[m]) \/ b - a >= m
           T == {m \in Nat : m <= n => Run(m)}
<1>9. \A m \in Nat : m \in T
  <2>1. 0 \in T
    <3>1. PICK k \in 1 .. n : top = w[k]
      BY <1>2, <1>4
    <3>2. Part(k, k) = {top}
      <4>1. k .. k = {k}
        OBVIOUS
      <4> QED
        BY <3>1, <4>1
    <3>3. k <= k /\ k - k >= 0 /\ top \in {top}
      OBVIOUS
    <3>4. Run(0)
      <4> HIDE DEF Part, Enough
      <4> QED
        BY <1>6, <3>2, <3>3
    <3> QED
      BY <3>4
  <2>2. ASSUME NEW m \in Nat, m \in T PROVE m + 1 \in T
    <3> HIDE DEF Run
    <3> SUFFICES ASSUME m + 1 <= n PROVE Run(m + 1)
      OBVIOUS
    <3> USE DEF Run
    <3>1. Run(m)
      <4>1. m <= n
        OBVIOUS
      <4> HIDE DEF Run
      <4> QED
        BY <2>2, <4>1
    <3>2. PICK a \in 1 .. n, b \in 1 .. n :
             /\ a <= b /\ f[m] = Part(a, b) /\ top \in Part(a, b)
             /\ Enough(f[m]) \/ b - a >= m
      BY <3>1
    <3>3. f[m + 1] = Grown(s, w, Part(a, b)) /\ Part(a, b) \in X
      <4>1. m + 1 \in 1 .. n /\ m + 1 - 1 = m /\ m \in 0 .. n
        OBVIOUS
      <4>2. f[m + 1] = Grown(s, w, f[m + 1 - 1])
        <5> HIDE DEF X, Part
        <5> QED
          BY <1>6, <4>1
      <4> HIDE DEF X, Part
      <4> QED
        BY <1>6, <3>2, <4>1, <4>2
    <3>4. CASE Enough(Part(a, b)) /\ Grown(s, w, Part(a, b)) = Part(a, b)
      <4> HIDE DEF Part, Enough, X
      <4> QED
        BY <3>2, <3>3, <3>4
    <3>5. CASE Enough(f[m]) /\ ~ (Enough(Part(a, b)) /\ Grown(s, w, Part(a, b)) = Part(a, b))
      <4> HIDE DEF Part, Enough, X
      <4> QED
        BY <1>5, <3>2, <3>3, <3>5
    <3>6. CASE ~ Enough(f[m]) /\ a > 1 /\ Grown(s, w, Part(a, b)) = Part(a - 1, b)
      <4>1. a - 1 \in 1 .. n /\ a - 1 <= b /\ b - (a - 1) >= m + 1
        <5> HIDE DEF Enough
        <5> QED
          BY <3>2, <3>6
      <4>2. top \in Part(a - 1, b)
        BY <3>2, <3>6
      <4> HIDE DEF Part, Enough, X
      <4> QED
        BY <3>3, <3>6, <4>1, <4>2
    <3>7. CASE ~ Enough(f[m]) /\ b < n /\ Grown(s, w, Part(a, b)) = Part(a, b + 1)
      <4>1. b + 1 \in 1 .. n /\ a <= b + 1 /\ b + 1 - a >= m + 1
        <5> HIDE DEF Enough
        <5> QED
          BY <3>2, <3>7
      <4>2. top \in Part(a, b + 1)
        BY <3>2, <3>7
      <4> HIDE DEF Part, Enough, X
      <4> QED
        BY <3>3, <3>7, <4>1, <4>2
    <3> HIDE DEF Part, Enough, X, Run
    <3> QED
      BY <1>8, <3>2, <3>3, <3>4, <3>5, <3>6, <3>7
  <2> HIDE DEF T
  <2> QED
    BY <2>1, <2>2, EveryNumber
<1>10. PICK a \in 1 .. n, b \in 1 .. n :
          a <= b /\ f[n] = Part(a, b) /\ top \in Part(a, b) /\ Enough(f[n])
  <2>1. Run(n)
    <3> HIDE DEF Run
    <3> QED
      BY <1>9
  <2>2. PICK a \in 1 .. n, b \in 1 .. n :
           /\ a <= b /\ f[n] = Part(a, b) /\ top \in Part(a, b)
           /\ Enough(f[n]) \/ b - a >= n
    BY <2>1
  <2>3. ~ (b - a >= n)
    OBVIOUS
  <2> HIDE DEF Part, Enough
  <2> QED
    BY <2>2, <2>3
<1>11. ASSUME NEW p \in f[n], NEW q \in f[n], NEW l \in all, p < l, l < q
       PROVE  l \in f[n]
  <2>1. PICK i \in a .. b, j \in a .. b : p = w[i] /\ q = w[j]
    <3> HIDE DEF Enough, all
    <3> QED
      BY <1>10, <1>11
  <2>2. PICK k \in 1 .. n : l = w[k]
    BY <1>2
  <2>3. i \in 1 .. n /\ j \in 1 .. n /\ w[i] \in Nat /\ w[j] \in Nat /\ w[k] \in Nat
    BY <1>1
  <2>4. ~ (k < i)
    BY <1>1, <1>11, <2>1, <2>2, <2>3
  <2>5. ~ (j < k)
    BY <1>1, <1>11, <2>1, <2>2, <2>3
  <2>6. k \in a .. b
    BY <2>4, <2>5
  <2> HIDE DEF Enough, all
  <2> QED
    BY <1>10, <2>2, <2>6
<1>12. Enough(f[n]) /\ top \in f[n]
  <2> HIDE DEF Part, Enough
  <2> QED
    BY <1>10
<1> HIDE DEF Part, X
<1> QED
  BY <1>0, <1>4, <1>6, <1>11, <1>12

(* What the assembly reads is bars, whatever it drops. *)
LEMMA ReadingsAreBars ==
    ASSUME EvaluationInv, NEW c, c.seen \in 1 .. Len(bars)
    PROVE  HlitBars(c) \in Seq(Bars) /\ MacdBars(c) \in Seq(Bars)
<1>1. DOMAIN bars = 1 .. Len(bars) /\ Len(bars) \in Nat
      /\ \A i \in DOMAIN bars : bars[i] \in Bars
  BY LenProperties, ElementOfSeq DEF EvaluationInv
<1>2. Visible(c.seen) \in Seq(Bars)
  <2>1. PICK k \in Nat : k = c.seen /\ 1 <= k /\ k <= Len(bars)
    BY <1>1
  <2>2. PICK m \in Int : 1 <= m /\ Visible(c.seen) = SubSeq(bars, m, k)
    <3>1. CASE shadow
      BY <2>1, <3>1 DEF Visible
    <3>2. CASE ~ shadow
      <4>1. PICK p \in Int : p = k - Page + 1
        BY <2>1, StrategyAssumption DEF StrategyAssumption
      <4>2. Max({1, p}) = IF 1 <= p THEN p ELSE 1
        BY ExtremesOfIds
      <4>3. Visible(c.seen) = SubSeq(bars, Max({1, p}), k)
        BY <2>1, <3>2, <4>1 DEF Visible
      <4>4. Max({1, p}) \in Int /\ 1 <= Max({1, p})
        BY <4>1, <4>2
      <4> QED
        BY <4>3, <4>4
    <3> QED
      BY <3>1, <3>2
  <2>3. ASSUME NEW i \in m .. k PROVE bars[i] \in Bars
    <3>1. i \in DOMAIN bars
      BY <1>1, <2>1, <2>2
    <3> QED
      BY <1>1, <3>1
  <2> QED
    BY <2>1, <2>2, <2>3, SubSeqProperties
<1>3. HlitBars(c) \in Seq(Bars)
  <2>1. PICK series \in Seq(Bars) : series = Visible(c.seen)
    BY <1>2
  <2> DEFINE K == {i \in DOMAIN series : series[i].t + 1 <= c.at}
  <2>2. K \subseteq DOMAIN series
    OBVIOUS
  <2>3. HlitBars(c) = Chosen(series, K)
    BY <2>1 DEF HlitBars, DropForming
  <2> HIDE DEF K
  <2> QED
    BY <2>2, <2>3, ChosenInOrder
<1>4. CASE Len(HlitBars(c)) > Warmup
  <2>1. PICK s \in Seq(Bars) : s = HlitBars(c)
    BY <1>3
  <2>2. /\ Len(s) \in Int /\ Warmup + 1 \in Int /\ 1 <= Warmup + 1
        /\ \A i \in DOMAIN s : s[i] \in Bars
        /\ DOMAIN s = 1 .. Len(s)
    <3>1. Len(s) \in Nat /\ DOMAIN s = 1 .. Len(s)
      BY LenProperties
    <3>2. Warmup \in Nat
      BY SignalsAssumption DEF SignalsAssumption
    <3> QED
      BY <3>1, <3>2, ElementOfSeq
  <2>3. ASSUME NEW i \in Warmup + 1 .. Len(s) PROVE s[i] \in Bars
    <3>1. i \in DOMAIN s
      BY <2>2
    <3> QED
      BY <2>2, <3>1
  <2>4. SubSeq(s, Warmup + 1, Len(s)) \in Seq(Bars)
    BY <2>2, <2>3, SubSeqProperties
  <2> QED
    BY <1>4, <2>1, <2>4 DEF MacdBars, Aligned
<1>5. CASE ~ (Len(HlitBars(c)) > Warmup)
  <2>1. MacdBars(c) = <<>>
    BY <1>5 DEF MacdBars
  <2> QED
    BY <1>3, <2>1, EmptySeq
<1> QED
  BY <1>3, <1>4, <1>5

(* Whenever the engine admits a setup, its levels are drawn and stand in order *)
(* between the anchors, for any market and any bars a page returns: a tradeable *)
(* decision is never dropped with NO_SETUP_DRAWN (engine.py, assembly.py).     *)
THEOREM QualifiedSetupIsDrawnAlways == StrategySpec => []QualifiedSetupIsDrawn
<1>1. EvaluationInv => QualifiedSetupIsDrawn
  <2> SUFFICES ASSUME EvaluationInv, stage = "evaluate", Qualified(ctx)
               PROVE  LET setup == Drawn(ctx)
                          levels == <<100 * setup.b, Level(setup, 25), Level(setup, 50),
                                      Level(setup, 66), 100 * setup.a>>
                      IN /\ setup # NoSetup
                         /\ \A i \in 1 .. 4 : Further(ctx.side, levels[i], levels[i + 1])
    BY DEF QualifiedSetupIsDrawn
  <2>1. PICK s \in Seq(Bars) : s = MacdBars(ctx)
    <3>1. Len(bars) \in Nat
      BY LenProperties DEF EvaluationInv
    <3>2. ctx.seen \in 1 .. Len(bars)
      BY <3>1 DEF EvaluationInv
    <3> QED
      BY <3>2, ReadingsAreBars
  <2>2. PICK signal : signal = Divergence(s, ctx.side)
    OBVIOUS
  <2>3. signal.kind = "REGULAR" /\ signal # NoSignal
    BY <2>1, <2>2 DEF Qualified, Preconditions, NoSignal
  <2>4. PICK setup : setup = Drawn(ctx)
    OBVIOUS
  <2>5. setup = BuildSetup(s, signal, Moments(s, signal), ctx.side)
    BY <2>1, <2>2, <2>3, <2>4 DEF Drawn
  <2>6. PICK a \in Int, b \in Int : setup = [a |-> a, b |-> b] /\ Further(ctx.side, b, a)
    BY <2>2, <2>3, <2>5, RegularIsDrawn
  <2>7. setup # NoSetup
    BY <2>6 DEF NoSetup, Further
  <2>8. /\ Further(ctx.side, 100 * setup.b, Level(setup, 25))
        /\ Further(ctx.side, Level(setup, 25), Level(setup, 50))
        /\ Further(ctx.side, Level(setup, 50), Level(setup, 66))
        /\ Further(ctx.side, Level(setup, 66), 100 * setup.a)
    BY <2>6, LevelsInOrder
  <2> DEFINE levels == <<100 * setup.b, Level(setup, 25), Level(setup, 50),
                         Level(setup, 66), 100 * setup.a>>
  <2>9. \A i \in 1 .. 4 : Further(ctx.side, levels[i], levels[i + 1])
    <3>1. /\ levels[1] = 100 * setup.b /\ levels[2] = Level(setup, 25)
          /\ levels[3] = Level(setup, 50) /\ levels[4] = Level(setup, 66)
          /\ levels[5] = 100 * setup.a
      OBVIOUS
    <3> HIDE DEF levels
    <3>2. ASSUME NEW i \in 1 .. 4 PROVE i = 1 \/ i = 2 \/ i = 3 \/ i = 4
      OBVIOUS
    <3> QED
      BY <2>8, <3>1, <3>2
  <2> QED
    BY <2>4, <2>7, <2>9
<1> QED
  BY <1>1, EvaluationAlways, PTL

(* The tape was printed by the venue: what is stored, known or being stored    *)
(* was printed, and so is what a context carries.                              *)
Pages(n) == [rows : SUBSET (1 .. n), skip : SUBSET (1 .. n), asked : BOOLEAN]
TapePrinted ==
    /\ prints \in Seq(Prints) /\ head \in 0 .. Len(prints)
    /\ checkpoint \in 0 .. head /\ stored \subseteq 1 .. head
    /\ known \in [Writers -> {Unread} \cup 0 .. head]
    /\ page \in [Writers -> Pages(head)]
    /\ \A w \in Writers : page[w].asked => page[w].rows # {}
    /\ stage # "idle" => ctx.tape \in Seq(Prints)

(* One instance steps. *)
LEMMA PrintedWriterSteps ==
    ASSUME TapePrinted, NEW w \in Writers, NEW k \in {Unread} \cup 0 .. head, NEW p \in Pages(head),
           p.asked => p.rows # {}, UNCHANGED <<prints, head>>,
           checkpoint' \in 0 .. head, stored' \subseteq 1 .. head,
           known' = [known EXCEPT ![w] = k], page' = [page EXCEPT ![w] = p],
           stage' = "idle" \/ UNCHANGED <<stage, ctx>>
    PROVE  TapePrinted'
<1>1. known' \in [Writers -> {Unread} \cup 0 .. head] /\ page' \in [Writers -> Pages(head)]
  BY DEF TapePrinted
<1>2. \A v \in Writers : page'[v] = IF v = w THEN p ELSE page[v]
  BY DEF TapePrinted
<1>3. \A v \in Writers : page'[v].asked => page'[v].rows # {}
  BY <1>2 DEF TapePrinted
<1>4. stage' # "idle" => ctx'.tape \in Seq(Prints)
  BY DEF TapePrinted
<1>5. head' = head /\ prints' = prints /\ prints \in Seq(Prints) /\ head \in 0 .. Len(prints)
  BY DEF TapePrinted
<1> QED
  BY <1>1, <1>3, <1>4, <1>5 DEF TapePrinted

(* A page ends where the tape does. *)
LEMMA PrintedIngestStep ==
    ASSUME TapePrinted, NEW w \in Writers, Poll(w) \/ Frame(w, head), UNCHANGED <<stage, ctx>>
    PROVE  TapePrinted'
<1>1. head \in Nat /\ checkpoint \in 0 .. head /\ PageLimit \in Nat \ {0}
  <2>1. Len(prints) \in Nat
    BY LenProperties DEF TapePrinted
  <2> QED
    BY <2>1, TapeAssumption DEF TapePrinted, TapeAssumption
<1>2. PICK last \in 0 .. head : last = ResumesFrom(w)
  BY <1>1 DEF TapePrinted, ResumesFrom, Unread
<1>3. PICK rows \in SUBSET (1 .. head) : Ingest(w, rows)
  <2>1. CASE Poll(w)
    <3>1. PICK a \in Int, b \in Int : a = head - PageLimit + 1 /\ b = last + PageLimit
      BY <1>1
    <3>2. PICK h \in Int : h = head
      BY <1>1
    <3>3. Max({1, a}) = IF 1 <= a THEN a ELSE 1
      BY ExtremesOfIds
    <3>4. Min({b, h}) = IF b <= h THEN b ELSE h
      BY ExtremesOfIds
    <3>5. RowsAfter(last) \subseteq 1 .. head
      <4>1. CASE last = 0
        <5>1. RowsAfter(last) = Max({1, a}) .. h
          BY <3>1, <3>2, <4>1 DEF RowsAfter
        <5> QED
          BY <3>2, <3>3, <5>1
      <4>2. CASE last # 0
        <5>1. RowsAfter(last) = last + 1 .. Min({b, h})
          BY <3>1, <3>2, <4>2 DEF RowsAfter
        <5> QED
          BY <1>2, <3>2, <3>4, <5>1
      <4> QED
        BY <4>1, <4>2
    <3> QED
      BY <1>2, <2>1, <3>5 DEF Poll
  <2>2. CASE Frame(w, head)
    <3>1. head > last
      BY <1>2, <2>2 DEF Frame
    <3>2. Recovered(last, head) \cup {head} \subseteq 1 .. head
      BY <1>1, <3>1 DEF Recovered
    <3> QED
      BY <1>2, <2>2, <3>2 DEF Frame
  <2> QED
    BY <2>1, <2>2
<1>4. PICK p : p = [NoPage EXCEPT !.rows = rows]
  OBVIOUS
<1>7. /\ p = [rows |-> p.rows, skip |-> p.skip, asked |-> p.asked]
      /\ p.rows = rows /\ p.skip = {} /\ p.asked = FALSE
  BY <1>4 DEF NoPage
<1>8. p \in Pages(head)
  BY <1>7 DEF Pages
<1>5. /\ known' = [known EXCEPT ![w] = last] /\ page' = [page EXCEPT ![w] = p]
      /\ UNCHANGED <<prints, head, stored, checkpoint>>
  BY <1>2, <1>3, <1>4 DEF Ingest
<1>6. checkpoint' \in 0 .. head /\ stored' \subseteq 1 .. head
  BY <1>5 DEF TapePrinted
<1> QED
  BY <1>5, <1>6, <1>7, <1>8, PrintedWriterSteps

(* What is left out of a page is part of it. *)
LEMMA PrintedSelectStep ==
    ASSUME TapePrinted, NEW w \in Writers, Select(w), UNCHANGED <<stage, ctx>>
    PROVE  TapePrinted'
<1>1. PICK k \in {Unread} \cup 0 .. head, old \in Pages(head) : k = known[w] /\ old = page[w]
  BY DEF TapePrinted
<1>2. PICK p : p = [old EXCEPT !.skip = old.rows \cap stored, !.asked = TRUE]
  OBVIOUS
<1>5. /\ p = [rows |-> p.rows, skip |-> p.skip, asked |-> p.asked]
      /\ p.rows = old.rows /\ p.skip = old.rows \cap stored /\ p.asked = TRUE
  BY <1>2 DEF Pages
<1>6. p \in Pages(head)
  <2>1. old.rows \subseteq 1 .. head
    BY DEF Pages
  <2> QED
    BY <1>5, <2>1 DEF Pages
<1>3. /\ known' = [known EXCEPT ![w] = k] /\ page' = [page EXCEPT ![w] = p]
      /\ UNCHANGED <<prints, head, stored, checkpoint>> /\ p.rows # {}
  BY <1>1, <1>2, <1>5 DEF Select, TapePrinted
<1>4. checkpoint' \in 0 .. head /\ stored' \subseteq 1 .. head
  BY <1>3 DEF TapePrinted
<1> QED
  BY <1>3, <1>4, <1>6, PrintedWriterSteps

(* What is inserted, and the checkpoint, came from a page. *)
LEMMA PrintedCommitStep ==
    ASSUME TapePrinted, NEW w \in Writers, Commit(w), UNCHANGED <<stage, ctx>>
    PROVE  TapePrinted'
<1>1. PICK old \in Pages(head) : old = page[w] /\ old.rows # {}
  BY DEF TapePrinted, Commit
<1>2. head \in Nat /\ checkpoint \in 0 .. head
  <2>1. Len(prints) \in Nat
    BY LenProperties DEF TapePrinted
  <2> QED
    BY <2>1 DEF TapePrinted
<1>3. PICK last \in 1 .. head : last = Max(old.rows)
  <2>1. old.rows \subseteq 1 .. head /\ old.rows \subseteq Nat
    BY <1>1 DEF Pages
  <2>2. IsFiniteSet(old.rows)
    <3>1. IsFiniteSet(1 .. head)
      BY <1>2, FS_Interval
    <3> QED
      BY <2>1, <3>1, FS_Subset
  <2>3. Max(old.rows) \in old.rows
    BY <1>1, <2>1, <2>2, FiniteExtremes
  <2> QED
    BY <2>1, <2>3
<1>4. checkpoint' \in 0 .. head
  <2>1. PICK c \in Int : c = checkpoint
    BY <1>2
  <2>2. last \in Int
    OBVIOUS
  <2>3. Max({c, last}) = IF c <= last THEN last ELSE c
    BY <2>2, ExtremesOfIds
  <2> QED
    BY <1>1, <1>2, <1>3, <2>1, <2>3 DEF Commit
<1>5. stored' \subseteq 1 .. head
  BY <1>1 DEF Commit, Inserted, NotStored, TapePrinted, Pages
<1>6. NoPage \in Pages(head) /\ ~ NoPage.asked
  BY DEF NoPage, Pages
<1>7. /\ known' = [known EXCEPT ![w] = last] /\ page' = [page EXCEPT ![w] = NoPage]
      /\ UNCHANGED <<prints, head>> /\ last \in {Unread} \cup 0 .. head
  BY <1>1, <1>3 DEF Commit
<1> QED
  BY <1>4, <1>5, <1>6, <1>7, PrintedWriterSteps

(* An instance that is started again holds no page. *)
LEMMA PrintedForgetStep ==
    ASSUME TapePrinted, NEW w \in Writers, Forgets(w), stage' = "idle" \/ UNCHANGED <<stage, ctx>>
    PROVE  TapePrinted'
<1>1. NoPage \in Pages(head) /\ ~ NoPage.asked /\ Unread \in {Unread} \cup 0 .. head
  BY DEF NoPage, Pages
<1>2. /\ known' = [known EXCEPT ![w] = Unread] /\ page' = [page EXCEPT ![w] = NoPage]
      /\ UNCHANGED <<prints, head, stored, checkpoint>>
  BY DEF Forgets
<1>3. checkpoint' \in 0 .. head /\ stored' \subseteq 1 .. head
  BY <1>2 DEF TapePrinted
<1> QED
  BY <1>1, <1>2, <1>3, PrintedWriterSteps

(* Every step keeps the tape one that was printed. *)
LEMMA PrintedKept ==
    ASSUME TapePrinted, [StrategyNext]_strategyVars
    PROVE  TapePrinted'
<1>0. Self \in Writers
  BY StrategyAssumption DEF StrategyAssumption
<1>1. CASE \E w \in Writers : Storing(w)
  <2>1. PICK w \in Writers : Storing(w)
    BY <1>1
  <2>2. UNCHANGED <<stage, ctx>>
    BY <2>1 DEF Storing, pass
  <2> QED
    BY <2>1, <2>2, PrintedIngestStep, PrintedSelectStep, PrintedCommitStep DEF Storing
<1>2. CASE \E w \in Writers : OtherDies(w)
  <2>1. PICK w \in Writers : Forgets(w) /\ UNCHANGED <<stage, ctx>>
    BY <1>2 DEF OtherDies, pass
  <2> QED
    BY <2>1, PrintedForgetStep
<1>3. CASE Invalid \/ ProcessDies \/ FeedEnds
  <2>1. Forgets(Self) /\ stage' = "idle"
    BY <1>3 DEF Invalid, ProcessDies, FeedEnds, StartsAgain
  <2> QED
    BY <1>0, <2>1, PrintedForgetStep
<1>4. CASE \E id \in Heads : TapeGrows(id)
  <2>1. PICK id \in Heads : VenuePrints(id) /\ UNCHANGED <<stage, ctx>>
    BY <1>4 DEF TapeGrows, pass
  <2>2. Len(prints) \in Nat /\ id \in Nat
    BY LenProperties, StrategyAssumption DEF TapePrinted, StrategyAssumption
  <2>3. /\ head' = id /\ id \in 0 .. Len(prints)
        /\ UNCHANGED <<prints, stored, checkpoint, known, page>>
    BY <2>1, <2>2 DEF VenuePrints
  <2>4. 0 .. head \subseteq 0 .. id /\ 1 .. head \subseteq 1 .. id
    BY <2>1, <2>2 DEF VenuePrints, TapePrinted
  <2>5. Pages(head) \subseteq Pages(id)
    BY <2>4 DEF Pages
  <2>6. /\ known \in [Writers -> {Unread} \cup 0 .. id] /\ page \in [Writers -> Pages(id)]
        /\ checkpoint \in 0 .. id /\ stored \subseteq 1 .. id
    BY <2>4, <2>5 DEF TapePrinted
  <2> QED
    BY <2>1, <2>3, <2>6 DEF TapePrinted
<1>5. CASE \E s \in {Len(bars) - 1, Len(bars)}, t \in Targets : ContextFor(s, t)
  <2>1. PICK s, t : ContextFor(s, t)
    BY <1>5
  <2>2. ctx'.tape = Chosen(prints, stored) /\ UNCHANGED tapeVars
    BY <2>1 DEF ContextFor, TapeRead
  <2>3. stored \subseteq DOMAIN prints
    <3>1. DOMAIN prints = 1 .. Len(prints) /\ Len(prints) \in Nat
      BY LenProperties DEF TapePrinted
    <3> QED
      BY <3>1 DEF TapePrinted
  <2>4. Chosen(prints, stored) \in Seq(Prints)
    BY <2>3, ChosenInOrder DEF TapePrinted
  <2> QED
    BY <2>2, <2>4 DEF TapePrinted, tapeVars
<1>6. CASE /\ UNCHANGED tapeVars
           /\ \/ stage' = "idle"
              \/ stage # "idle" /\ ctx' = ctx
              \/ UNCHANGED <<stage, ctx>>
  BY <1>6 DEF TapePrinted, tapeVars
<1>7. CASE \E shape \in Shapes : BarCloses(shape)
  BY <1>6, <1>7 DEF BarCloses, pass
<1>8. CASE NotArmed \/ Managed \/ Assemble \/ SubmitOrder \/ Refused
  BY <1>6, <1>8 DEF NotArmed, Managed, Assemble, SubmitOrder, Refused, Finish
<1>9. CASE Evaluate
  BY <1>6, <1>9 DEF Evaluate, Finish
<1>10. CASE UNCHANGED strategyVars
  BY <1>6, <1>10 DEF strategyVars
<1> QED
  BY <1>1, <1>2, <1>3, <1>4, <1>5, <1>7, <1>8, <1>9, <1>10 DEF StrategyNext

(* So the tape is one that was printed, from the start on. *)
LEMMA PrintedAlways == StrategySpec => []TapePrinted
<1>1. StrategyInit => TapePrinted
  <2> SUFFICES ASSUME StrategyInit PROVE TapePrinted
    OBVIOUS
  <2>1. PICK start \in Starts :
           /\ prints = start.prints /\ head = start.head
           /\ stored = 1 .. start.read /\ checkpoint = start.read
    BY DEF StrategyInit
  <2>2. /\ start.prints \in Seq(Prints)
        /\ start.read \in 0 .. start.head /\ start.head \in 0 .. Len(start.prints)
    BY StrategyAssumption DEF StrategyAssumption
  <2>3. Len(prints) \in Nat
    BY <2>1, <2>2, LenProperties
  <2>4. NoPage \in Pages(head) /\ ~ NoPage.asked
    BY DEF NoPage, Pages
  <2>5. /\ known = [w \in Writers |-> Unread] /\ page = [w \in Writers |-> NoPage]
        /\ stage = "idle"
    BY DEF StrategyInit
  <2> QED
    BY <2>1, <2>2, <2>3, <2>4, <2>5 DEF TapePrinted
<1> QED
  BY <1>1, PrintedKept, PTL DEF StrategySpec

(* Thirty-second bars are a sequence, of whatever they hold. *)
LEMMA ExecutionBarsInOrder ==
    ASSUME NEW c, c.tape \in Seq(Prints)
    PROVE  \E X : ExecutionBars(c) \in Seq(X)
<1>1. PICK tape \in Seq(Prints) : tape = c.tape
  OBVIOUS
<1>2. \E X : AggregateBars(tape) \in Seq(X)
  <2>1. CASE tape = <<>>
    <3>1. AggregateBars(tape) = <<>>
      BY <2>1 DEF AggregateBars
    <3> QED
      BY <3>1, EmptySeq
  <2>2. CASE tape # <<>>
    <3> DEFINE at == [i \in DOMAIN tape |-> tape[i].at \div Half]
               K == {at[i] : i \in DOMAIN tape}
               end == Min({TapeEnd, Last(tape).at})
               closed == {k \in K : (k + 1) * Half <= end}
               order == Ascending(closed)
               built == [n \in DOMAIN order |->
                           BarOf(Bucket(tape, order[n]), (order[n] + 1) * Half)]
    <3>1. K = {tape[i].at \div Half : i \in DOMAIN tape}
      OBVIOUS
    <3>2. AggregateBars(tape) = built
      BY <2>2, <3>1 DEF AggregateBars
    <3>3. DOMAIN tape = 1 .. Len(tape) /\ Len(tape) \in Nat
          /\ \A i \in DOMAIN tape : tape[i] \in Prints
      BY LenProperties, ElementOfSeq
    <3>4. Half \in Nat \ {0}
      BY SignalsAssumption DEF SignalsAssumption
    <3>5. \A i \in DOMAIN tape : at[i] \in Nat
      <4> SUFFICES ASSUME NEW i \in DOMAIN tape PROVE tape[i].at \div Half \in Nat
        OBVIOUS
      <4>1. PICK a \in Nat : a = tape[i].at
        BY <3>3 DEF Prints
      <4> QED
        BY <3>4, <4>1, DivisionKeepsOrder
    <3>6. IsFiniteSet(K)
      <4>1. IsFiniteSet(DOMAIN tape) /\ DOMAIN at = DOMAIN tape
        BY <3>3, FS_Interval
      <4> HIDE DEF at
      <4> QED
        BY <4>1, RangeIsFinite
    <3>7. IsFiniteSet(closed) /\ closed \subseteq Nat
      <4>1. closed \subseteq K /\ K \subseteq Nat
        BY <3>5
      <4> HIDE DEF closed, K
      <4> QED
        BY <3>6, <4>1, FS_Subset
    <3>8. order \in Seq(closed)
      <4> HIDE DEF closed
      <4> QED
        BY <3>7, AscendingOrder
    <3>9. DOMAIN order = 1 .. Len(order) /\ Len(order) \in Nat
      <4> HIDE DEF order, closed
      <4> QED
        BY <3>8, LenProperties
    <3>10. built \in [1 .. Len(order) -> {built[n] : n \in 1 .. Len(order)}]
      <4> HIDE DEF order
      <4> QED
        BY <3>9
    <3>11. built \in Seq({built[n] : n \in 1 .. Len(order)})
      <4> HIDE DEF built, order
      <4> QED
        BY <3>9, <3>10, SeqDef
    <3> HIDE DEF built
    <3> QED
      BY <3>2, <3>11
  <2> QED
    BY <2>1, <2>2
<1>3. PICK X : AggregateBars(tape) \in Seq(X)
  BY <1>2
<1>4. PICK agg \in Seq(X) : agg = AggregateBars(tape)
  BY <1>3
<1> DEFINE I == {i \in DOMAIN agg : agg[i].t + Half <= TapeEnd}
<1>5. I \subseteq DOMAIN agg
  OBVIOUS
<1>6. ExecutionBars(c) = Chosen(agg, I)
  BY <1>1, <1>4 DEF ExecutionBars, DropForming
<1> HIDE DEF I
<1> QED
  BY <1>5, <1>6, ChosenInOrder

(* The readings that are built step by step are what their definitions say, for *)
(* any market and any tape: the chain is the longest drying run at the end, the *)
(* marked events are within the cap and none left out is bigger, the value area *)
(* is a run of levels around the busiest that holds seventy percent, and zones  *)
(* are apart (exhaustion.py, big_trades.py, volume_profile.py, zones.py).      *)
THEOREM ReadingsMeetTheirDefinitionAlways == StrategySpec => []ReadingsMeetTheirDefinition
<1>1. EvaluationInv /\ TapePrinted => ReadingsMeetTheirDefinition
  <2> SUFFICES ASSUME EvaluationInv, TapePrinted, stage = "evaluate"
               PROVE  ReadingsMeetTheirDefinition
    BY DEF ReadingsMeetTheirDefinition
  <2>1. ctx.tape \in Seq(Prints) /\ ctx.seen \in 1 .. Len(bars)
    <3>1. Len(bars) \in Nat
      BY LenProperties DEF EvaluationInv
    <3> QED
      BY <3>1 DEF EvaluationInv, TapePrinted
  <2>2. HlitBars(ctx) \in Seq(Bars) /\ MacdBars(ctx) \in Seq(Bars)
    BY <2>1, ReadingsAreBars
  <2>3. PICK X : ExhaustionBars(ctx) \in Seq(X)
    BY <2>1, <2>2, ExecutionBarsInOrder DEF ExhaustionBars
  <2>11. PICK s \in Seq(X) : s = ExhaustionBars(ctx)
    BY <2>3
  <2>4. PICK swings \in Seq(DOMAIN s) : swings = Swings(s, ctx.side)
    BY SwingsInOrder
  <2>5. swings # <<>> =>
           Chain(s, ctx.side) =
              SubSeq(swings, Min({k \in DOMAIN swings : DryingRun(s, ctx.side, swings, k)}),
                     Len(swings))
    BY <2>4, ChainIsTheLastRun
  <2>6. PICK shown \in Seq(Prints) : shown = Window(ctx.tape)
    <3> DEFINE I == {i \in DOMAIN ctx.tape :
                        FlowStart <= ctx.tape[i].at /\ ctx.tape[i].at < TapeEnd}
    <3>1. I \subseteq DOMAIN ctx.tape
      OBVIOUS
    <3>2. Window(ctx.tape) = Chosen(ctx.tape, I)
      BY DEF Window
    <3> HIDE DEF I
    <3> QED
      BY <2>1, <3>1, <3>2, ChosenInOrder
  <2>7. PICK events \in Seq(Seq(Prints)) : events = AssembledEvents(ctx)
    BY <2>6, EventsAreSequences DEF AssembledEvents
  <2>8. /\ Cardinality(BigTrades(events)) <= MaxMarkers
        /\ \A i \in BigTrades(events), j \in DOMAIN events \ BigTrades(events) :
              EventNotional(events[j]) <= EventNotional(events[i])
    BY BiggestAreMarked
  <2>9. shown # <<>> =>
           /\ 10 * Held(shown, ValueArea(shown)) >= 7 * Held(shown, ToSet(Levels(shown)))
           /\ Busiest(shown, ToSet(Levels(shown))) \in ValueArea(shown)
           /\ \A p, q \in ValueArea(shown) : \A l \in ToSet(Levels(shown)) :
                 p < l /\ l < q => l \in ValueArea(shown)
    BY AreaHoldsTheValue
  <2>10. \A y, z \in AssembledZones(ctx) : y = z \/ y.high < z.low \/ z.high < y.low
    BY <2>2, ZonesAreApart DEF AssembledZones
  <2> QED
    BY <2>11, <2>4, <2>5, <2>6, <2>7, <2>8, <2>9, <2>10, Zenon DEF ReadingsMeetTheirDefinition
<1> QED
  BY <1>1, EvaluationAlways, PrintedAlways, PTL
=============================================================================
