---------------------------- MODULE LedgerProofs ----------------------------
(***************************************************************************)
(* The two ledgers hold for any accounts, orders, prices and amounts: the  *)
(* one venues' executions are applied to (FillLedger) and the one the      *)
(* paper broker keeps of its own trade (PaperTrade).                       *)
(*                                                                         *)
(* First what each row of the fill ledger holds on its own: types,         *)
(* reservations, lifecycles, overfills and the hard limit.  Then what rows *)
(* add up to: facts about finite totals, the FIFO closing of lots, and the *)
(* sums of quantities, lots and risk.  Last the paper trade: receipts and  *)
(* executions, the budget of an entry, and the stop behind a position.     *)
(***************************************************************************)
EXTENDS FillLedger, PaperTrade, FiniteSetTheorems, SequenceTheorems, WellFoundedInduction,
        TLAPS

(* Quantities are numbers. *)
LEMMA QuantityIsNatural ==
    \A quantity \in Quantities : quantity \in Nat
BY LedgerAssumption

(* The row of an order that was placed. *)
LEMMA PlacedRow ==
    ASSUME RowsTyped, NEW o \in Placed
    PROVE  o \in Orders /\ order[o] \in OrderRows
BY DEF RowsTyped, Placed

(* A row is never mistaken for a missing one. *)
LEMMA RowIsPlaced ==
    ASSUME NEW row \in OrderRows
    PROVE  row # NoOrder
BY DEF OrderRows, NoOrder

(* What the order operators return is a row. *)
LEMMA OrderRowType ==
    ASSUME NEW row \in OrderRows, NEW quantity \in Quantities
    PROVE  /\ Filled(row, quantity) \in OrderRows
           /\ \A status \in Statuses : Moved(row, status) \in OrderRows
           /\ [row EXCEPT !.link = "ACTIVE"] \in OrderRows
<1>1. quantity \in Nat /\ row.requested \in Nat /\ row.filled + quantity \in Nat
  <2>1. row.requested \in Quantities /\ row.filled \in Nat
    BY DEF OrderRows
  <2>2. quantity \in Nat /\ row.requested \in Nat
    BY <2>1, QuantityIsNatural
  <2> QED
    BY <2>1, <2>2
<1>2. FilledStatus(row.filled + quantity, row.requested) \in Statuses
  BY <1>1 DEF FilledStatus, Statuses, Terminal
<1>3. Filled(row, quantity) \in OrderRows
  BY <1>1, <1>2 DEF Filled, OrderRows
<1>4. ASSUME NEW status \in Statuses PROVE Moved(row, status) \in OrderRows
  BY DEF Moved, OrderRows, LinkStatuses
<1>5. [row EXCEPT !.link = "ACTIVE"] \in OrderRows
  BY DEF OrderRows, LinkStatuses
<1> QED
  BY <1>3, <1>4, <1>5

(* A fill takes no more from a reservation than it holds, and no more than the *)
(* fill's own risk, and what it takes stays in the reservation's balance.      *)
LEMMA Spending ==
    ASSUME NEW r \in ReservationRows, NEW risk \in Nat
    PROVE  /\ Reclaimed(r, risk) \in Nat /\ FromRemaining(r, risk) \in Nat
           /\ Reclaimed(r, risk) <= r.released
           /\ FromRemaining(r, risk) <= r.remaining
           /\ Reclaimed(r, risk) + FromRemaining(r, risk) <= risk
           /\ Consumed(r, risk) \in ReservationRows
           /\ Consumed(r, risk).consumed =
                 r.consumed + Reclaimed(r, risk) + FromRemaining(r, risk)
           /\ Consumed(r, risk).remaining = r.remaining - FromRemaining(r, risk)
           /\ Consumed(r, risk).released = r.released - Reclaimed(r, risk)
           /\ Consumed(r, risk).initial = r.initial
           /\ Consumed(r, risk).status =
                 IF Consumed(r, risk).remaining # 0 \/ Consumed(r, risk).released # 0
                 THEN "PARTIALLY_CONSUMED" ELSE "CONSUMED"
<1>1. r.released \in Nat /\ r.remaining \in Nat /\ r.consumed \in Nat
  BY DEF ReservationRows
<1>2. Reclaimed(r, risk) \in Nat /\ Reclaimed(r, risk) <= r.released
      /\ Reclaimed(r, risk) <= risk
  BY <1>1 DEF Reclaimed, Smaller
<1>3. /\ FromRemaining(r, risk) \in Nat /\ FromRemaining(r, risk) <= r.remaining
      /\ FromRemaining(r, risk) <= risk - Reclaimed(r, risk)
  BY <1>1, <1>2 DEF FromRemaining, Smaller
<1>4. PICK reclaimed \in Nat, taken \in Nat :
         /\ reclaimed = Reclaimed(r, risk) /\ taken = FromRemaining(r, risk)
         /\ reclaimed <= r.released /\ taken <= r.remaining
  BY <1>2, <1>3
<1>5. PICK status \in {"PARTIALLY_CONSUMED", "CONSUMED"} :
         status = IF r.remaining - taken # 0 \/ r.released - reclaimed # 0
                  THEN "PARTIALLY_CONSUMED" ELSE "CONSUMED"
  OBVIOUS
<1>6. Consumed(r, risk) = [r EXCEPT !.consumed = @ + reclaimed + taken,
                                    !.released = r.released - reclaimed,
                                    !.remaining = r.remaining - taken,
                                    !.status = status]
  BY <1>4, <1>5 DEF Consumed
<1>7. /\ r.consumed + reclaimed + taken \in Nat
      /\ r.released - reclaimed \in Nat /\ r.remaining - taken \in Nat
  BY <1>1, <1>4
<1>8. Consumed(r, risk) \in ReservationRows
  BY <1>6, <1>7 DEF ReservationRows
<1>9. /\ Consumed(r, risk).consumed = r.consumed + reclaimed + taken
      /\ Consumed(r, risk).remaining = r.remaining - taken
      /\ Consumed(r, risk).released = r.released - reclaimed
      /\ Consumed(r, risk).initial = r.initial
      /\ Consumed(r, risk).status = status
  BY <1>6 DEF ReservationRows
<1>10. Reclaimed(r, risk) + FromRemaining(r, risk) <= risk
  BY <1>2, <1>3
<1> QED
  BY <1>2, <1>3, <1>4, <1>5, <1>8, <1>9, <1>10

(* What a fill is charged with is an amount. *)
LEMMA RiskIsNatural ==
    ASSUME NEW side \in Sides, NEW quantity \in Nat, NEW previous \in Int, NEW price \in Nat
    PROVE  price * Opening(side, quantity, previous) \in Nat
<1>1. Opening(side, quantity, previous) \in Nat
  BY DEF Opening, Larger
<1> QED
  BY <1>1

(* What a fill does, with its order's account and side and its risk named. *)
FillEffect(o, e, quantity, price, a, side, risk) ==
    /\ o \in Placed /\ order[o] \in OrderRows /\ a = order[o].account
    /\ side = order[o].side /\ fill[a][e] = NoFill
    /\ reservation[o] \in ReservationRows
    /\ fill' = [fill EXCEPT ![a][e] = Execution(o, quantity, price)]
    /\ order' = [order EXCEPT ![o] = Filled(order[o], quantity)]
    /\ position' = [position EXCEPT ![a] = position[a] + Signed(side, quantity)]
    /\ blocking' = [blocking EXCEPT ![a] =
                       blocking[a] \/ position[a] + Signed(side, quantity) < 0]
    /\ life' = [life EXCEPT ![a] =
                   NextLife(position[a], position[a] + Signed(side, quantity), life[a])]
    /\ lot' = [lot EXCEPT ![a] = NextLots(a, e, side, quantity)]
    /\ reservation' = [reservation EXCEPT ![o] = Consumed(reservation[o], risk)]
    /\ anchor' = Charged(a, reservation[o], risk)
    /\ incidents' = Raised(o, FillReasons(reservation[o], risk,
                              order[o].filled + quantity > order[o].requested))

(* A fill has that effect, for some amount of risk. *)
LEMMA FillStep ==
    ASSUME RowsTyped, NEW o \in Orders, NEW e \in Executions, NEW quantity \in Quantities,
           NEW price \in Prices, ApplyFill(o, e, quantity, price)
    PROVE  \E a \in Accounts, side \in Sides, risk \in Nat :
              FillEffect(o, e, quantity, price, a, side, risk)
<1>1. o \in Placed
  BY DEF ApplyFill
<1>2. order[o] \in OrderRows
  BY <1>1, PlacedRow
<1>3. PICK a \in Accounts, side \in Sides : a = order[o].account /\ side = order[o].side
  BY <1>2 DEF OrderRows
<1>4. price \in Nat /\ quantity \in Nat
  BY LedgerAssumption
<1>5. position[a] \in Int
  BY DEF RowsTyped
<1>6. PICK risk \in Nat : risk = price * Opening(side, quantity, position[a])
  BY <1>4, <1>5, RiskIsNatural
<1>7. reservation[o] \in ReservationRows
  BY DEF RowsTyped
<1> QED
  BY <1>1, <1>2, <1>3, <1>6, <1>7 DEF ApplyFill, FillEffect, Unseen

(* Every transaction writes rows of the right type. *)
THEOREM RowsTypedAlways == Spec => []RowsTyped
<1>1. Init => RowsTyped
  BY DEF Init, RowsTyped, NoReservation, ReservationRows, Lives
<1>2. RowsTyped /\ [Next]_vars => RowsTyped'
  <2> SUFFICES ASSUME RowsTyped, [Next]_vars PROVE RowsTyped'
    OBVIOUS
  <2>1. ASSUME UNCHANGED vars PROVE RowsTyped'
    BY <2>1 DEF RowsTyped, vars
  <2>2. ASSUME NEW o \in Orders, NEW a \in Accounts, NEW side \in Sides,
               NEW quantity \in Quantities, NEW status \in Statuses,
               NEW link \in LinkStatuses, NEW adopted \in BOOLEAN,
               NEW risk \in Nat, NEW state \in {"ACTIVE", "CONSUMED"},
               order' = [order EXCEPT ![o] =
                            NewOrder(a, side, quantity, status, link, adopted)],
               reservation' = [reservation EXCEPT ![o] = Reserved(risk, state)],
               anchor' = Anchored(a, risk) \/ anchor' = anchor, OnlyOrders
        PROVE  RowsTyped'
    <3>1. NewOrder(a, side, quantity, status, link, adopted) \in OrderRows
      BY <2>2 DEF NewOrder, OrderRows
    <3>2. Reserved(risk, state) \in ReservationRows
      BY <2>2 DEF Reserved, ReservationRows
    <3>3. Anchored(a, risk) \in [Keys -> [position : Nat, remaining : Int]]
      BY <2>2 DEF RowsTyped, Anchored
    <3>4. order' \in [Orders -> {NoOrder} \cup OrderRows]
      BY <2>2, <3>1 DEF RowsTyped
    <3>5. reservation' \in [Orders -> ReservationRows]
      BY <2>2, <3>2 DEF RowsTyped
    <3>6. anchor' \in [Keys -> [position : Nat, remaining : Int]]
      BY <2>2, <3>3 DEF RowsTyped
    <3> QED
      BY <2>2, <3>4, <3>5, <3>6 DEF RowsTyped, OnlyOrders
  <2>3. ASSUME NEW o \in Orders, NEW a \in Accounts, NEW side \in Sides,
               NEW quantity \in Quantities, Reduce(o, a, side, quantity)
        PROVE  RowsTyped'
    BY <2>2, <2>3 DEF Reduce, LinkStatuses, Statuses
  <2>4. ASSUME NEW o \in Orders, NEW a \in Accounts, NEW side \in Sides,
               NEW quantity \in Quantities, NEW risk \in Risks,
               Approve(o, a, side, quantity, risk) \/ Adopt(o, a, side, quantity, risk)
        PROVE  RowsTyped'
    <3>1. risk \in Nat
      BY <2>4, LedgerAssumption
    <3> QED
      <4>1. CASE Approve(o, a, side, quantity, risk)
        BY <2>2, <3>1, <4>1 DEF Approve, LinkStatuses, Statuses
      <4>2. CASE Adopt(o, a, side, quantity, risk)
        BY <2>2, <3>1, <4>2 DEF Adopt, LinkStatuses, Statuses
      <4> QED
        BY <2>4, <4>1, <4>2
  <2>5. ASSUME NEW o \in Orders, Link(o) PROVE RowsTyped'
    <3>1. order[o] \in OrderRows
      BY <2>5, PlacedRow DEF Link
    <3>2. [order[o] EXCEPT !.link = "ACTIVE"] \in OrderRows
      BY <3>1 DEF OrderRows, LinkStatuses
    <3>3. order' \in [Orders -> {NoOrder} \cup OrderRows]
      BY <2>5, <3>2 DEF Link, RowsTyped
    <3> QED
      BY <2>5, <3>3 DEF Link, OnlyOrders, RowsTyped
  <2>6. ASSUME NEW o \in Orders, NEW reasons \in SUBSET Reasons, incidents' = Raised(o, reasons)
        PROVE  incidents' \subseteq Reasons \X Orders
    BY <2>6 DEF Raised, RowsTyped
  <2>7. ASSUME NEW o \in Orders, NEW status \in Statuses, ApplyStatus(o, status)
        PROVE  RowsTyped'
    <3>1. order[o] \in OrderRows
      BY <2>7, PlacedRow DEF ApplyStatus
    <3>2. PICK next \in Statuses : order' = [order EXCEPT ![o] = Moved(order[o], next)]
      BY <2>7 DEF ApplyStatus, Statuses
    <3>3. Moved(order[o], next) \in OrderRows
      BY <3>1 DEF Moved, OrderRows, LinkStatuses
    <3>4. order' \in [Orders -> {NoOrder} \cup OrderRows]
      BY <3>2, <3>3 DEF RowsTyped
    <3>5. PICK reasons \in SUBSET Reasons : incidents' = Raised(o, reasons)
      BY <2>7 DEF ApplyStatus, Reasons
    <3>6. incidents' \subseteq Reasons \X Orders
      BY <2>6, <3>5
    <3> QED
      BY <2>7, <3>4, <3>6 DEF ApplyStatus, RowsTyped
  <2>8. ASSUME NEW o \in Orders, NEW e \in Executions, NEW quantity \in Quantities,
               NEW price \in Prices, ApplyFill(o, e, quantity, price)
        PROVE  RowsTyped'
    <3>1. PICK a \in Accounts, side \in Sides, risk \in Nat : 
               FillEffect(o, e, quantity, price, a, side, risk)
      BY <2>8, FillStep
    <3>2. order' \in [Orders -> {NoOrder} \cup OrderRows]
      BY <3>1, OrderRowType DEF FillEffect, RowsTyped
    <3>3. reservation' \in [Orders -> ReservationRows]
      BY <3>1, Spending DEF FillEffect, RowsTyped
    <3>4. anchor' \in [Keys -> [position : Nat, remaining : Int]]
      <4>1. PICK taken \in Nat : taken = FromRemaining(reservation[o], risk)
        BY <3>1, Spending DEF FillEffect
      <4>2. ASSUME NEW k \in Keys
            PROVE  /\ anchor[k].position \in Nat /\ anchor[k].remaining \in Int
                   /\ anchor[k] \in [position : Nat, remaining : Int]
        BY DEF RowsTyped
      <4>3. ASSUME NEW k \in Keys
            PROVE  anchor[k].position + risk \in Nat /\ anchor[k].remaining - taken \in Int
        BY <4>2
      <4> QED
        BY <3>1, <4>1, <4>2, <4>3 DEF FillEffect, Charged
    <3>5. fill' \in [Accounts -> [Executions -> {NoFill} \cup
                        [order : Orders, quantity : Quantities, price : Prices]]]
      <4>1. Execution(o, quantity, price) \in
                [order : Orders, quantity : Quantities, price : Prices]
        BY DEF Execution
      <4> QED
        BY <3>1, <4>1 DEF FillEffect, RowsTyped
    <3>6. position' \in [Accounts -> Int]
      <4>1. quantity \in Nat /\ position[a] \in Int
        BY QuantityIsNatural DEF RowsTyped
      <4>2. position[a] + Signed(side, quantity) \in Int
        BY <4>1 DEF Signed
      <4> QED
        BY <3>1, <4>2 DEF FillEffect, RowsTyped
    <3>7. blocking' \in [Accounts -> BOOLEAN]
      BY <3>1 DEF FillEffect, RowsTyped
    <3>8. life' \in [Accounts -> Lives]
      <4>1. life[a] \in Lives
        BY DEF RowsTyped
      <4>2. NextLife(position[a], position[a] + Signed(side, quantity), life[a]) \in Lives
        BY <4>1 DEF NextLife, Lives
      <4> QED
        BY <3>1, <4>2 DEF FillEffect, RowsTyped
    <3>9. incidents' \subseteq Reasons \X Orders
      <4>1. FillReasons(reservation[o], risk, order[o].filled + quantity > order[o].requested)
                \in SUBSET Reasons
        BY DEF FillReasons, Reasons
      <4> QED
        BY <2>6, <3>1, <4>1 DEF FillEffect
    <3> QED
      BY <3>2, <3>3, <3>4, <3>5, <3>6, <3>7, <3>8, <3>9 DEF RowsTyped
  <2>9. ASSUME NEW o \in Orders, NEW e \in Executions, NEW quantity \in Quantities,
               NEW price \in Prices, RepeatFill(o, e, quantity, price)
        PROVE  RowsTyped'
    <3>1. order[o] \in OrderRows
      BY <2>9, PlacedRow DEF RepeatFill
    <3>2. order[o].account \in Accounts
      BY <3>1 DEF OrderRows
    <3>3. PICK a \in Accounts : a = order[o].account
      BY <3>2
    <3>4. fill[a][e].order \in Orders
      BY <2>9, <3>3 DEF RepeatFill, RowsTyped
    <3>5. incidents' \subseteq Reasons \X Orders
      BY <2>9, <2>6, <3>3, <3>4 DEF RepeatFill, Reasons
    <3> QED
      BY <2>9, <3>5 DEF RepeatFill, RowsTyped
  <2>10. ASSUME NEW o \in Orders, Release(o) PROVE RowsTyped'
    <3>1. order[o] \in OrderRows
      BY <2>10, PlacedRow DEF Release
    <3>2. PICK a \in Accounts : a = order[o].account
      BY <3>1 DEF OrderRows
    <3>3. PICK r \in ReservationRows : r = reservation[o]
      BY DEF RowsTyped
    <3>4. r.remaining \in Nat /\ r.released \in Nat
      BY DEF ReservationRows
    <3>5. [r EXCEPT !.remaining = 0, !.released = @ + r.remaining, !.status = "RELEASED"]
             \in ReservationRows
      <4>1. PICK total \in Nat : total = r.released + r.remaining
        BY <3>4
      <4>2. [r EXCEPT !.remaining = 0, !.released = total, !.status = "RELEASED"]
               \in ReservationRows
        BY DEF ReservationRows
      <4> QED
        BY <4>1, <4>2
    <3>6. reservation' \in [Orders -> ReservationRows]
      BY <2>10, <3>3, <3>5 DEF Release, RowsTyped
    <3>7. anchor' \in [Keys -> [position : Nat, remaining : Int]]
      <4>1. anchor' = Anchored(a, -r.remaining)
        BY <2>10, <3>2, <3>3 DEF Release, GivenBack
      <4>2. PICK change \in Int : change = -r.remaining
        BY <3>4
      <4> QED
        BY <4>1, <4>2 DEF Anchored, RowsTyped
    <3> QED
      BY <2>10, <3>6, <3>7 DEF Release, OnlyOrders, RowsTyped
  <2> QED
    BY <2>1, <2>3, <2>4, <2>5, <2>7, <2>8, <2>9, <2>10 DEF Next, Placing, Executing
<1> QED
  BY <1>1, <1>2, PTL DEF Spec

-----------------------------------------------------------------------------
(* Only the three ways of placing an order place one. *)
LEMMA PlacedGrows ==
    ASSUME RowsTyped, NEW o \in Orders, NEW row \in OrderRows,
           order' = [order EXCEPT ![o] = row]
    PROVE  /\ Placed' = Placed \cup {o}
           /\ \A p \in Orders : p # o => order'[p] = order[p]
           /\ order'[o] = row
BY RowIsPlaced DEF RowsTyped, Placed

(* No risk is lost or counted twice in a reservation, whatever fills and        *)
(* releases do to it (fills.py:314-333, terminal_release_store.py).            *)
THEOREM ReservationBalancesAlways == Spec => []ReservationBalances
<1>1. Init => ReservationBalances
  BY DEF Init, ReservationBalances, Placed
<1>2. RowsTyped /\ ReservationBalances /\ [Next]_vars => ReservationBalances'
  <2> SUFFICES ASSUME RowsTyped, ReservationBalances, [Next]_vars
               PROVE  ReservationBalances'
    OBVIOUS
  <2>1. ASSUME NEW o \in Orders, NEW row \in OrderRows, NEW r \in ReservationRows,
               order' = [order EXCEPT ![o] = row],
               reservation' = [reservation EXCEPT ![o] = r], Balanced(r)
        PROVE  ReservationBalances'
    <3> SUFFICES ASSUME NEW p \in Placed' PROVE Balanced(reservation'[p])
      BY DEF ReservationBalances, Balanced
    <3>0. Placed' = Placed \cup {o}
      BY <2>1, PlacedGrows
    <3>1. p \in Placed \/ p = o
      BY <3>0
    <3>2. CASE p = o
      BY <2>1, <3>2 DEF RowsTyped
    <3>3. CASE p # o
      BY <2>1, <3>1, <3>3 DEF RowsTyped, ReservationBalances
    <3> QED
      BY <3>2, <3>3
  <2>2. ASSUME Placed' = Placed, UNCHANGED reservation PROVE ReservationBalances'
    BY <2>2 DEF ReservationBalances, Balanced
  <2>3. ASSUME NEW risk \in Nat, NEW status \in {"ACTIVE", "CONSUMED"},
               status = "CONSUMED" => risk = 0
        PROVE  Reserved(risk, status) \in ReservationRows /\ Balanced(Reserved(risk, status))
    BY <2>3 DEF Reserved, ReservationRows, Balanced
  <2>4. ASSUME NEW o \in Orders, NEW a \in Accounts, NEW side \in Sides,
               NEW quantity \in Quantities, Reduce(o, a, side, quantity)
        PROVE  ReservationBalances'
    <3>1. NewOrder(a, side, quantity, "CREATED", "NONE", FALSE) \in OrderRows
      BY DEF NewOrder, OrderRows, Statuses, LinkStatuses
    <3> QED
      BY <2>1, <2>3, <2>4, <3>1 DEF Reduce
  <2>5. ASSUME NEW o \in Orders, NEW a \in Accounts, NEW side \in Sides,
               NEW quantity \in Quantities, NEW risk \in Risks,
               Approve(o, a, side, quantity, risk) \/ Adopt(o, a, side, quantity, risk)
        PROVE  ReservationBalances'
    <3>1. risk \in Nat
      BY LedgerAssumption
    <3>2. /\ NewOrder(a, side, quantity, "CREATED", "NONE", FALSE) \in OrderRows
          /\ NewOrder(a, side, quantity, "UNKNOWN", "UNKNOWN", TRUE) \in OrderRows
      BY DEF NewOrder, OrderRows, Statuses, LinkStatuses
    <3>3. CASE Approve(o, a, side, quantity, risk)
      BY <2>1, <2>3, <3>1, <3>2, <3>3 DEF Approve
    <3>4. CASE Adopt(o, a, side, quantity, risk)
      BY <2>1, <2>3, <3>1, <3>2, <3>4 DEF Adopt
    <3> QED
      BY <2>5, <3>3, <3>4
  <2>6. ASSUME NEW o \in Orders, Link(o) PROVE ReservationBalances'
    <3>1. order[o] \in OrderRows /\ o \in Placed
      BY <2>6, PlacedRow DEF Link
    <3>2. [order[o] EXCEPT !.link = "ACTIVE"] \in OrderRows
      BY <3>1 DEF OrderRows, LinkStatuses
    <3>3. order' = [order EXCEPT ![o] = [order[o] EXCEPT !.link = "ACTIVE"]]
      BY <2>6 DEF Link
    <3>4. Placed' = Placed \cup {o}
      BY <3>2, <3>3, PlacedGrows
    <3> QED
      BY <2>2, <2>6, <3>1, <3>4 DEF Link
  <2>7. ASSUME NEW o \in Orders, NEW status \in Statuses, ApplyStatus(o, status)
        PROVE  ReservationBalances'
    <3>1. order[o] \in OrderRows /\ o \in Placed
      BY <2>7, PlacedRow DEF ApplyStatus
    <3>2. PICK next \in Statuses : order' = [order EXCEPT ![o] = Moved(order[o], next)]
      BY <2>7 DEF ApplyStatus, Statuses
    <3>3. Moved(order[o], next) \in OrderRows
      BY <3>1 DEF Moved, OrderRows, LinkStatuses
    <3>4. Placed' = Placed \cup {o}
      BY <3>2, <3>3, PlacedGrows
    <3> QED
      BY <2>2, <2>7, <3>1, <3>4 DEF ApplyStatus
  <2>8. ASSUME NEW o \in Orders, NEW e \in Executions, NEW quantity \in Quantities,
               NEW price \in Prices, ApplyFill(o, e, quantity, price)
        PROVE  ReservationBalances'
    <3>1. PICK a \in Accounts, side \in Sides, risk \in Nat :
               FillEffect(o, e, quantity, price, a, side, risk)
      BY <2>8, FillStep
    <3>2. Filled(order[o], quantity) \in OrderRows
      BY <3>1, OrderRowType DEF FillEffect
    <3>3. PICK r \in ReservationRows : r = reservation[o] /\ Balanced(r)
      BY <3>1 DEF FillEffect, ReservationBalances
    <3>4. PICK s \in ReservationRows : s = Consumed(r, risk)
      BY Spending
    <3>5. Balanced(s)
      <4>1. PICK reclaimed \in Nat, taken \in Nat :
               /\ s.consumed = r.consumed + reclaimed + taken
               /\ s.remaining = r.remaining - taken
               /\ s.released = r.released - reclaimed
               /\ s.initial = r.initial
               /\ s.status = IF s.remaining # 0 \/ s.released # 0
                             THEN "PARTIALLY_CONSUMED" ELSE "CONSUMED"
        <5>1. Reclaimed(r, risk) \in Nat /\ FromRemaining(r, risk) \in Nat
          BY Spending
        <5>2. /\ s.consumed = r.consumed + Reclaimed(r, risk) + FromRemaining(r, risk)
              /\ s.remaining = r.remaining - FromRemaining(r, risk)
              /\ s.released = r.released - Reclaimed(r, risk)
              /\ s.initial = r.initial
          BY <3>4, Spending
        <5>3. s.status = IF s.remaining # 0 \/ s.released # 0
                         THEN "PARTIALLY_CONSUMED" ELSE "CONSUMED"
          BY <3>4, Spending
        <5> QED
          BY <5>1, <5>2, <5>3
      <4>2. /\ r.consumed \in Nat /\ r.remaining \in Nat /\ r.released \in Nat
            /\ s.consumed \in Nat /\ s.remaining \in Nat /\ s.released \in Nat
            /\ r.initial \in Nat
        BY DEF ReservationRows
      <4>3. r.consumed + r.remaining + r.released = r.initial
        BY <3>3 DEF Balanced
      <4>4. s.consumed + s.remaining + s.released = s.initial
        BY <4>1, <4>2, <4>3
      <4> QED
        BY <4>1, <4>2, <4>4 DEF Balanced
    <3> QED
      BY <2>1, <3>1, <3>2, <3>3, <3>4, <3>5 DEF FillEffect
  <2>9. ASSUME NEW o \in Orders, NEW e \in Executions, NEW quantity \in Quantities,
               NEW price \in Prices, RepeatFill(o, e, quantity, price)
        PROVE  ReservationBalances'
    BY <2>2, <2>9 DEF RepeatFill, Placed
  <2>10. ASSUME NEW o \in Orders, Release(o) PROVE ReservationBalances'
    <3>1. order[o] \in OrderRows /\ o \in Placed
      BY <2>10, PlacedRow DEF Release
    <3>2. PICK r \in ReservationRows : r = reservation[o] /\ Balanced(r)
      BY <3>1 DEF RowsTyped, ReservationBalances
    <3>3. r.remaining \in Nat /\ r.released \in Nat /\ r.consumed \in Nat /\ r.initial \in Nat
      BY DEF ReservationRows
    <3>4. PICK total \in Nat : total = r.released + r.remaining
      BY <3>3
    <3>5. PICK s \in ReservationRows :
             s = [r EXCEPT !.remaining = 0, !.released = total, !.status = "RELEASED"]
      BY DEF ReservationRows
    <3>6. Balanced(s)
      <4>1. /\ s.remaining = 0 /\ s.released = total /\ s.status = "RELEASED"
            /\ s.consumed = r.consumed /\ s.initial = r.initial
        BY <3>5 DEF ReservationRows
      <4> QED
        BY <3>2, <3>3, <3>4, <4>1 DEF Balanced
    <3>7. reservation' = [reservation EXCEPT ![o] = s]
      BY <2>10, <3>2, <3>4, <3>5 DEF Release
    <3>8. order' = [order EXCEPT ![o] = order[o]]
      BY <2>10 DEF Release, RowsTyped
    <3> QED
      BY <2>1, <3>1, <3>6, <3>7, <3>8
  <2>11. CASE UNCHANGED vars
    BY <2>2, <2>11 DEF vars, Placed
  <2> QED
    BY <2>4, <2>5, <2>6, <2>7, <2>8, <2>9, <2>10, <2>11 DEF Next, Placing, Executing
<1> QED
  BY <1>1, <1>2, RowsTypedAlways, PTL DEF Spec

-----------------------------------------------------------------------------
(* Every step but a fill leaves the account as it is. *)
LEMMA OthersLeaveAccounts ==
    ASSUME [Next]_vars,
           ~ \E o \in Orders, e \in Executions, quantity \in Quantities, price \in Prices :
                ApplyFill(o, e, quantity, price)
    PROVE  UNCHANGED <<position, blocking, life>>
<1>1. CASE UNCHANGED vars
  BY <1>1 DEF vars
<1>2. ASSUME NEW o \in Orders, Placing(o) \/ Link(o) \/ Release(o)
      PROVE  UNCHANGED <<position, blocking, life>>
  BY <1>2 DEF Placing, Reduce, Approve, Adopt, Link, Release, OnlyOrders
<1>3. ASSUME NEW o \in Orders, NEW status \in Statuses, ApplyStatus(o, status)
      PROVE  UNCHANGED <<position, blocking, life>>
  BY <1>3 DEF ApplyStatus
<1>4. ASSUME NEW o \in Orders, Executing(o)
      PROVE  UNCHANGED <<position, blocking, life>>
  BY <1>4 DEF Executing, RepeatFill
<1> QED
  BY <1>1, <1>2, <1>3, <1>4 DEF Next

(* A lifecycle is active exactly while the account is not flat, and a position  *)
(* that is short blocks (execution/positions/lifecycle.py, fills.py).           *)
THEOREM LifecycleFollowsPositionAlways == Spec => []LifecycleFollowsPosition
<1>1. Init => LifecycleFollowsPosition
  BY DEF Init, LifecycleFollowsPosition
<1>2. RowsTyped /\ LifecycleFollowsPosition /\ [Next]_vars => LifecycleFollowsPosition'
  <2> SUFFICES ASSUME RowsTyped, LifecycleFollowsPosition, [Next]_vars
               PROVE  LifecycleFollowsPosition'
    OBVIOUS
  <2>1. ASSUME NEW o \in Orders, NEW e \in Executions, NEW quantity \in Quantities,
               NEW price \in Prices, ApplyFill(o, e, quantity, price)
        PROVE  LifecycleFollowsPosition'
    <3>1. PICK a \in Accounts, side \in Sides, risk \in Nat :
               FillEffect(o, e, quantity, price, a, side, risk)
      BY <2>1, FillStep
    <3>2. quantity \in Nat /\ position[a] \in Int
      BY QuantityIsNatural DEF RowsTyped
    <3>3. PICK next \in Int : next = position[a] + Signed(side, quantity)
      BY <3>2 DEF Signed
    <3>4. /\ position' = [position EXCEPT ![a] = next]
          /\ blocking' = [blocking EXCEPT ![a] = blocking[a] \/ next < 0]
          /\ life' = [life EXCEPT ![a] = NextLife(position[a], next, life[a])]
      BY <3>1, <3>3 DEF FillEffect
    <3>5. NextLife(position[a], next, life[a]) = "NONE" <=> next = 0
      <4>1. life[a] = "NONE" <=> position[a] = 0
        BY DEF LifecycleFollowsPosition
      <4>2. position[a] = 0 => position[a] * next = 0
        BY <3>2
      <4>3. next = 0 => position[a] * next = 0
        BY <3>2
      <4> QED
        BY <3>2, <4>1, <4>2, <4>3 DEF NextLife
    <3>6. ASSUME NEW b \in Accounts
          PROVE  /\ life'[b] = "NONE" <=> position'[b] = 0
                 /\ position'[b] < 0 => blocking'[b]
      <4>1. CASE b = a
        <5>1. life'[b] = NextLife(position[a], next, life[a]) /\ position'[b] = next
          BY <3>4, <4>1 DEF RowsTyped
        <5>2. blocking'[b] = (blocking[a] \/ next < 0)
          BY <3>4, <4>1, Zenon DEF RowsTyped
        <5> QED
          BY <3>5, <5>1, <5>2
      <4>2. CASE b # a
        <5>1. life'[b] = life[b] /\ position'[b] = position[b]
          BY <3>4, <4>2 DEF RowsTyped
        <5>2. blocking'[b] = blocking[b]
          BY <3>4, <4>2, Zenon DEF RowsTyped
        <5> QED
          BY <5>1, <5>2 DEF LifecycleFollowsPosition
      <4> QED
        BY <4>1, <4>2
    <3> QED
      BY <3>6 DEF LifecycleFollowsPosition
  <2>2. CASE ~ \E o \in Orders, e \in Executions, quantity \in Quantities, price \in Prices :
                  ApplyFill(o, e, quantity, price)
    BY <2>2, OthersLeaveAccounts DEF LifecycleFollowsPosition
  <2> QED
    BY <2>1, <2>2
<1> QED
  BY <1>1, <1>2, RowsTypedAlways, PTL DEF Spec

-----------------------------------------------------------------------------
(* An overfill of one order is reported, and shows. *)
Reported(o) ==
    order[o].filled > order[o].requested =>
        /\ <<"ORDER_OVERFILL", o>> \in incidents
        /\ order[o].status = "UNKNOWN"

(* An order filled beyond its quantity is reported and stays UNKNOWN, whatever  *)
(* statuses and fills follow (fills.py:203-213, 338-360; state_machine.py).     *)
THEOREM OverfillIsReportedAlways == Spec => []OverfillIsReported
<1>1. Init => OverfillIsReported
  BY DEF Init, OverfillIsReported, Placed
<1>2. RowsTyped /\ OverfillIsReported /\ [Next]_vars => OverfillIsReported'
  <2> SUFFICES ASSUME RowsTyped, OverfillIsReported, [Next]_vars
               PROVE  OverfillIsReported'
    OBVIOUS
  <2>0. \A o \in Placed : Reported(o)
    BY DEF OverfillIsReported, Reported
  <2>1. ASSUME NEW o \in Orders, NEW row \in OrderRows,
               order' = [order EXCEPT ![o] = row], incidents \subseteq incidents',
               row.filled > row.requested =>
                  <<"ORDER_OVERFILL", o>> \in incidents' /\ row.status = "UNKNOWN"
        PROVE  OverfillIsReported'
    <3> SUFFICES ASSUME NEW p \in Placed', order'[p].filled > order'[p].requested
                 PROVE  <<"ORDER_OVERFILL", p>> \in incidents' /\ order'[p].status = "UNKNOWN"
      BY DEF OverfillIsReported
    <3>1. Placed' = Placed \cup {o}
      BY <2>1, PlacedGrows
    <3>2. CASE p = o
      BY <2>1, <3>2, PlacedGrows
    <3>3. CASE p # o
      <4>1. p \in Placed /\ p \in Orders
        BY <3>1, <3>3 DEF Placed
      <4>2. order'[p] = order[p]
        BY <2>1, <3>3, <4>1, PlacedGrows
      <4> QED
        BY <2>0, <2>1, <4>1, <4>2 DEF Reported
    <3> QED
      BY <3>2, <3>3
  <2>2. ASSUME UNCHANGED order, incidents \subseteq incidents' PROVE OverfillIsReported'
    BY <2>2 DEF OverfillIsReported, Placed
  <2>3. ASSUME NEW o \in Orders, NEW a \in Accounts, NEW side \in Sides,
               NEW quantity \in Quantities, NEW status \in Statuses,
               NEW link \in LinkStatuses, NEW adopted \in BOOLEAN,
               order' = [order EXCEPT ![o] =
                            NewOrder(a, side, quantity, status, link, adopted)], OnlyOrders
        PROVE  OverfillIsReported'
    <3>1. PICK row \in OrderRows : row = NewOrder(a, side, quantity, status, link, adopted)
      BY <2>3 DEF NewOrder, OrderRows
    <3>2. row.filled = 0 /\ row.requested = quantity /\ quantity \in Nat
      BY <3>1, QuantityIsNatural DEF NewOrder
    <3>3. ~(row.filled > row.requested)
      BY <3>2
    <3>4. order' = [order EXCEPT ![o] = row] /\ incidents' = incidents
      BY <2>3, <3>1 DEF OnlyOrders
    <3> QED
      BY <2>1, <3>3, <3>4
  <2>4. ASSUME NEW o \in Orders, NEW a \in Accounts, NEW side \in Sides,
               NEW quantity \in Quantities, Reduce(o, a, side, quantity)
        PROVE  OverfillIsReported'
    BY <2>3, <2>4 DEF Reduce, LinkStatuses, Statuses
  <2>5. ASSUME NEW o \in Orders, NEW a \in Accounts, NEW side \in Sides,
               NEW quantity \in Quantities, NEW risk \in Risks,
               Approve(o, a, side, quantity, risk)
        PROVE  OverfillIsReported'
    BY <2>3, <2>5 DEF Approve, LinkStatuses, Statuses
  <2>6. ASSUME NEW o \in Orders, NEW a \in Accounts, NEW side \in Sides,
               NEW quantity \in Quantities, NEW risk \in Risks,
               Adopt(o, a, side, quantity, risk)
        PROVE  OverfillIsReported'
    BY <2>3, <2>6 DEF Adopt, LinkStatuses, Statuses
  <2>7. ASSUME NEW o \in Orders, Link(o) PROVE OverfillIsReported'
    <3>1. order[o] \in OrderRows /\ o \in Placed
      BY <2>7, PlacedRow DEF Link
    <3>2. PICK row \in OrderRows : row = [order[o] EXCEPT !.link = "ACTIVE"]
      BY <3>1 DEF OrderRows, LinkStatuses
    <3>3. /\ row.filled = order[o].filled /\ row.requested = order[o].requested
          /\ row.status = order[o].status
      BY <3>1, <3>2 DEF OrderRows
    <3>4. order' = [order EXCEPT ![o] = row] /\ incidents' = incidents
      BY <2>7, <3>2 DEF Link, OnlyOrders
    <3> QED
      BY <2>0, <2>1, <3>1, <3>3, <3>4 DEF Reported
  <2>8. ASSUME NEW o \in Orders, NEW status \in Statuses, ApplyStatus(o, status)
        PROVE  OverfillIsReported'
    <3>1. order[o] \in OrderRows /\ o \in Placed
      BY <2>8, PlacedRow DEF ApplyStatus
    <3>2. PICK next \in Statuses :
             /\ order' = [order EXCEPT ![o] = Moved(order[o], next)]
             /\ order[o].status = "UNKNOWN" => next = "UNKNOWN"
      BY <2>8 DEF ApplyStatus, Statuses, Allowed
    <3>3. PICK row \in OrderRows : row = Moved(order[o], next)
      BY <3>1, <3>2 DEF Moved, OrderRows, LinkStatuses
    <3>4. /\ row.filled = order[o].filled /\ row.requested = order[o].requested
          /\ row.status = next
      BY <3>1, <3>3 DEF Moved, OrderRows
    <3>5. incidents \subseteq incidents'
      BY <2>8 DEF ApplyStatus, Raised
    <3> QED
      BY <2>0, <2>1, <3>1, <3>2, <3>3, <3>4, <3>5 DEF Reported
  <2>9. ASSUME NEW o \in Orders, NEW e \in Executions, NEW quantity \in Quantities,
               NEW price \in Prices, ApplyFill(o, e, quantity, price)
        PROVE  OverfillIsReported'
    <3>1. PICK a \in Accounts, side \in Sides, risk \in Nat :
               FillEffect(o, e, quantity, price, a, side, risk)
      BY <2>9, FillStep
    <3>2. PICK row \in OrderRows : row = Filled(order[o], quantity)
      BY <3>1, OrderRowType DEF FillEffect
    <3>3. /\ row.filled = order[o].filled + quantity
          /\ row.requested = order[o].requested
          /\ row.status = FilledStatus(order[o].filled + quantity, order[o].requested)
      BY <3>1, <3>2 DEF FillEffect, Filled, OrderRows
    <3>4. row.filled > row.requested => row.status = "UNKNOWN"
      BY <3>3 DEF FilledStatus
    <3>5. row.filled > row.requested => <<"ORDER_OVERFILL", o>> \in incidents'
      BY <3>1, <3>3 DEF FillEffect, Raised, FillReasons
    <3>6. incidents \subseteq incidents'
      BY <3>1 DEF FillEffect, Raised
    <3>7. order' = [order EXCEPT ![o] = row]
      BY <3>1, <3>2 DEF FillEffect
    <3>8. row.filled > row.requested =>
             <<"ORDER_OVERFILL", o>> \in incidents' /\ row.status = "UNKNOWN"
      BY <3>4, <3>5
    <3> QED
      BY <2>1, <3>6, <3>7, <3>8, Zenon
  <2>10. ASSUME NEW o \in Orders, NEW e \in Executions, NEW quantity \in Quantities,
                NEW price \in Prices, RepeatFill(o, e, quantity, price)
         PROVE  OverfillIsReported'
    BY <2>2, <2>10 DEF RepeatFill, Raised
  <2>11. ASSUME NEW o \in Orders, Release(o) PROVE OverfillIsReported'
    BY <2>2, <2>11 DEF Release, OnlyOrders
  <2>12. CASE UNCHANGED vars
    BY <2>2, <2>12 DEF vars
  <2> QED
    BY <2>4, <2>5, <2>6, <2>7, <2>8, <2>9, <2>10, <2>11, <2>12
       DEF Next, Placing, Executing
<1> QED
  BY <1>1, <1>2, RowsTypedAlways, PTL DEF Spec

-----------------------------------------------------------------------------
(* Nothing was adopted, and no fill exceeded or outlived its reservation. *)
Clean ==
    /\ \A o \in Placed : ~order[o].adopted
    /\ \A o \in Orders :
          /\ <<"FILL_RISK_EXCEEDS_RESERVATION", o>> \notin incidents
          /\ <<"LATE_FILL_AFTER_RESERVATION_RELEASE", o>> \notin incidents

UnderLimit == \A k \in Keys : anchor[k].position + anchor[k].remaining <= HardLimit

(* A ledger that is clean was clean before. *)
LEMMA WasClean ==
    ASSUME RowsTyped, Clean', NEW o \in Orders, NEW row \in OrderRows,
           order' = [order EXCEPT ![o] = row], incidents \subseteq incidents',
           o \in Placed => row.adopted = order[o].adopted
    PROVE  Clean /\ ~row.adopted
<1>1. Placed' = Placed \cup {o} /\ order'[o] = row
  BY PlacedGrows
<1>2. ASSUME NEW p \in Placed PROVE ~order[p].adopted
  <2>1. p \in Orders /\ p \in Placed' /\ ~order'[p].adopted
    BY <1>1, <1>2 DEF Placed, Clean
  <2>2. CASE p = o
    BY <1>1, <1>2, <2>1, <2>2
  <2>3. CASE p # o
    BY <2>1, <2>3, PlacedGrows
  <2> QED
    BY <2>2, <2>3
<1>3. ~row.adopted
  BY <1>1 DEF Clean
<1> QED
  BY <1>2, <1>3 DEF Clean

(* The anchors' sums do not grow, or were checked. *)
LEMMA AnchorKept ==
    ASSUME RowsTyped, UnderLimit, NEW a \in Accounts, NEW amount \in Int,
           amount <= 0 \/ WithinLimit(a, amount), anchor' = Anchored(a, amount)
    PROVE  UnderLimit'
<1> SUFFICES ASSUME NEW k \in Keys
             PROVE  anchor'[k].position + anchor'[k].remaining <= HardLimit
  BY DEF UnderLimit
<1>1. anchor[k].position \in Nat /\ anchor[k].remaining \in Int /\ HardLimit \in Nat
  BY LedgerAssumption DEF RowsTyped
<1>2. anchor[k].position + anchor[k].remaining <= HardLimit
  BY DEF UnderLimit
<1>3. CASE k \in {Global, a}
  <2>1. anchor'[k].position = anchor[k].position
        /\ anchor'[k].remaining = anchor[k].remaining + amount
    BY <1>3 DEF Anchored, RowsTyped
  <2>2. WithinLimit(a, amount) =>
           anchor[k].position + anchor[k].remaining + amount <= HardLimit
    BY <1>3 DEF WithinLimit
  <2> QED
    BY <1>1, <1>2, <2>1, <2>2
<1>4. CASE k \notin {Global, a}
  <2>1. anchor'[k] = anchor[k]
    BY <1>4 DEF Anchored
  <2> QED
    BY <1>2, <2>1
<1> QED
  BY <1>3, <1>4

(* The hard limit bounds position risk and reservations together, for all that  *)
(* the service decided itself, until a fill is reported to exceed or outlive    *)
(* its reservation (risk/service.py:88-98, fills.py:314-360).                   *)
THEOREM LimitHoldsAlways == Spec => []LimitHolds
<1>1. Init => LimitHolds
  BY LedgerAssumption DEF Init, LimitHolds
<1>2. RowsTyped /\ LimitHolds /\ [Next]_vars => LimitHolds'
  <2> SUFFICES ASSUME RowsTyped, LimitHolds, [Next]_vars, Clean' PROVE UnderLimit'
    BY DEF LimitHolds, Clean, UnderLimit
  <2>0. Clean => UnderLimit
    BY DEF LimitHolds, Clean, UnderLimit
  <2>1. ASSUME NEW o \in Orders, NEW a \in Accounts, NEW side \in Sides,
               NEW quantity \in Quantities, NEW risk \in Risks,
               Adopt(o, a, side, quantity, risk)
        PROVE  UnderLimit'
    <3>1. PICK row \in OrderRows : row = NewOrder(a, side, quantity, "UNKNOWN", "UNKNOWN", TRUE)
      BY DEF NewOrder, OrderRows, Statuses, LinkStatuses
    <3>2. row.adopted
      BY <3>1 DEF NewOrder
    <3>3. ~row.adopted
      BY <2>1, <3>1, WasClean DEF Adopt, OnlyOrders, Placed
    <3> QED
      BY <3>2, <3>3
  <2>2. ASSUME NEW o \in Orders, NEW a \in Accounts, NEW side \in Sides,
               NEW quantity \in Quantities, order[o] = NoOrder, OnlyOrders,
               order' = [order EXCEPT ![o] =
                            NewOrder(a, side, quantity, "CREATED", "NONE", FALSE)]
        PROVE  Clean
    <3>1. PICK row \in OrderRows : row = NewOrder(a, side, quantity, "CREATED", "NONE", FALSE)
      BY DEF NewOrder, OrderRows, Statuses, LinkStatuses
    <3>2. o \notin Placed
      BY <2>2 DEF Placed
    <3> QED
      BY <2>2, <3>1, <3>2, WasClean DEF OnlyOrders
  <2>3. ASSUME NEW o \in Orders, NEW a \in Accounts, NEW side \in Sides,
               NEW quantity \in Quantities, NEW risk \in Risks,
               Approve(o, a, side, quantity, risk)
        PROVE  UnderLimit'
    <3>1. risk \in Nat
      BY LedgerAssumption
    <3>2. Clean
      BY <2>2, <2>3 DEF Approve
    <3> QED
      BY <2>0, <2>3, <3>1, <3>2, AnchorKept DEF Approve
  <2>4. ASSUME NEW o \in Orders, NEW a \in Accounts, NEW side \in Sides,
               NEW quantity \in Quantities, Reduce(o, a, side, quantity)
        PROVE  UnderLimit'
    <3>1. Clean
      BY <2>2, <2>4 DEF Reduce
    <3> QED
      BY <2>0, <2>4, <3>1 DEF Reduce, UnderLimit
  <2>5. ASSUME NEW o \in Orders, Link(o) PROVE UnderLimit'
    <3>1. order[o] \in OrderRows /\ o \in Placed
      BY <2>5, PlacedRow DEF Link
    <3>2. PICK row \in OrderRows : row = [order[o] EXCEPT !.link = "ACTIVE"]
      BY <3>1 DEF OrderRows, LinkStatuses
    <3>3. row.adopted = order[o].adopted
      BY <3>1, <3>2 DEF OrderRows
    <3>4. order' = [order EXCEPT ![o] = row] /\ incidents' = incidents /\ anchor' = anchor
      BY <2>5, <3>2 DEF Link, OnlyOrders
    <3>5. Clean
      BY <3>3, <3>4, WasClean
    <3> QED
      BY <2>0, <3>4, <3>5 DEF UnderLimit
  <2>6. ASSUME NEW o \in Orders, NEW status \in Statuses, ApplyStatus(o, status)
        PROVE  UnderLimit'
    <3>1. order[o] \in OrderRows /\ o \in Placed
      BY <2>6, PlacedRow DEF ApplyStatus
    <3>2. PICK next \in Statuses : order' = [order EXCEPT ![o] = Moved(order[o], next)]
      BY <2>6 DEF ApplyStatus, Statuses
    <3>3. PICK row \in OrderRows : row = Moved(order[o], next)
      BY <3>1 DEF Moved, OrderRows, LinkStatuses
    <3>4. row.adopted = order[o].adopted
      BY <3>1, <3>3 DEF Moved, OrderRows
    <3>5. incidents \subseteq incidents' /\ anchor' = anchor
      BY <2>6 DEF ApplyStatus, Raised
    <3>6. order' = [order EXCEPT ![o] = row]
      BY <3>2, <3>3
    <3>7. Clean
      BY <3>4, <3>5, <3>6, WasClean
    <3> QED
      BY <2>0, <3>5, <3>7 DEF UnderLimit
  <2>7. ASSUME NEW o \in Orders, NEW e \in Executions, NEW quantity \in Quantities,
               NEW price \in Prices, ApplyFill(o, e, quantity, price)
        PROVE  UnderLimit'
    <3>1. PICK a \in Accounts, side \in Sides, risk \in Nat :
               FillEffect(o, e, quantity, price, a, side, risk)
      BY <2>7, FillStep
    <3>2. PICK row \in OrderRows : row = Filled(order[o], quantity)
      BY <3>1, OrderRowType DEF FillEffect
    <3>3. row.adopted = order[o].adopted
      BY <3>1, <3>2 DEF FillEffect, Filled, OrderRows
    <3>4. order' = [order EXCEPT ![o] = row] /\ incidents \subseteq incidents'
      BY <3>1, <3>2 DEF FillEffect, Raised
    <3>5. Clean
      BY <3>3, <3>4, WasClean
    <3>6. PICK r \in ReservationRows : r = reservation[o]
      BY <3>1 DEF FillEffect
    <3>7. PICK reclaimed \in Nat, taken \in Nat :
             /\ reclaimed = Reclaimed(r, risk) /\ taken = FromRemaining(r, risk)
             /\ reclaimed + taken <= risk
      BY Spending
    <3>8. ~(reclaimed > 0) /\ ~(risk > reclaimed + taken)
      BY <3>1, <3>6, <3>7 DEF FillEffect, Raised, FillReasons, Clean
    <3>9. risk = taken
      BY <3>7, <3>8
    <3>10. ASSUME NEW k \in Keys
           PROVE  anchor'[k].position + anchor'[k].remaining <= HardLimit
      <4>1. anchor[k].position \in Nat /\ anchor[k].remaining \in Int
        BY DEF RowsTyped
      <4>2. anchor[k].position + anchor[k].remaining <= HardLimit
        BY <2>0, <3>5 DEF UnderLimit
      <4>3. anchor'[k] = IF k \in {Global, a}
                         THEN [position |-> anchor[k].position + risk,
                               remaining |-> anchor[k].remaining - taken]
                         ELSE anchor[k]
        BY <3>1, <3>6, <3>7 DEF FillEffect, Charged
      <4> QED
        BY <3>9, <4>1, <4>2, <4>3
    <3> QED
      BY <3>10 DEF UnderLimit
  <2>8. ASSUME UNCHANGED <<order, anchor>>, incidents \subseteq incidents' PROVE UnderLimit'
    BY <2>0, <2>8 DEF Clean, UnderLimit, Placed
  <2>9. ASSUME NEW o \in Orders, NEW e \in Executions, NEW quantity \in Quantities,
               NEW price \in Prices, RepeatFill(o, e, quantity, price)
        PROVE  UnderLimit'
    BY <2>8, <2>9 DEF RepeatFill, Raised
  <2>10. ASSUME NEW o \in Orders, Release(o) PROVE UnderLimit'
    <3>1. order[o] \in OrderRows
      BY <2>10, PlacedRow DEF Release
    <3>2. PICK a \in Accounts : a = order[o].account
      BY <3>1 DEF OrderRows
    <3>3. reservation[o].remaining \in Nat
      BY DEF RowsTyped, ReservationRows
    <3>4. PICK amount \in Int : amount = -reservation[o].remaining /\ amount <= 0
      BY <3>3
    <3>5. anchor' = Anchored(a, amount)
      BY <2>10, <3>2, <3>4 DEF Release, GivenBack
    <3>6. Clean
      BY <2>10 DEF Release, OnlyOrders, Clean, Placed
    <3> QED
      BY <2>0, <3>4, <3>5, <3>6, AnchorKept
  <2>11. CASE UNCHANGED vars
    BY <2>8, <2>11 DEF vars
  <2> QED
    BY <2>1, <2>3, <2>4, <2>5, <2>6, <2>7, <2>9, <2>10, <2>11 DEF Next, Placing, Executing
<1> QED
  BY <1>1, <1>2, RowsTypedAlways, PTL DEF Spec

-----------------------------------------------------------------------------
(* A set of numbers with 0 in it and the successor of each of its members is   *)
(* all of them: the form of induction the proofs below use.                    *)
LEMMA NumbersReached ==
    ASSUME NEW T, 0 \in T, \A n \in Nat : n \in T => n + 1 \in T
    PROVE  \A n \in Nat : n \in T
<1>1. IsWellFoundedOn(OpToRel(<, Nat), Nat)
  BY NatLessThanWellFounded
<1> SUFFICES ASSUME Nat \ T # {} PROVE FALSE
  OBVIOUS
<1>2. PICK n \in Nat \ T : \A m \in Nat \ T : ~ (<<m, n>> \in OpToRel(<, Nat))
  BY <1>1, WFMin
<1>3. n \in Nat /\ n # 0 /\ n - 1 \in Nat
  <2>1. n \in Nat /\ n # 0
    OBVIOUS
  <2> QED
    BY <2>1
<1>4. CASE n - 1 \in T
  <2>1. n - 1 + 1 = n
    BY <1>3
  <2> QED
    BY <1>2, <1>3, <1>4, <2>1
<1>5. CASE n - 1 \notin T
  <2>1. <<n - 1, n>> \in OpToRel(<, Nat)
    BY <1>2, <1>3 DEF OpToRel
  <2> QED
    BY <1>2, <1>3, <1>5, <2>1
<1> QED
  BY <1>4, <1>5

(* The element that a sum takes first, and what makes i the sums of g over the *)
(* subsets of S (Folds.tla).                                                   *)
First(s) == CHOOSE x \in s : TRUE
Sums(i, g, S) ==
    i = [s \in SUBSET S |-> IF s = {} THEN 0 ELSE g[First(s)] + i[s \ {First(s)}]]

(* The operator of the model is one of them, taken at the whole domain. *)
LEMMA TotalIsASum ==
    ASSUME NEW g
    PROVE  Total(g) = (CHOOSE i : Sums(i, g, DOMAIN g))[DOMAIN g]
BY DEF Total, MapThenSumSet, MapThenFoldSet, Sums, First

(* It is an element. *)
LEMMA FirstIsIn ==
    ASSUME NEW s, s # {}
    PROVE  First(s) \in s
BY DEF First

(* One element less. *)
LEMMA WithoutFirst ==
    ASSUME NEW s, NEW n \in Nat, IsFiniteSet(s), Cardinality(s) <= n + 1, NEW x \in s
    PROVE  IsFiniteSet(s \ {x}) /\ Cardinality(s \ {x}) <= n
<1>1. IsFiniteSet(s \ {x}) /\ Cardinality(s \ {x}) = Cardinality(s) - 1
  BY FS_RemoveElement
<1>2. Cardinality(s) \in Nat
  BY FS_CardinalityType
<1> QED
  BY <1>1, <1>2

(* Sums exist: built for the subsets of one element more at a time. *)
LEMMA SumsExist ==
    ASSUME NEW S, IsFiniteSet(S), NEW g, \A x \in S : g[x] \in Int
    PROVE  \E i \in [SUBSET S -> Int] : Sums(i, g, S)
<1> DEFINE Upto(n, i) ==
              \A s \in SUBSET S : Cardinality(s) <= n =>
                 i[s] = IF s = {} THEN 0 ELSE g[First(s)] + i[s \ {First(s)}]
           T == {n \in Nat : \E i \in [SUBSET S -> Int] : Upto(n, i)}
<1>0. ASSUME NEW s \in SUBSET S
      PROVE  IsFiniteSet(s) /\ Cardinality(s) \in Nat /\ Cardinality(s) <= Cardinality(S)
  BY FS_Subset, FS_CardinalityType
<1>1. 0 \in T
  <2>1. ASSUME NEW s \in SUBSET S, Cardinality(s) <= 0 PROVE s = {}
    BY <1>0, <2>1, FS_EmptySet
  <2>2. [s \in SUBSET S |-> 0] \in [SUBSET S -> Int]
    OBVIOUS
  <2>3. Upto(0, [s \in SUBSET S |-> 0])
    BY <2>1
  <2> QED
    BY <2>2, <2>3
<1>2. ASSUME NEW n \in Nat, n \in T PROVE n + 1 \in T
  <2>1. PICK i \in [SUBSET S -> Int] : Upto(n, i)
    BY <1>2
  <2> DEFINE j == [s \in SUBSET S |-> IF s = {} THEN 0 ELSE g[First(s)] + i[s \ {First(s)}]]
  <2>2. j \in [SUBSET S -> Int]
    <3> SUFFICES ASSUME NEW s \in SUBSET S, s # {}
                 PROVE  g[First(s)] + i[s \ {First(s)}] \in Int
      OBVIOUS
    <3>1. First(s) \in S
      BY FirstIsIn
    <3>2. g[First(s)] \in Int /\ i[s \ {First(s)}] \in Int
      BY <3>1
    <3> QED
      BY <3>2
  <2>3. Upto(n + 1, j)
    <3> SUFFICES ASSUME NEW s \in SUBSET S, Cardinality(s) <= n + 1, s # {}
                 PROVE  j[s] = g[First(s)] + j[s \ {First(s)}]
      OBVIOUS
    <3>1. First(s) \in s
      BY FirstIsIn
    <3>2. PICK t \in SUBSET S : t = s \ {First(s)} /\ Cardinality(t) <= n
      BY <1>0, <3>1, WithoutFirst
    <3>3. i[t] = j[t]
      BY <2>1, <3>2
    <3> QED
      BY <3>2, <3>3
  <2>4. \E k \in [SUBSET S -> Int] : Upto(n + 1, k)
    <3> HIDE DEF Upto, j
    <3> QED
      BY <2>2, <2>3
  <2>5. n + 1 \in Nat
    OBVIOUS
  <2> HIDE DEF Upto
  <2> QED
    BY <2>4, <2>5
<1>3. Cardinality(S) \in Nat
  BY FS_CardinalityType
<1>4. Cardinality(S) \in T
  <2> HIDE DEF T
  <2> QED
    BY <1>1, <1>2, <1>3, NumbersReached
<1>5. PICK i \in [SUBSET S -> Int] : Upto(Cardinality(S), i)
  BY <1>4
<1>6. ASSUME NEW s \in SUBSET S
      PROVE  i[s] = IF s = {} THEN 0 ELSE g[First(s)] + i[s \ {First(s)}]
  BY <1>0, <1>5
<1>7. Sums(i, g, S)
  BY <1>6 DEF Sums
<1> QED
  BY <1>7

(* What they are does not depend on the set they are part of, nor on the       *)
(* function outside of the set that is summed.                                 *)
LEMMA SumsAgree ==
    ASSUME NEW S, NEW i, NEW g, Sums(i, g, S), NEW R, NEW j, NEW h, Sums(j, h, R),
           NEW n \in Nat
    PROVE  \A s \in (SUBSET S) \cap (SUBSET R) :
              (IsFiniteSet(s) /\ Cardinality(s) <= n /\ \A x \in s : g[x] = h[x])
                 => i[s] = j[s]
<1> DEFINE Agree(m) ==
              \A s \in (SUBSET S) \cap (SUBSET R) :
                 (IsFiniteSet(s) /\ Cardinality(s) <= m /\ \A x \in s : g[x] = h[x])
                    => i[s] = j[s]
           T == {m \in Nat : Agree(m)}
<1>0. ASSUME NEW s \in (SUBSET S) \cap (SUBSET R)
      PROVE  /\ s = {} => i[s] = 0 /\ j[s] = 0
             /\ s # {} => /\ i[s] = g[First(s)] + i[s \ {First(s)}]
                          /\ j[s] = h[First(s)] + j[s \ {First(s)}]
  BY DEF Sums
<1>1. 0 \in T
  <2> SUFFICES ASSUME NEW s \in (SUBSET S) \cap (SUBSET R), IsFiniteSet(s),
                      Cardinality(s) <= 0
               PROVE  i[s] = j[s]
    OBVIOUS
  <2>1. Cardinality(s) \in Nat
    BY FS_CardinalityType
  <2>2. s = {}
    BY <2>1, FS_EmptySet
  <2> QED
    BY <1>0, <2>2
<1>2. ASSUME NEW m \in Nat, m \in T PROVE m + 1 \in T
  <2> SUFFICES ASSUME NEW s \in (SUBSET S) \cap (SUBSET R), IsFiniteSet(s),
                      Cardinality(s) <= m + 1, \A x \in s : g[x] = h[x], s # {}
               PROVE  i[s] = j[s]
    BY <1>0
  <2>1. First(s) \in s
    BY FirstIsIn
  <2>2. PICK t : t = s \ {First(s)} /\ IsFiniteSet(t) /\ Cardinality(t) <= m
    BY <2>1, WithoutFirst
  <2>3. i[t] = j[t]
    BY <1>2, <2>2
  <2> QED
    BY <1>0, <2>1, <2>2, <2>3
<1>3. n \in T
  <2> HIDE DEF T
  <2> QED
    BY <1>1, <1>2, NumbersReached
<1> QED
  BY <1>3

(* Any element may be taken first. *)
LEMMA AnyFirst ==
    ASSUME NEW S, NEW g, NEW i, Sums(i, g, S), \A r \in SUBSET S : i[r] \in Int,
           \A y \in S : g[y] \in Int, NEW s \in SUBSET S, IsFiniteSet(s), NEW x \in s
    PROVE  i[s] = g[x] + i[s \ {x}]
<1> DEFINE Any(m) ==
              \A r \in SUBSET S : (IsFiniteSet(r) /\ Cardinality(r) <= m) =>
                 \A y \in r : i[r] = g[y] + i[r \ {y}]
           T == {m \in Nat : Any(m)}
<1>0. ASSUME NEW r \in SUBSET S, r # {}
      PROVE  i[r] = g[First(r)] + i[r \ {First(r)}]
  BY <1>0 DEF Sums
<1>1. 0 \in T
  <2> SUFFICES ASSUME NEW r \in SUBSET S, IsFiniteSet(r), Cardinality(r) <= 0
               PROVE  r = {}
    OBVIOUS
  <2>1. Cardinality(r) \in Nat
    BY FS_CardinalityType
  <2> QED
    BY <2>1, FS_EmptySet
<1>2. ASSUME NEW m \in Nat, m \in T PROVE m + 1 \in T
  <2> SUFFICES ASSUME NEW q \in SUBSET S, IsFiniteSet(q), Cardinality(q) <= m + 1,
                      NEW z \in q
               PROVE  i[q] = g[z] + i[q \ {z}]
    OBVIOUS
  <2>0. ASSUME NEW r \in SUBSET S, IsFiniteSet(r), Cardinality(r) <= m, NEW y \in r
        PROVE  i[r] = g[y] + i[r \ {y}]
    BY <1>2, <2>0
  <2>1. PICK c \in q : c = First(q)
    BY FirstIsIn
  <2>2. i[q] = g[c] + i[q \ {c}]
    BY <1>0, <2>1
  <2>3. CASE z = c
    BY <2>2, <2>3
  <2>4. CASE z # c
    <3>1. PICK t \in SUBSET S : t = q \ {c} /\ IsFiniteSet(t) /\ Cardinality(t) <= m
      BY WithoutFirst
    <3>2. PICK u \in SUBSET S : u = q \ {z} /\ IsFiniteSet(u) /\ Cardinality(u) <= m
      BY WithoutFirst
    <3>3. PICK v \in SUBSET S : v = t \ {z} /\ v = u \ {c}
      BY <3>1, <3>2
    <3>4. i[t] = g[z] + i[v]
      <4>1. z \in t
        BY <2>4, <3>1
      <4>2. i[t] = g[z] + i[t \ {z}]
        BY <2>0, <3>1, <4>1, Zenon
      <4> QED
        BY <3>3, <4>2
    <3>5. i[u] = g[c] + i[v]
      <4>1. c \in u
        BY <2>4, <3>2
      <4>2. i[u] = g[c] + i[u \ {c}]
        BY <2>0, <3>2, <4>1, Zenon
      <4> QED
        BY <3>3, <4>2
    <3>6. g[z] \in Int /\ g[c] \in Int /\ i[v] \in Int
      OBVIOUS
    <3> QED
      BY <2>2, <3>1, <3>2, <3>4, <3>5, <3>6
  <2> QED
    BY <2>3, <2>4
<1>3. PICK n \in Nat : n = Cardinality(s)
  BY FS_CardinalityType
<1>4. n \in T
  <2> HIDE DEF T
  <2> QED
    BY <1>1, <1>2, NumbersReached
<1>5. Any(n) /\ Cardinality(s) <= n
  BY <1>3, <1>4
<1> QED
  BY <1>5, Zenon

(* g without one of its values. *)
Without(g, x) == [y \in DOMAIN g \ {x} |-> g[y]]

(* A finite total of integers is the sum the fold arrives at. *)
LEMMA TotalIs ==
    ASSUME NEW g, IsFiniteSet(DOMAIN g), \A x \in DOMAIN g : g[x] \in Int
    PROVE  \E i \in [SUBSET DOMAIN g -> Int] :
              Sums(i, g, DOMAIN g) /\ Total(g) = i[DOMAIN g]
<1> DEFINE S == DOMAIN g
           i == CHOOSE i : Sums(i, g, S)
<1>1. PICK j \in [SUBSET S -> Int] : Sums(j, g, S)
  BY SumsExist
<1>2. Sums(i, g, S)
  BY <1>1
<1>3. Total(g) = i[S]
  BY TotalIsASum
<1> HIDE DEF i
<1>4. i \in [SUBSET S -> Int]
  <2>1. ASSUME NEW s \in SUBSET S PROVE i[s] = j[s]
    <3>1. IsFiniteSet(s) /\ Cardinality(s) \in Nat
      BY FS_Subset, FS_CardinalityType
    <3> QED
      BY <1>1, <1>2, <3>1, SumsAgree
  <2>2. i = [s \in SUBSET S |-> i[s]]
    BY <1>2 DEF Sums
  <2> QED
    BY <1>1, <2>1, <2>2
<1> QED
  BY <1>2, <1>3, <1>4

(* Nothing adds up to 0. *)
LEMMA TotalOfNothing ==
    ASSUME NEW g, DOMAIN g = {}
    PROVE  Total(g) = 0
<1>1. IsFiniteSet(DOMAIN g)
  BY FS_EmptySet
<1>2. PICK i \in [SUBSET DOMAIN g -> Int] : Sums(i, g, DOMAIN g) /\ Total(g) = i[DOMAIN g]
  BY <1>1, TotalIs
<1> QED
  BY <1>2 DEF Sums

(* Any one value and the total of the others. *)
LEMMA TotalOfOneMore ==
    ASSUME NEW g, IsFiniteSet(DOMAIN g), \A y \in DOMAIN g : g[y] \in Int,
           NEW x \in DOMAIN g
    PROVE  /\ Total(g) = g[x] + Total(Without(g, x))
           /\ Total(g) \in Int /\ Total(Without(g, x)) \in Int
<1>0. PICK S : S = DOMAIN g
  OBVIOUS
<1>1. PICK i \in [SUBSET S -> Int] : Sums(i, g, S) /\ Total(g) = i[S]
  BY <1>0, TotalIs
<1>2. PICK h : h = Without(g, x)
  OBVIOUS
<1>3. PICK R : R = S \ {x} /\ R = DOMAIN h
  BY <1>0, <1>2 DEF Without
<1>4. IsFiniteSet(R) /\ Cardinality(R) \in Nat
  BY <1>0, <1>3, FS_RemoveElement, FS_CardinalityType
<1>5. \A y \in R : h[y] = g[y] /\ h[y] \in Int
  BY <1>0, <1>2, <1>3 DEF Without
<1>6. PICK j \in [SUBSET R -> Int] : Sums(j, h, R) /\ Total(h) = j[R]
  BY <1>3, <1>4, <1>5, TotalIs
<1>7. i[R] = j[R]
  <2>1. R \in (SUBSET S) \cap (SUBSET R)
    BY <1>3
  <2> QED
    BY <1>1, <1>4, <1>5, <1>6, <2>1, SumsAgree
<1>8. i[S] = g[x] + i[R]
  <2>1. S \in SUBSET S /\ IsFiniteSet(S) /\ x \in S /\ \A y \in S : g[y] \in Int
    BY <1>0
  <2>2. i[S] = g[x] + i[S \ {x}]
    BY <1>1, <2>1, AnyFirst
  <2> QED
    BY <1>3, <2>2
<1> QED
  BY <1>1, <1>2, <1>6, <1>7, <1>8

(* A finite total of integers is one. *)
LEMMA TotalIsInteger ==
    ASSUME NEW U, IsFiniteSet(U), NEW g, g \in [U -> Int]
    PROVE  Total(g) \in Int
<1>1. DOMAIN g = U
  OBVIOUS
<1>2. PICK i \in [SUBSET U -> Int] : Total(g) = i[U]
  BY <1>1, TotalIs
<1> QED
  BY <1>2

(* h has one value more than g, or another one. *)
Grown(U, V, x, g, h) ==
    /\ IsFiniteSet(U) /\ x \notin U /\ V = U \cup {x}
    /\ g \in [U -> Int] /\ h \in [V -> Int] /\ \A y \in U : y # x => h[y] = g[y]

Changed(U, x, g, h) ==
    /\ IsFiniteSet(U) /\ x \in U
    /\ g \in [U -> Int] /\ h \in [U -> Int] /\ \A y \in U : y # x => h[y] = g[y]

(* The total after one value is added. *)
LEMMA TotalGrows ==
    ASSUME NEW U, NEW V, NEW x, NEW g, NEW h, Grown(U, V, x, g, h)
    PROVE  Total(h) = Total(g) + h[x]
<1> USE DEF Grown
<1>1. IsFiniteSet(V) /\ x \in V /\ DOMAIN h = V
  BY FS_AddElement
<1>2. Total(h) = h[x] + Total(Without(h, x)) /\ Total(Without(h, x)) \in Int
  BY <1>1, TotalOfOneMore
<1>3. h[x] \in Int
  BY <1>1
<1>4. Without(h, x) = g
  BY <1>1 DEF Without
<1> QED
  BY <1>2, <1>3, <1>4

(* The total after one value has changed. *)
LEMMA TotalChanges ==
    ASSUME NEW U, NEW x, NEW g, NEW h, Changed(U, x, g, h)
    PROVE  Total(h) = Total(g) + h[x] - g[x]
<1> USE DEF Changed
<1>1. DOMAIN g = U /\ DOMAIN h = U
  OBVIOUS
<1>2. Total(h) = h[x] + Total(Without(h, x)) /\ Total(Without(h, x)) \in Int
  BY <1>1, TotalOfOneMore
<1>3. Total(g) = g[x] + Total(Without(g, x))
  BY <1>1, TotalOfOneMore
<1>4. Without(g, x) = Without(h, x)
  BY <1>1 DEF Without
<1>5. g[x] \in Int /\ h[x] \in Int
  OBVIOUS
<1> QED
  BY <1>2, <1>3, <1>4, <1>5

(* Values of 0 do not count. *)
LEMMA TotalPadded ==
    ASSUME NEW V, IsFiniteSet(V), NEW h, h \in [V -> Int], NEW U \in SUBSET V,
           \A x \in V \ U : h[x] = 0
    PROVE  Total([x \in U |-> h[x]]) = Total(h)
<1> DEFINE On(W) == [x \in W |-> h[x]]
           Same(n) == \A W \in SUBSET V :
                         (U \subseteq W /\ Cardinality(W \ U) = n) => Total(On(W)) = Total(On(U))
           T == {n \in Nat : Same(n)}
<1>0. ASSUME NEW W \in SUBSET V
      PROVE  IsFiniteSet(W) /\ IsFiniteSet(W \ U) /\ On(W) \in [W -> Int]
  <2>1. IsFiniteSet(W) /\ IsFiniteSet(W \ U)
    BY FS_Subset
  <2> QED
    BY <2>1
<1>1. 0 \in T
  <2> SUFFICES ASSUME NEW W \in SUBSET V, U \subseteq W, Cardinality(W \ U) = 0
               PROVE  W = U
    OBVIOUS
  <2>1. W \ U = {}
    BY <1>0, FS_EmptySet
  <2> QED
    BY <2>1
<1>2. ASSUME NEW n \in Nat, n \in T PROVE n + 1 \in T
  <2> SUFFICES ASSUME NEW W \in SUBSET V, U \subseteq W, Cardinality(W \ U) = n + 1
               PROVE  Total(On(W)) = Total(On(U))
    OBVIOUS
  <2>1. W \ U # {}
    <3> SUFFICES ASSUME W \ U = {} PROVE FALSE
      OBVIOUS
    <3>1. Cardinality(W \ U) = 0
      BY FS_EmptySet
    <3> QED
      BY <3>1
  <2>2. PICK x \in W : x \notin U
    BY <2>1
  <2>3. PICK R \in SUBSET V : R = W \ {x}
    OBVIOUS
  <2>4. U \subseteq R /\ Cardinality(R \ U) = n
    <3>1. R \ U = (W \ U) \ {x} /\ x \in W \ U
      BY <2>2, <2>3
    <3>2. IsFiniteSet(W \ U)
      BY <1>0
    <3>3. Cardinality((W \ U) \ {x}) = Cardinality(W \ U) - 1
      BY <3>1, <3>2, FS_RemoveElement
    <3> QED
      BY <2>2, <2>3, <3>1, <3>3
  <2>5. Total(On(R)) = Total(On(U))
    BY <1>2, <2>4
  <2>6. W = R \cup {x} /\ x \notin R /\ On(W)[x] = 0
    BY <2>2, <2>3
  <2>7. \A y \in R : y # x => On(W)[y] = On(R)[y]
    BY <2>3
  <2>8. IsFiniteSet(R) /\ On(R) \in [R -> Int] /\ On(W) \in [W -> Int]
    BY <1>0
  <2>9. Total(On(R)) \in Int
    BY <2>8, TotalIsInteger
  <2>10. Total(On(W)) = Total(On(R)) + 0
    <3>1. PICK p : p = On(R)
      OBVIOUS
    <3>2. PICK q : q = On(W)
      OBVIOUS
    <3>3. /\ p \in [R -> Int] /\ q \in [W -> Int] /\ q[x] = 0
          /\ \A y \in R : y # x => q[y] = p[y]
      BY <2>6, <2>7, <2>8, <3>1, <3>2
    <3> HIDE DEF On
    <3>4. Grown(R, W, x, p, q)
      BY <2>6, <2>8, <3>3 DEF Grown
    <3>5. Total(q) = Total(p) + q[x]
      BY <3>4, TotalGrows
    <3> QED
      BY <3>1, <3>2, <3>3, <3>5
  <2> QED
    BY <2>5, <2>9, <2>10
<1>3. PICK n \in Nat : n = Cardinality(V \ U)
  BY FS_Difference, FS_CardinalityType
<1>4. n \in T
  <2> HIDE DEF T
  <2> QED
    BY <1>1, <1>2, NumbersReached
<1>5. Total(On(V)) = Total(On(U))
  BY <1>3, <1>4
<1>6. On(V) = h
  OBVIOUS
<1> QED
  BY <1>5, <1>6

(* A finite set of numbers lies below some number. *)
LEMMA FiniteIsBounded ==
    ASSUME NEW S \in SUBSET Nat, IsFiniteSet(S)
    PROVE  \E b \in Nat : \A x \in S : x < b
<1> DEFINE Bounded(R) == \E b \in Nat : \A x \in R : x < b
           T == {n \in Nat : \A R \in SUBSET S : Cardinality(R) = n => Bounded(R)}
<1>0. ASSUME NEW R \in SUBSET S PROVE IsFiniteSet(R)
  BY FS_Subset
<1>1. 0 \in T
  <2> SUFFICES ASSUME NEW R \in SUBSET S, Cardinality(R) = 0 PROVE Bounded(R)
    BY Zenon
  <2>1. R = {}
    BY <1>0, FS_EmptySet
  <2> QED
    BY <2>1
<1>2. ASSUME NEW n \in Nat, n \in T PROVE n + 1 \in T
  <2>0. n + 1 \in Nat
    OBVIOUS
  <2> SUFFICES ASSUME NEW R \in SUBSET S, Cardinality(R) = n + 1 PROVE Bounded(R)
    BY <2>0, Zenon
  <2>1. R # {}
    BY FS_EmptySet
  <2>2. PICK y \in R : TRUE
    BY <2>1
  <2>3. Cardinality(R \ {y}) = n
    <3>1. Cardinality(R \ {y}) = Cardinality(R) - 1
      BY <1>0, <2>2, FS_RemoveElement
    <3> QED
      BY <3>1
  <2>4. PICK b \in Nat : \A x \in R \ {y} : x < b
    BY <1>2, <2>3
  <2>5. y \in Nat
    OBVIOUS
  <2>6. PICK c \in Nat : b <= c /\ y < c
    <3>1. b + y + 1 \in Nat /\ b <= b + y + 1 /\ y < b + y + 1
      BY <2>4, <2>5
    <3> QED
      BY <3>1
  <2>7. ASSUME NEW x \in R PROVE x < c
    <3>1. x \in Nat
      OBVIOUS
    <3>2. x = y \/ x < b
      BY <2>4
    <3> QED
      BY <2>4, <2>5, <2>6, <3>1, <3>2
  <2> QED
    BY <2>6, <2>7
<1>3. Cardinality(S) \in Nat
  BY FS_CardinalityType
<1>4. Cardinality(S) \in T
  <2> HIDE DEF T
  <2> QED
    BY <1>1, <1>2, <1>3, NumbersReached
<1> QED
  BY <1>4

-----------------------------------------------------------------------------
(* Executions are ordered by numbers. *)
LEMMA ExecutionIsNatural ==
    \A e \in Executions : e \in Nat
BY LedgerAssumption

(* What the lots of the executions before one hold. *)
Before(n) == {f \in Executions : f < n}
LotsBefore(lots, n) == Total([f \in Before(n) |-> lots[f]])

(* There are finitely many of them. *)
LEMMA BeforeIsFinite ==
    ASSUME NEW n \in Nat
    PROVE  Before(n) \in SUBSET Nat /\ IsFiniteSet(Before(n))
<1>1. Before(n) \in SUBSET Nat /\ \A x \in Before(n) : x <= n
  BY ExecutionIsNatural DEF Before
<1> QED
  BY <1>1, FS_BoundedSetOfNaturals

(* One execution later, they hold what its lot holds more. *)
LEMMA OneLotMore ==
    ASSUME NEW lots, lots \in [Executions -> Nat], NEW n \in Nat
    PROVE  /\ LotsBefore(lots, 0) = 0
           /\ LotsBefore(lots, n) \in Int
           /\ LotsBefore(lots, n + 1) =
                 LotsBefore(lots, n) + (IF n \in Executions THEN lots[n] ELSE 0)
<1> DEFINE On(m) == [f \in Before(m) |-> lots[f]]
<1>1. LotsBefore(lots, 0) = 0
  <2>1. Before(0) = {}
    BY ExecutionIsNatural DEF Before
  <2>2. DOMAIN On(0) = {}
    BY <2>1
  <2> QED
    BY <2>2, TotalOfNothing DEF LotsBefore
<1>2. ASSUME NEW m \in Nat
      PROVE  IsFiniteSet(Before(m)) /\ On(m) \in [Before(m) -> Int]
  BY <1>2, BeforeIsFinite DEF Before
<1>3. LotsBefore(lots, n) \in Int
  BY <1>2, TotalIsInteger DEF LotsBefore
<1>4. CASE n \in Executions
  <2>1. Before(n + 1) = Before(n) \cup {n} /\ n \notin Before(n)
    <3>1. ASSUME NEW f \in Executions PROVE f < n + 1 <=> (f < n \/ f = n)
      <4>1. f \in Nat
        BY ExecutionIsNatural
      <4> QED
        BY <4>1
    <3>2. ~ (n < n)
      OBVIOUS
    <3> QED
      BY <1>4, <3>1, <3>2, Zenon DEF Before
  <2>2. PICK p : p = On(n)
    OBVIOUS
  <2>3. PICK q : q = On(n + 1)
    OBVIOUS
  <2>4. p \in [Before(n) -> Int] /\ q \in [Before(n + 1) -> Int] /\ IsFiniteSet(Before(n))
    BY <1>2, <2>2, <2>3
  <2>5. q[n] = lots[n] /\ \A y \in Before(n) : y # n => q[y] = p[y]
    BY <2>1, <2>2, <2>3
  <2>6. Total(q) = Total(p) + q[n]
    <3>1. Grown(Before(n), Before(n + 1), n, p, q)
      BY <2>1, <2>4, <2>5 DEF Grown
    <3> QED
      BY <3>1, TotalGrows
  <2>7. Total(p) = LotsBefore(lots, n) /\ Total(q) = LotsBefore(lots, n + 1)
    BY <2>2, <2>3 DEF LotsBefore
  <2>8. lots[n] \in Nat
    BY <1>4
  <2> QED
    BY <1>1, <1>3, <1>4, <2>1, <2>5, <2>6, <2>7, <2>8
<1>5. CASE n \notin Executions
  <2>1. Before(n + 1) = Before(n)
    BY <1>5, ExecutionIsNatural DEF Before
  <2> QED
    BY <1>1, <1>3, <1>5, <2>1 DEF LotsBefore
<1> QED
  BY <1>4, <1>5

(* What is left of a lot. *)
LEMMA ClosedLot ==
    ASSUME NEW lots, lots \in [Executions -> Nat], NEW quantity \in Nat
    PROVE  /\ Closed(lots, quantity) \in [Executions -> Nat]
           /\ \A e \in Executions :
                 Closed(lots, quantity)[e] =
                    lots[e] - Smaller(lots[e], Larger(0, quantity - LotsBefore(lots, e)))
<1>1. ASSUME NEW e \in Executions
      PROVE  Closed(lots, quantity)[e] =
                lots[e] - Smaller(lots[e], Larger(0, quantity - LotsBefore(lots, e)))
  BY DEF Closed, LotsBefore, Before
<1>2. ASSUME NEW e \in Executions PROVE Closed(lots, quantity)[e] \in Nat
  <2>1. lots[e] \in Nat /\ e \in Nat
    BY ExecutionIsNatural
  <2>2. LotsBefore(lots, e) \in Int
    BY <2>1, OneLotMore
  <2> QED
    BY <1>1, <2>1, <2>2 DEF Smaller, Larger
<1>3. Closed(lots, quantity) = [e \in Executions |-> Closed(lots, quantity)[e]]
  BY DEF Closed
<1> QED
  BY <1>1, <1>2, <1>3

(* Up to any execution, a sale takes its quantity from the lots, or all they   *)
(* hold.                                                                       *)
LEMMA ClosedBefore ==
    ASSUME NEW lots, lots \in [Executions -> Nat], NEW quantity \in Nat, NEW n \in Nat
    PROVE  LotsBefore(Closed(lots, quantity), n) =
              Larger(0, LotsBefore(lots, n) - quantity)
<1>0. PICK left : left = Closed(lots, quantity) /\ left \in [Executions -> Nat]
  BY ClosedLot
<1> DEFINE T == {m \in Nat : LotsBefore(left, m) = Larger(0, LotsBefore(lots, m) - quantity)}
<1>1. 0 \in T
  <2>1. LotsBefore(left, 0) = 0 /\ LotsBefore(lots, 0) = 0
    BY <1>0, OneLotMore
  <2> QED
    BY <2>1 DEF Larger
<1>2. ASSUME NEW m \in Nat, m \in T PROVE m + 1 \in T
  <2>1. PICK sum \in Int : sum = LotsBefore(lots, m)
    BY OneLotMore
  <2>2. LotsBefore(left, m) = Larger(0, sum - quantity)
    BY <1>2, <2>1
  <2>3. CASE m \in Executions
    <3>1. PICK held \in Nat : held = lots[m]
      BY <2>3
    <3>2. LotsBefore(lots, m + 1) = sum + held
      BY <2>1, <2>3, <3>1, OneLotMore
    <3>3. left[m] = held - Smaller(held, Larger(0, quantity - sum))
      BY <1>0, <2>1, <2>3, <3>1, ClosedLot
    <3>4. LotsBefore(left, m + 1) = LotsBefore(left, m) + left[m]
      BY <1>0, <2>3, OneLotMore
    <3>5. LotsBefore(left, m + 1) = Larger(0, sum + held - quantity)
      BY <2>2, <3>3, <3>4 DEF Larger, Smaller
    <3> QED
      BY <3>2, <3>5
  <2>4. CASE m \notin Executions
    <3>1. LotsBefore(lots, m + 1) = LotsBefore(lots, m) + 0
      BY <2>4, OneLotMore
    <3>2. LotsBefore(left, m + 1) = LotsBefore(left, m) + 0
      BY <1>0, <2>4, OneLotMore
    <3>3. LotsBefore(left, m) \in Int
      BY <1>0, OneLotMore
    <3> QED
      BY <2>1, <2>2, <3>1, <3>2, <3>3
  <2> QED
    BY <2>3, <2>4
<1>3. n \in T
  <2> HIDE DEF T
  <2> QED
    BY <1>1, <1>2, NumbersReached
<1> QED
  BY <1>0, <1>3

(* First in, first out loses nothing: what the open lots hold after a sale is  *)
(* what they held before it less its quantity.                                 *)
Open(lots) == {e \in Executions : lots[e] # 0}

LEMMA ClosedTotal ==
    ASSUME NEW lots, lots \in [Executions -> Nat], IsFiniteSet(Open(lots)),
           NEW quantity \in Nat,
           quantity <= Total([e \in Open(lots) |-> lots[e]])
    PROVE  /\ Open(Closed(lots, quantity)) \subseteq Open(lots)
           /\ Total([e \in Open(Closed(lots, quantity)) |-> Closed(lots, quantity)[e]]) =
                 Total([e \in Open(lots) |-> lots[e]]) - quantity
<1>0. PICK left : left = Closed(lots, quantity) /\ left \in [Executions -> Nat]
  BY ClosedLot
<1>1. Open(left) \subseteq Open(lots)
  <2> SUFFICES ASSUME NEW e \in Executions, lots[e] = 0 PROVE left[e] = 0
    BY DEF Open
  <2>1. left[e] \in Nat /\ e \in Nat
    BY <1>0, ExecutionIsNatural
  <2>2. LotsBefore(lots, e) \in Int
    BY <2>1, OneLotMore
  <2>3. left[e] = 0 - Smaller(0, Larger(0, quantity - LotsBefore(lots, e)))
    BY <1>0, ClosedLot
  <2> QED
    BY <2>2, <2>3 DEF Smaller, Larger
<1>2. PICK n \in Nat : Open(lots) \subseteq Before(n)
  <2>1. Open(lots) \in SUBSET Nat
    BY ExecutionIsNatural DEF Open
  <2>2. PICK b \in Nat : \A x \in Open(lots) : x < b
    BY <2>1, FiniteIsBounded
  <2> QED
    BY <2>2 DEF Before, Open
<1>3. ASSUME NEW some, some \in [Executions -> Nat], Open(some) \subseteq Before(n)
      PROVE  Total([e \in Open(some) |-> some[e]]) = LotsBefore(some, n)
  <2>1. PICK h : h = [f \in Before(n) |-> some[f]]
    OBVIOUS
  <2>2. h \in [Before(n) -> Int]
    BY <1>3, <2>1 DEF Before
  <2>3. \A x \in Before(n) \ Open(some) : h[x] = 0
    BY <2>1 DEF Open, Before
  <2>4. Total([x \in Open(some) |-> h[x]]) = Total(h)
    BY <1>2, <1>3, <2>2, <2>3, BeforeIsFinite, TotalPadded
  <2>5. [x \in Open(some) |-> h[x]] = [e \in Open(some) |-> some[e]]
    BY <1>3, <2>1
  <2> QED
    BY <2>1, <2>4, <2>5 DEF LotsBefore
<1>4. Total([e \in Open(lots) |-> lots[e]]) = LotsBefore(lots, n)
  BY <1>2, <1>3
<1>5. Total([e \in Open(left) |-> left[e]]) = LotsBefore(left, n)
  BY <1>0, <1>1, <1>2, <1>3
<1>6. LotsBefore(left, n) = Larger(0, LotsBefore(lots, n) - quantity)
  BY <1>0, ClosedBefore
<1>7. LotsBefore(lots, n) \in Int
  BY OneLotMore
<1>8. LotsBefore(left, n) = LotsBefore(lots, n) - quantity
  BY <1>4, <1>6, <1>7 DEF Larger
<1> QED
  BY <1>0, <1>1, <1>4, <1>5, <1>8

-----------------------------------------------------------------------------
(* The five things a step can do to the sums. *)

Placement(o, row, r, risk) ==
    /\ order[o] = NoOrder /\ row.filled = 0 /\ r.consumed = 0 /\ r.remaining = risk
    /\ order' = [order EXCEPT ![o] = row]
    /\ reservation' = [reservation EXCEPT ![o] = r]
    /\ anchor' = Anchored(row.account, risk)
    /\ OnlyOrders

Remark(o, row) ==
    /\ o \in Placed /\ row.account = order[o].account
    /\ row.side = order[o].side /\ row.filled = order[o].filled
    /\ order' = [order EXCEPT ![o] = row]
    /\ UNCHANGED <<reservation, anchor, fill, position, lot>>
    /\ incidents \subseteq incidents'

Nothing ==
    /\ UNCHANGED <<order, reservation, anchor, fill, position, lot>>
    /\ incidents \subseteq incidents'

GivingBack(o, r) ==
    /\ o \in Placed /\ r.consumed = reservation[o].consumed /\ r.remaining = 0
    /\ reservation' = [reservation EXCEPT ![o] = r]
    /\ anchor' = Anchored(order[o].account, -reservation[o].remaining)
    /\ UNCHANGED order
    /\ OnlyOrders

LedgerStep ==
    \/ \E o \in Orders, row \in OrderRows, r \in ReservationRows, risk \in Nat :
          Placement(o, row, r, risk)
    \/ \E o \in Orders, row \in OrderRows : Remark(o, row)
    \/ Nothing
    \/ \E o \in Orders, e \in Executions, quantity \in Quantities, price \in Prices,
          a \in Accounts, side \in Sides, risk \in Nat :
             FillEffect(o, e, quantity, price, a, side, risk)
    \/ \E o \in Orders, r \in ReservationRows : GivingBack(o, r)

(* Every step is one of them. *)
LEMMA EveryStep ==
    ASSUME RowsTyped, [Next]_vars
    PROVE  LedgerStep
<1>1. ASSUME NEW o \in Orders, NEW a \in Accounts, NEW side \in Sides,
             NEW quantity \in Quantities, NEW status \in {"CREATED", "UNKNOWN"},
             NEW link \in {"NONE", "UNKNOWN"}, NEW adopted \in BOOLEAN, NEW risk \in Nat,
             NEW state \in {"ACTIVE", "CONSUMED"},
             order[o] = NoOrder,
             order' = [order EXCEPT ![o] = NewOrder(a, side, quantity, status, link, adopted)],
             reservation' = [reservation EXCEPT ![o] = Reserved(risk, state)],
             anchor' = Anchored(a, risk), OnlyOrders
      PROVE  LedgerStep
  <2>1. PICK row \in OrderRows : row = NewOrder(a, side, quantity, status, link, adopted)
    BY DEF NewOrder, OrderRows, Statuses, LinkStatuses
  <2>2. PICK r \in ReservationRows : r = Reserved(risk, state)
    BY DEF Reserved, ReservationRows
  <2>3. row.filled = 0 /\ row.account = a /\ r.consumed = 0 /\ r.remaining = risk
    BY <2>1, <2>2 DEF NewOrder, Reserved
  <2>4. Placement(o, row, r, risk)
    BY <1>1, <2>1, <2>2, <2>3 DEF Placement
  <2> QED
    BY <2>4 DEF LedgerStep
<1>2. ASSUME NEW o \in Orders, NEW a \in Accounts, NEW side \in Sides,
             NEW quantity \in Quantities, Reduce(o, a, side, quantity)
      PROVE  LedgerStep
  <2>1. anchor = Anchored(a, 0)
    <3>1. ASSUME NEW k \in Keys PROVE [anchor[k] EXCEPT !.remaining = @ + 0] = anchor[k]
      BY DEF RowsTyped
    <3> QED
      BY <3>1 DEF Anchored, RowsTyped
  <2> QED
    BY <1>1, <1>2, <2>1 DEF Reduce
<1>3. ASSUME NEW o \in Orders, NEW a \in Accounts, NEW side \in Sides,
             NEW quantity \in Quantities, NEW risk \in Risks,
             Approve(o, a, side, quantity, risk)
      PROVE  LedgerStep
  BY <1>1, <1>3, LedgerAssumption DEF Approve
<1>4. ASSUME NEW o \in Orders, NEW a \in Accounts, NEW side \in Sides,
             NEW quantity \in Quantities, NEW risk \in Risks,
             Adopt(o, a, side, quantity, risk)
      PROVE  LedgerStep
  BY <1>1, <1>4, LedgerAssumption DEF Adopt
<1>5. ASSUME NEW o \in Orders, Link(o) PROVE LedgerStep
  <2>1. order[o] \in OrderRows /\ o \in Placed
    BY <1>5, PlacedRow DEF Link
  <2>2. PICK row \in OrderRows : row = [order[o] EXCEPT !.link = "ACTIVE"]
    BY <2>1 DEF OrderRows, LinkStatuses
  <2>3. /\ row.filled = order[o].filled /\ row.account = order[o].account
        /\ row.side = order[o].side
    BY <2>1, <2>2 DEF OrderRows
  <2>4. Remark(o, row)
    BY <1>5, <2>1, <2>2, <2>3 DEF Link, OnlyOrders, Remark
  <2> QED
    BY <2>4 DEF LedgerStep
<1>6. ASSUME NEW o \in Orders, NEW status \in Statuses, ApplyStatus(o, status)
      PROVE  LedgerStep
  <2>1. order[o] \in OrderRows /\ o \in Placed
    BY <1>6, PlacedRow DEF ApplyStatus
  <2>2. PICK next \in Statuses : order' = [order EXCEPT ![o] = Moved(order[o], next)]
    BY <1>6 DEF ApplyStatus, Statuses
  <2>3. PICK row \in OrderRows : row = Moved(order[o], next)
    BY <2>1 DEF Moved, OrderRows, LinkStatuses
  <2>4. /\ row.filled = order[o].filled /\ row.account = order[o].account
        /\ row.side = order[o].side
    BY <2>1, <2>3 DEF Moved, OrderRows
  <2>5. Remark(o, row)
    BY <1>6, <2>1, <2>2, <2>3, <2>4 DEF ApplyStatus, Raised, Remark
  <2> QED
    BY <2>5 DEF LedgerStep
<1>7. ASSUME NEW o \in Orders, NEW e \in Executions, NEW quantity \in Quantities,
             NEW price \in Prices, ApplyFill(o, e, quantity, price)
      PROVE  LedgerStep
  BY <1>7, FillStep DEF LedgerStep
<1>8. ASSUME NEW o \in Orders, NEW e \in Executions, NEW quantity \in Quantities,
             NEW price \in Prices, RepeatFill(o, e, quantity, price)
      PROVE  LedgerStep
  BY <1>8 DEF RepeatFill, Raised, LedgerStep, Nothing
<1>9. ASSUME NEW o \in Orders, Release(o) PROVE LedgerStep
  <2>1. PICK q \in ReservationRows : q = reservation[o]
    BY DEF RowsTyped
  <2>2. PICK total \in Nat : total = q.released + q.remaining
    BY DEF ReservationRows
  <2>3. PICK r \in ReservationRows :
           r = [q EXCEPT !.remaining = 0, !.released = total, !.status = "RELEASED"]
    BY DEF ReservationRows
  <2>4. r.consumed = q.consumed /\ r.remaining = 0
    BY <2>3 DEF ReservationRows
  <2>5. r = [q EXCEPT !.remaining = 0, !.released = @ + q.remaining, !.status = "RELEASED"]
    BY <2>2, <2>3
  <2>6. GivingBack(o, r)
    BY <1>9, <2>1, <2>4, <2>5 DEF Release, GivenBack, GivingBack
  <2> QED
    BY <2>6 DEF LedgerStep
<1>10. CASE UNCHANGED vars
  BY <1>10 DEF vars, LedgerStep, Nothing
<1> QED
  BY <1>2, <1>3, <1>4, <1>5, <1>6, <1>7, <1>8, <1>9, <1>10 DEF Next, Placing, Executing

-----------------------------------------------------------------------------
(* What the sums are over is finite, every execution belongs to an order that  *)
(* was placed, and every open lot to an execution.                             *)
Kept ==
    /\ IsFiniteSet(Placed)
    /\ IsFiniteSet(Received)
    /\ \A x \in Received : fill[x[1]][x[2]].order \in Placed
    /\ lot \in [Accounts -> [Executions -> Nat]]
    /\ \A a \in Accounts, e \in Executions : lot[a][e] # 0 => fill[a][e] # NoFill

(* One order more, or the same ones. *)
LEMMA PlacedStaysFinite ==
    ASSUME RowsTyped, Kept, NEW o \in Orders, NEW row \in OrderRows,
           order' = [order EXCEPT ![o] = row]
    PROVE  IsFiniteSet(Placed') /\ Placed \subseteq Placed' /\ o \in Placed'
<1>1. Placed' = Placed \cup {o}
  BY PlacedGrows
<1>2. IsFiniteSet(Placed \cup {o})
  BY FS_AddElement DEF Kept
<1> QED
  BY <1>1, <1>2

OneMore(o, e, quantity, price, a) ==
    /\ Received' = Received \cup {<<a, e>>}
    /\ <<a, e>> \notin Received
    /\ fill'[a][e] = Execution(o, quantity, price)
    /\ \A x \in Received : fill'[x[1]][x[2]] = fill[x[1]][x[2]]
    /\ \A b \in Accounts, f \in Executions : fill[b][f] # NoFill => fill'[b][f] # NoFill

(* One execution more. *)
LEMMA ReceivedGrows ==
    ASSUME RowsTyped, NEW o \in Orders, NEW e \in Executions, NEW quantity \in Quantities,
           NEW price \in Prices, NEW a \in Accounts, NEW side \in Sides, NEW risk \in Nat,
           FillEffect(o, e, quantity, price, a, side, risk)
    PROVE  OneMore(o, e, quantity, price, a)
<1>1. PICK x : x = Execution(o, quantity, price)
  OBVIOUS
<1>2. x # NoFill
  BY <1>1 DEF Execution, NoFill
<1>3. fill' = [fill EXCEPT ![a][e] = x] /\ fill[a][e] = NoFill
  BY <1>1 DEF FillEffect
<1>4. ASSUME NEW b \in Accounts, NEW f \in Executions
      PROVE  fill'[b][f] = IF b = a /\ f = e THEN x ELSE fill[b][f]
  BY <1>3 DEF RowsTyped
<1>5. fill'[a][e] = x
  BY <1>4
<1>6. <<a, e>> \notin Received
  BY <1>3 DEF Received
<1>7. Received' = Received \cup {<<a, e>>}
  BY <1>2, <1>4 DEF Received
<1>8. \A y \in Received : fill'[y[1]][y[2]] = fill[y[1]][y[2]]
  BY <1>3, <1>4 DEF Received
<1>9. \A b \in Accounts, f \in Executions : fill[b][f] # NoFill => fill'[b][f] # NoFill
  BY <1>2, <1>4
<1> QED
  BY <1>1, <1>5, <1>6, <1>7, <1>8, <1>9 DEF OneMore

(* What a fill does to the lots of its account, whatever they are. *)
LEMMA NextLotsType ==
    ASSUME RowsTyped, Kept, NEW a \in Accounts, NEW e \in Executions, NEW side \in Sides,
           NEW quantity \in Quantities
    PROVE  /\ NextLots(a, e, side, quantity) \in [Executions -> Nat]
           /\ \A f \in Executions : NextLots(a, e, side, quantity)[f] # 0
                 => lot[a][f] # 0 \/ f = e
<1>1. PICK lots : lots = lot[a] /\ lots \in [Executions -> Nat]
  BY DEF Kept
<1>2. PICK previous \in Int : previous = position[a]
  BY DEF RowsTyped
<1>3. quantity \in Nat
  BY QuantityIsNatural
<1>4. CASE side = "SELL" /\ previous > 0
  <2>1. PICK q \in Nat : q = Smaller(previous, quantity)
    BY <1>2, <1>3, <1>4 DEF Smaller
  <2>2. NextLots(a, e, side, quantity) = Closed(lots, q)
    BY <1>1, <1>2, <1>4, <2>1 DEF NextLots
  <2>3. PICK left : left = Closed(lots, q) /\ left \in [Executions -> Nat]
    BY <1>1, ClosedLot
  <2>4. ASSUME NEW f \in Executions, lots[f] = 0 PROVE left[f] = 0
    <3>1. f \in Nat
      BY ExecutionIsNatural
    <3>2. LotsBefore(lots, f) \in Int
      BY <1>1, <3>1, OneLotMore
    <3>3. left[f] = 0 - Smaller(0, Larger(0, q - LotsBefore(lots, f)))
      BY <1>1, <2>3, <2>4, ClosedLot
    <3> QED
      BY <3>2, <3>3 DEF Smaller, Larger
  <2> QED
    BY <1>1, <2>2, <2>3, <2>4
<1>5. CASE ~(side = "SELL" /\ previous > 0)
  <2>1. PICK opened \in Nat : opened = Opening(side, quantity, previous)
    BY <1>2, <1>3 DEF Opening, Larger
  <2>2. NextLots(a, e, side, quantity) = [lots EXCEPT ![e] = opened]
    BY <1>1, <1>2, <1>5, <2>1 DEF NextLots
  <2> QED
    BY <1>1, <2>2
<1> QED
  BY <1>4, <1>5

(* This holds in every reachable state. *)
LEMMA KeptAlways == Spec => []Kept
<1>1. Init => Kept
  <2> SUFFICES ASSUME Init PROVE Kept
    OBVIOUS
  <2>1. Placed = {} /\ Received = {}
    BY DEF Init, Placed, Received
  <2>2. lot \in [Accounts -> [Executions -> Nat]]
    BY DEF Init
  <2>3. \A a \in Accounts, e \in Executions : lot[a][e] = 0
    BY DEF Init
  <2> QED
    BY <2>1, <2>2, <2>3, FS_EmptySet DEF Kept
<1>2. RowsTyped /\ Kept /\ [Next]_vars => Kept'
  <2> SUFFICES ASSUME RowsTyped, Kept, [Next]_vars PROVE Kept'
    OBVIOUS
  <2>1. ASSUME IsFiniteSet(Placed'), Placed \subseteq Placed', UNCHANGED <<fill, lot>>
        PROVE  Kept'
    <3>1. Received' = Received
      BY <2>1 DEF Received
    <3> QED
      BY <2>1, <3>1 DEF Kept
  <2>2. ASSUME NEW o \in Orders, NEW row \in OrderRows, NEW r \in ReservationRows,
               NEW risk \in Nat, Placement(o, row, r, risk)
        PROVE  Kept'
    BY <2>1, <2>2, PlacedStaysFinite DEF Placement, OnlyOrders
  <2>3. ASSUME NEW o \in Orders, NEW row \in OrderRows, Remark(o, row) PROVE Kept'
    BY <2>1, <2>3, PlacedStaysFinite DEF Remark
  <2>4. ASSUME UNCHANGED <<order, fill, lot>> PROVE Kept'
    <3>1. Placed' = Placed
      BY <2>4 DEF Placed
    <3> QED
      BY <2>1, <2>4, <3>1 DEF Kept
  <2>5. ASSUME NEW o \in Orders, NEW e \in Executions, NEW quantity \in Quantities,
               NEW price \in Prices, NEW a \in Accounts, NEW side \in Sides, NEW risk \in Nat,
               FillEffect(o, e, quantity, price, a, side, risk)
        PROVE  Kept'
    <3>1. Filled(order[o], quantity) \in OrderRows
      BY <2>5, OrderRowType DEF FillEffect
    <3>2. IsFiniteSet(Placed') /\ Placed \subseteq Placed' /\ o \in Placed'
      BY <2>5, <3>1, PlacedStaysFinite DEF FillEffect
    <3>3. /\ Received' = Received \cup {<<a, e>>}
          /\ fill'[a][e] = Execution(o, quantity, price)
          /\ \A x \in Received : fill'[x[1]][x[2]] = fill[x[1]][x[2]]
          /\ \A b \in Accounts, f \in Executions :
                fill[b][f] # NoFill => fill'[b][f] # NoFill
      <4>1. OneMore(o, e, quantity, price, a)
        BY <2>5, ReceivedGrows
      <4> QED
        BY <4>1 DEF OneMore
    <3>4. IsFiniteSet(Received')
      BY <3>3, FS_AddElement DEF Kept
    <3>5. ASSUME NEW x \in Received' PROVE fill'[x[1]][x[2]].order \in Placed'
      <4>1. CASE x \in Received
        BY <3>2, <3>3, <4>1 DEF Kept
      <4>2. CASE x = <<a, e>>
        BY <3>2, <3>3, <4>2 DEF Execution
      <4> QED
        BY <3>3, <4>1, <4>2
    <3>6. PICK lots : lots = NextLots(a, e, side, quantity) /\ lots \in [Executions -> Nat]
                      /\ \A f \in Executions : lots[f] # 0 => lot[a][f] # 0 \/ f = e
      BY NextLotsType
    <3>7. lot' = [lot EXCEPT ![a] = lots]
      BY <2>5, <3>6 DEF FillEffect
    <3>8. lot' \in [Accounts -> [Executions -> Nat]]
      BY <3>6, <3>7 DEF Kept
    <3>9. ASSUME NEW b \in Accounts, NEW f \in Executions, lot'[b][f] # 0
          PROVE  fill'[b][f] # NoFill
      <4>1. fill'[a][e] # NoFill
        BY <3>3 DEF Execution, NoFill
      <4>2. CASE b = a
        BY <3>3, <3>6, <3>7, <3>9, <4>1, <4>2 DEF Kept
      <4>3. CASE b # a
        BY <3>3, <3>7, <3>9, <4>3 DEF Kept
      <4> QED
        BY <4>2, <4>3
    <3> QED
      BY <3>2, <3>4, <3>5, <3>8, <3>9 DEF Kept
  <2>6. ASSUME NEW o \in Orders, NEW r \in ReservationRows, GivingBack(o, r) PROVE Kept'
    BY <2>4, <2>6 DEF GivingBack, OnlyOrders
  <2>7. CASE Nothing
    BY <2>4, <2>7 DEF Nothing
  <2>8. LedgerStep
    BY EveryStep
  <2> QED
    BY <2>2, <2>3, <2>5, <2>6, <2>7, <2>8 DEF LedgerStep
<1> QED
  BY <1>1, <1>2, RowsTypedAlways, PTL DEF Spec

(* Every table keeps its type, the lots included: no lot is closed below 0     *)
(* (fills.py, the FIFO loop).                                                  *)
THEOREM TypeCorrect == Spec => []TypeOK
<1>1. RowsTyped /\ Kept => TypeOK
  BY DEF Kept, TypeOK
<1> QED
  BY <1>1, RowsTypedAlways, KeptAlways, PTL

(* The orders under an anchor, finitely many, after one order is placed or     *)
(* changes.                                                                    *)
LEMMA UnderIsFinite ==
    ASSUME Kept, NEW k
    PROVE  IsFiniteSet(OrdersUnder(k))
<1>1. OrdersUnder(k) \in SUBSET Placed
  BY DEF OrdersUnder
<1> QED
  BY <1>1, FS_Subset DEF Kept

(* They stay, and the order joins the ones of its account and of GLOBAL. *)
LEMMA UnderMoves ==
    ASSUME RowsTyped, NEW o \in Orders, NEW row \in OrderRows,
           order' = [order EXCEPT ![o] = row],
           o \in Placed => row.account = order[o].account, NEW k \in Keys
    PROVE  /\ k \notin {Global, row.account} =>
                 o \notin OrdersUnder(k) /\ OrdersUnder(k)' = OrdersUnder(k)
           /\ k \in {Global, row.account} =>
                 OrdersUnder(k)' = OrdersUnder(k) \cup {o}
           /\ o \in OrdersUnder(k) => o \in Placed
           /\ k \in {Global, row.account} /\ o \in Placed => o \in OrdersUnder(k)
<1>1. Placed' = Placed \cup {o} /\ order'[o] = row
      /\ \A p \in Orders : p # o => order'[p] = order[p]
  BY PlacedGrows
<1>2. ASSUME NEW p \in Placed PROVE order'[p].account = order[p].account /\ p \in Orders
  BY <1>1 DEF Placed
<1> QED
  BY <1>1, <1>2 DEF OrdersUnder

(* g and h give the orders under an anchor the same values before and after,   *)
(* but for that order.                                                         *)
Moving(o, row, k, g, h) ==
    /\ order' = [order EXCEPT ![o] = row]
    /\ o \in Placed => row.account = order[o].account
    /\ g \in [OrdersUnder(k) -> Int] /\ h \in [OrdersUnder(k)' -> Int]
    /\ \A p \in OrdersUnder(k) : p # o => h[p] = g[p]

(* A total over the orders under an anchor then moves by what that order adds. *)
LEMMA SumMoves ==
    ASSUME RowsTyped, Kept, NEW o \in Orders, NEW row \in OrderRows, NEW k \in Keys,
           NEW g, NEW h, Moving(o, row, k, g, h)
    PROVE  /\ k \notin {Global, row.account} => Total(h) = Total(g)
           /\ k \in {Global, row.account} /\ o \notin Placed => Total(h) = Total(g) + h[o]
           /\ k \in {Global, row.account} /\ o \in Placed => Total(h) = Total(g) + h[o] - g[o]
<1> USE DEF Moving
<1>0. PICK U : U = OrdersUnder(k)
  OBVIOUS
<1>1. PICK V : V = OrdersUnder(k)'
  OBVIOUS
<1>2. /\ IsFiniteSet(U) /\ g \in [U -> Int] /\ h \in [V -> Int]
      /\ \A p \in U : p # o => h[p] = g[p]
  BY <1>0, <1>1, UnderIsFinite
<1>3. CASE k \notin {Global, row.account}
  <2>1. V = U /\ o \notin U
    BY <1>0, <1>1, <1>3, UnderMoves
  <2>2. \A p \in U : h[p] = g[p]
    BY <1>2, <2>1
  <2>3. h = g
    BY <1>2, <2>1, <2>2
  <2> QED
    BY <1>3, <2>3
<1>4. CASE k \in {Global, row.account} /\ o \notin Placed
  <2>1. V = U \cup {o} /\ o \notin U
    BY <1>0, <1>1, <1>4, UnderMoves
  <2>2. Grown(U, V, o, g, h)
    BY <1>2, <2>1 DEF Grown
  <2>3. Total(h) = Total(g) + h[o]
    BY <2>2, TotalGrows
  <2> QED
    BY <1>4, <2>3
<1>5. CASE k \in {Global, row.account} /\ o \in Placed
  <2>1. V = U \cup {o} /\ o \in U
    BY <1>0, <1>1, <1>5, UnderMoves
  <2>2. Changed(U, o, g, h)
    <3>1. V = U
      BY <2>1
    <3> QED
      BY <1>2, <2>1, <3>1 DEF Changed
  <2>3. Total(h) = Total(g) + h[o] - g[o]
    BY <2>2, TotalChanges
  <2> QED
    BY <1>5, <2>3
<1> QED
  BY <1>3, <1>4, <1>5

-----------------------------------------------------------------------------
(* The quantities of an order's executions, and the signed quantities of an    *)
(* account's orders.                                                           *)
FilledBy(o) == [x \in FillsOf(o) |-> fill[x[1]][x[2]].quantity]
Bought(a) == [o \in OrdersUnder(a) |-> Signed(order[o].side, order[o].filled)]

(* The executions of an order are finitely many, with quantities. *)
LEMMA FilledByType ==
    ASSUME RowsTyped, Kept, NEW o
    PROVE  IsFiniteSet(FillsOf(o)) /\ FilledBy(o) \in [FillsOf(o) -> Int]
<1>1. FillsOf(o) \in SUBSET Received
  BY DEF FillsOf
<1>2. IsFiniteSet(FillsOf(o))
  BY <1>1, FS_Subset DEF Kept
<1>3. ASSUME NEW x \in FillsOf(o) PROVE fill[x[1]][x[2]].quantity \in Int
  <2>1. x[1] \in Accounts /\ x[2] \in Executions /\ fill[x[1]][x[2]] # NoFill
    BY <1>1 DEF Received
  <2>2. fill[x[1]][x[2]] \in [order : Orders, quantity : Quantities, price : Prices]
    BY <2>1 DEF RowsTyped
  <2>3. fill[x[1]][x[2]].quantity \in Quantities
    BY <2>2
  <2> QED
    BY <2>3, QuantityIsNatural
<1> QED
  BY <1>2, <1>3 DEF FilledBy

(* A signed quantity is a number. *)
LEMMA SignedIsInteger ==
    ASSUME NEW side, NEW n \in Int
    PROVE  Signed(side, n) \in Int
BY DEF Signed

(* What an account's orders bought or sold are numbers. *)
LEMMA BoughtType ==
    ASSUME RowsTyped, NEW a
    PROVE  Bought(a) \in [OrdersUnder(a) -> Int]
<1>1. ASSUME NEW o \in OrdersUnder(a) PROVE Signed(order[o].side, order[o].filled) \in Int
  <2>1. order[o] \in OrderRows
    BY PlacedRow DEF OrdersUnder
  <2>2. order[o].filled \in Int
    BY <2>1 DEF OrderRows
  <2> QED
    BY <2>2, SignedIsInteger
<1> QED
  BY <1>1 DEF Bought

(* An order's filled quantity stays the sum of its executions. *)
LEMMA OrderQuantitiesKept ==
    ASSUME RowsTyped, RowsTyped', Kept, Kept', LedgerStep,
           \A o \in Placed : order[o].filled = Total(FilledBy(o))
    PROVE  (\A o \in Placed : order[o].filled = Total(FilledBy(o)))'
<1> SUFFICES ASSUME NEW p \in Placed' PROVE order'[p].filled = Total(FilledBy(p)')
  OBVIOUS
<1>0. p \in Orders
  BY DEF Placed
<1>1. ASSUME UNCHANGED fill, p \in Placed, order'[p].filled = order[p].filled
      PROVE  order'[p].filled = Total(FilledBy(p)')
  <2>1. FilledBy(p)' = FilledBy(p)
    BY <1>1 DEF FilledBy, FillsOf, Received
  <2> QED
    BY <1>1, <2>1
<1>2. ASSUME NEW o \in Orders, NEW row \in OrderRows, NEW r \in ReservationRows,
             NEW risk \in Nat, Placement(o, row, r, risk)
      PROVE  order'[p].filled = Total(FilledBy(p)')
  <2>0. Placed' = Placed \cup {o} /\ order'[o] = row
        /\ \A q \in Orders : q # o => order'[q] = order[q]
    BY <1>2, PlacedGrows DEF Placement
  <2>1. CASE p = o
    <3>1. o \notin Placed /\ row.filled = 0 /\ fill' = fill
      BY <1>2 DEF Placement, Placed, OnlyOrders
    <3>2. FillsOf(o)' = {}
      BY <3>1 DEF FillsOf, Received, Kept
    <3>3. DOMAIN (FilledBy(o)') = {}
      BY <3>2 DEF FilledBy
    <3>4. Total(FilledBy(o)') = 0
      BY <3>3, TotalOfNothing
    <3> QED
      BY <2>0, <2>1, <3>1, <3>4
  <2>2. CASE p # o
    BY <1>0, <1>1, <1>2, <2>0, <2>2 DEF Placement, OnlyOrders
  <2> QED
    BY <2>1, <2>2
<1>3. ASSUME NEW o \in Orders, NEW row \in OrderRows, Remark(o, row)
      PROVE  order'[p].filled = Total(FilledBy(p)')
  <2>0. Placed' = Placed \cup {o} /\ order'[o] = row /\ o \in Placed
        /\ \A q \in Orders : q # o => order'[q] = order[q]
    BY <1>3, PlacedGrows DEF Remark
  <2> QED
    BY <1>0, <1>1, <1>3, <2>0 DEF Remark
<1>4. ASSUME UNCHANGED <<order, fill>> PROVE order'[p].filled = Total(FilledBy(p)')
  BY <1>1, <1>4 DEF Placed
<1>5. ASSUME NEW o \in Orders, NEW e \in Executions, NEW quantity \in Quantities,
             NEW price \in Prices, NEW a \in Accounts, NEW side \in Sides, NEW risk \in Nat,
             FillEffect(o, e, quantity, price, a, side, risk)
      PROVE  order'[p].filled = Total(FilledBy(p)')
  <2>0. PICK row \in OrderRows : row = Filled(order[o], quantity)
    BY <1>5, OrderRowType DEF FillEffect
  <2>1. order' = [order EXCEPT ![o] = row] /\ o \in Placed
        /\ row.filled = order[o].filled + quantity
    BY <1>5, <2>0 DEF FillEffect, Filled, OrderRows
  <2>2. Placed' = Placed \cup {o} /\ order'[o] = row
        /\ \A q \in Orders : q # o => order'[q] = order[q]
    BY <2>1, PlacedGrows
  <2>3. OneMore(o, e, quantity, price, a)
    BY <1>5, ReceivedGrows
  <2>4. /\ fill'[a][e].order = o /\ fill'[a][e].quantity = quantity
        /\ <<a, e>> \notin FillsOf(p)
        /\ \A x \in FillsOf(p) : fill'[x[1]][x[2]] = fill[x[1]][x[2]]
    BY <2>3 DEF OneMore, Execution, FillsOf
  <2>5. CASE p = o
    <3>1. FillsOf(p)' = FillsOf(p) \cup {<<a, e>>}
      BY <2>3, <2>4, <2>5 DEF OneMore, FillsOf
    <3>2. PICK U, V, x : U = FillsOf(p) /\ V = FillsOf(p)' /\ x = <<a, e>>
      OBVIOUS
    <3>3. PICK g, h : g = FilledBy(p) /\ h = FilledBy(p)'
      OBVIOUS
    <3>4. IsFiniteSet(U) /\ g \in [U -> Int]
      BY <3>2, <3>3, FilledByType
    <3>5. x \notin U /\ V = U \cup {x}
      BY <2>4, <3>1, <3>2
    <3>6. h[x] = quantity /\ \A y \in U : y # x => h[y] = g[y]
      BY <2>4, <3>2, <3>3, <3>5 DEF FilledBy
    <3>7. h = [y \in V |-> h[y]]
      BY <3>2, <3>3 DEF FilledBy
    <3>8. h \in [V -> Int]
      <4>1. quantity \in Int
        BY QuantityIsNatural
      <4>2. \A y \in V : h[y] \in Int
        BY <3>4, <3>5, <3>6, <4>1
      <4> QED
        BY <3>7, <4>2
    <3>9. Total(h) = Total(g) + h[x]
      <4>1. Grown(U, V, x, g, h)
        BY <3>4, <3>5, <3>6, <3>8 DEF Grown
      <4> QED
        BY <4>1, TotalGrows
    <3> QED
      BY <2>1, <2>2, <2>5, <3>3, <3>6, <3>9
  <2>6. CASE p # o
    <3>1. FillsOf(p)' = FillsOf(p)
      BY <2>3, <2>4, <2>6 DEF OneMore, FillsOf
    <3>2. FilledBy(p)' = FilledBy(p)
      BY <2>4, <3>1 DEF FilledBy
    <3>3. p \in Placed /\ order'[p] = order[p]
      BY <1>0, <2>2, <2>6
    <3> QED
      BY <3>2, <3>3
  <2> QED
    BY <2>5, <2>6
<1> QED
  BY <1>2, <1>3, <1>4, <1>5 DEF LedgerStep, Nothing, GivingBack, OnlyOrders

(* The position stays the sum of the account's orders. *)
LEMMA PositionsKept ==
    ASSUME RowsTyped, RowsTyped', Kept, LedgerStep,
           \A a \in Accounts : position[a] = Total(Bought(a)), NEW b \in Accounts
    PROVE  position'[b] = Total(Bought(b)')
<1>0. b \in Keys /\ b # Global /\ position[b] = Total(Bought(b)) /\ position[b] \in Int
  BY LedgerAssumption DEF Keys, RowsTyped
<1>1. Bought(b) \in [OrdersUnder(b) -> Int]
  BY BoughtType
<1>2. Bought(b)' \in [OrdersUnder(b)' -> Int]
  <2>1. ASSUME NEW o \in OrdersUnder(b)'
        PROVE  Signed(order'[o].side, order'[o].filled) \in Int
    <3>1. order'[o] \in OrderRows
      BY DEF OrdersUnder, Placed, RowsTyped
    <3>2. order'[o].filled \in Int
      BY <3>1 DEF OrderRows
    <3> QED
      BY <3>2, SignedIsInteger
  <2> QED
    BY <2>1 DEF Bought
<1>3. PICK g, h : g = Bought(b) /\ h = Bought(b)'
  OBVIOUS
<1>4. ASSUME NEW o \in Orders, NEW row \in OrderRows, order' = [order EXCEPT ![o] = row],
             o \in Placed => row.account = order[o].account
      PROVE  /\ b # row.account => Total(h) = Total(g)
             /\ b = row.account /\ o \notin Placed => Total(h) = Total(g) + h[o]
             /\ b = row.account /\ o \in Placed => Total(h) = Total(g) + h[o] - g[o]
             /\ b = row.account => h[o] = Signed(row.side, row.filled)
             /\ b = row.account /\ o \in Placed =>
                   g[o] = Signed(order[o].side, order[o].filled)
  <2>1. order'[o] = row /\ \A p \in Orders : p # o => order'[p] = order[p]
    BY <1>4, PlacedGrows
  <2>2. ASSUME NEW p \in OrdersUnder(b), p # o PROVE h[p] = g[p]
    <3>1. p \in Placed /\ p \in Orders /\ p \in OrdersUnder(b)'
      BY <1>0, <1>4, <2>2, UnderMoves DEF OrdersUnder, Placed
    <3> QED
      BY <1>3, <2>1, <2>2, <3>1 DEF Bought
  <2>3. /\ b # row.account => Total(h) = Total(g)
        /\ b = row.account /\ o \notin Placed => Total(h) = Total(g) + h[o]
        /\ b = row.account /\ o \in Placed => Total(h) = Total(g) + h[o] - g[o]
    <3>1. g \in [OrdersUnder(b) -> Int] /\ h \in [OrdersUnder(b)' -> Int]
      BY <1>1, <1>2, <1>3
    <3>2. \A p \in OrdersUnder(b) : p # o => h[p] = g[p]
      BY <2>2
    <3>3. /\ b \notin {Global, row.account} => Total(h) = Total(g)
          /\ b \in {Global, row.account} /\ o \notin Placed => Total(h) = Total(g) + h[o]
          /\ b \in {Global, row.account} /\ o \in Placed
                => Total(h) = Total(g) + h[o] - g[o]
      <4>1. Moving(o, row, b, g, h)
        BY <1>4, <3>1, <3>2 DEF Moving
      <4> QED
        BY <1>0, <4>1, SumMoves
    <3> QED
      BY <1>0, <3>3
  <2>4. b = row.account => o \in OrdersUnder(b)'
    <3>1. b \in {Global, row.account} => OrdersUnder(b)' = OrdersUnder(b) \cup {o}
      BY <1>0, <1>4, UnderMoves
    <3> QED
      BY <3>1
  <2>5. b = row.account /\ o \in Placed => o \in OrdersUnder(b)
    BY <1>0, <1>4, UnderMoves
  <2> QED
    BY <1>3, <2>1, <2>3, <2>4, <2>5 DEF Bought
<1>5. ASSUME UNCHANGED <<order, position>> PROVE position'[b] = Total(h)
  <2>1. h = g
    BY <1>3, <1>5 DEF Bought, OrdersUnder, Placed
  <2> QED
    BY <1>0, <1>3, <1>5, <2>1
<1>6. ASSUME NEW o \in Orders, NEW row \in OrderRows, NEW r \in ReservationRows,
             NEW risk \in Nat, Placement(o, row, r, risk)
      PROVE  position'[b] = Total(h)
  <2>1. o \notin Placed /\ row.filled = 0 /\ position' = position
    BY <1>6 DEF Placement, OnlyOrders, Placed
  <2>2. Signed(row.side, row.filled) = 0
    <3>1. row.filled \in Int
      BY DEF OrderRows
    <3>2. \/ Signed(row.side, row.filled) = row.filled
          \/ Signed(row.side, row.filled) = 0 - row.filled
      BY <3>1 DEF Signed
    <3> QED
      BY <2>1, <3>2
  <2>3. /\ b # row.account => Total(h) = Total(g)
        /\ b = row.account => Total(h) = Total(g) + 0
    BY <1>4, <1>6, <2>1, <2>2 DEF Placement
  <2> QED
    BY <1>0, <1>3, <2>1, <2>3
<1>7. ASSUME NEW o \in Orders, NEW row \in OrderRows, Remark(o, row)
      PROVE  position'[b] = Total(h)
  <2>1. PICK s \in Int : s = Signed(row.side, row.filled)
    <3>1. row.filled \in Int
      BY DEF OrderRows
    <3> QED
      BY <3>1, SignedIsInteger
  <2>2. o \in Placed /\ s = Signed(order[o].side, order[o].filled) /\ position' = position
    BY <1>7, <2>1 DEF Remark
  <2>3. /\ b # row.account => Total(h) = Total(g)
        /\ b = row.account => Total(h) = Total(g) + s - s
    BY <1>4, <1>7, <2>1, <2>2 DEF Remark
  <2> QED
    BY <1>0, <1>3, <2>2, <2>3
<1>8. ASSUME NEW o \in Orders, NEW e \in Executions, NEW quantity \in Quantities,
             NEW price \in Prices, NEW a \in Accounts, NEW side \in Sides, NEW risk \in Nat,
             FillEffect(o, e, quantity, price, a, side, risk)
      PROVE  position'[b] = Total(h)
  <2>1. PICK row \in OrderRows : row = Filled(order[o], quantity)
    BY <1>8, OrderRowType DEF FillEffect
  <2>2. /\ order' = [order EXCEPT ![o] = row] /\ o \in Placed /\ order[o] \in OrderRows
        /\ row.filled = order[o].filled + quantity /\ row.account = a
        /\ row.side = side /\ order[o].side = side /\ order[o].account = a
    BY <1>8, <2>1 DEF FillEffect, Filled, OrderRows
  <2>3. position' = [position EXCEPT ![a] = position[a] + Signed(side, quantity)]
    BY <1>8 DEF FillEffect
  <2>4. order[o].filled \in Nat /\ quantity \in Nat
    BY <2>2, QuantityIsNatural DEF OrderRows
  <2>5. /\ b # a => Total(h) = Total(g)
        /\ b = a => Total(h) = Total(g) + Signed(side, order[o].filled + quantity)
                                        - Signed(side, order[o].filled)
    BY <1>4, <2>2
  <2>6. CASE b # a
    BY <1>0, <1>3, <2>3, <2>5, <2>6 DEF RowsTyped
  <2>7. CASE b = a
    <3>1. position'[b] = position[b] + Signed(side, quantity)
      BY <2>3, <2>7 DEF RowsTyped
    <3> QED
      BY <1>0, <1>3, <2>4, <2>5, <2>7, <3>1 DEF Signed
  <2> QED
    BY <2>6, <2>7
<1>9. position'[b] = Total(h)
  BY <1>5, <1>6, <1>7, <1>8 DEF LedgerStep, Nothing, GivingBack, OnlyOrders
<1> QED
  BY <1>3, <1>9

(* An order's filled quantity is the sum of its executions and a position the  *)
(* sum of its account's orders, whatever is repeated or contradicted (fills.py *)
(* persist_once).                                                              *)
THEOREM QuantitiesAddUpAlways == Spec => []QuantitiesAddUp
<1>0. QuantitiesAddUp <=> /\ \A o \in Placed : order[o].filled = Total(FilledBy(o))
                          /\ \A a \in Accounts : position[a] = Total(Bought(a))
  BY Zenon DEF QuantitiesAddUp, FilledBy, Bought
<1>1. Init => QuantitiesAddUp
  <2> SUFFICES ASSUME Init PROVE QuantitiesAddUp
    OBVIOUS
  <2>1. Placed = {}
    BY DEF Init, Placed
  <2>2. ASSUME NEW a \in Accounts PROVE position[a] = Total(Bought(a))
    <3>1. DOMAIN Bought(a) = {}
      BY <2>1 DEF Bought, OrdersUnder
    <3>2. Total(Bought(a)) = 0
      BY <3>1, TotalOfNothing
    <3> QED
      BY <3>2 DEF Init
  <2> QED
    BY <1>0, <2>1, <2>2
<1>2. RowsTyped /\ RowsTyped' /\ Kept /\ Kept' /\ QuantitiesAddUp /\ [Next]_vars
         => QuantitiesAddUp'
  <2> SUFFICES ASSUME RowsTyped, RowsTyped', Kept, Kept', QuantitiesAddUp, [Next]_vars
               PROVE  QuantitiesAddUp'
    OBVIOUS
  <2>1. LedgerStep
    BY EveryStep
  <2>2. (\A o \in Placed : order[o].filled = Total(FilledBy(o)))'
    BY <1>0, <2>1, OrderQuantitiesKept
  <2>3. ASSUME NEW a \in Accounts PROVE position'[a] = Total(Bought(a)')
    BY <1>0, <2>1, PositionsKept
  <2> QED
    BY <2>2, <2>3, Zenon DEF QuantitiesAddUp, FilledBy, Bought
<1> QED
  BY <1>1, <1>2, RowsTypedAlways, KeptAlways, PTL DEF Spec

(* The open lots of an account belong to executions it received. *)
LEMMA OpenLotsAreFinite ==
    ASSUME RowsTyped, Kept, NEW a \in Accounts
    PROVE  IsFiniteSet(Open(lot[a])) /\ lot[a] \in [Executions -> Nat]
<1>1. PICK S : S = {x[2] : x \in Received}
  OBVIOUS
<1>2. IsFiniteSet(S)
  <2>1. PICK f : f = [x \in Received |-> x[2]]
    OBVIOUS
  <2>2. f \in Surjection(Received, S)
    BY <1>1, <2>1 DEF Surjection
  <2> QED
    BY <2>2, FS_Surjection DEF Kept
<1>3. ASSUME NEW e \in Open(lot[a]) PROVE e \in S
  <2>1. e \in Executions /\ fill[a][e] # NoFill
    BY DEF Open, Kept
  <2>2. <<a, e>> \in Received
    BY <2>1 DEF Received
  <2> QED
    BY <1>1, <2>2
<1>4. Open(lot[a]) \in SUBSET S
  BY <1>3
<1> QED
  BY <1>2, <1>4, FS_Subset DEF Kept

Held(lots) == Total([e \in Open(lots) |-> lots[e]])

(* A purchase opens a lot of its own. *)
LEMMA OpenedTotal ==
    ASSUME NEW lots, lots \in [Executions -> Nat], IsFiniteSet(Open(lots)),
           NEW e \in Executions, lots[e] = 0, NEW opened \in Nat
    PROVE  Held([lots EXCEPT ![e] = opened]) = Held(lots) + opened
<1>0. ASSUME NEW some, some \in [Executions -> Nat]
      PROVE  [f \in Open(some) |-> some[f]] \in [Open(some) -> Int]
  BY <1>0 DEF Open
<1>1. PICK more : more = [lots EXCEPT ![e] = opened]
  OBVIOUS
<1>2. PICK g : g = [f \in Open(lots) |-> lots[f]]
  OBVIOUS
<1>3. PICK h : h = [f \in Open(more) |-> more[f]]
  OBVIOUS
<1>4. more \in [Executions -> Nat]
  BY <1>1
<1>5. g \in [Open(lots) -> Int] /\ h \in [Open(more) -> Int]
  BY <1>0, <1>2, <1>3, <1>4
<1>6. Total(g) \in Int
  BY <1>5, TotalIsInteger
<1>7. CASE opened = 0
  <2>1. more = lots
    BY <1>1, <1>7
  <2>2. Held(more) = Held(lots) /\ Held(lots) = Total(g)
    BY <1>2, <2>1 DEF Held
  <2> QED
    BY <1>1, <1>6, <1>7, <2>2
<1>8. CASE opened # 0
  <2>1. Open(more) = Open(lots) \cup {e} /\ e \notin Open(lots)
    BY <1>1, <1>8 DEF Open
  <2>2. h[e] = opened /\ \A f \in Open(lots) : f # e => h[f] = g[f]
    BY <1>1, <1>2, <1>3, <2>1 DEF Open
  <2>3. Grown(Open(lots), Open(more), e, g, h)
    BY <1>5, <2>1, <2>2 DEF Grown
  <2>4. Total(h) = Total(g) + h[e]
    BY <2>3, TotalGrows
  <2> QED
    BY <1>1, <1>2, <1>3, <2>2, <2>4 DEF Held
<1> QED
  BY <1>7, <1>8

(* The lots of an account hold its long position after a fill as before. *)
LEMMA NextLotsTotal ==
    ASSUME RowsTyped, Kept, NEW a \in Accounts, NEW e \in Executions, NEW side \in Sides,
           NEW quantity \in Quantities, fill[a][e] = NoFill,
           Held(lot[a]) = Larger(0, position[a])
    PROVE  Held(NextLots(a, e, side, quantity)) =
              Larger(0, position[a] + Signed(side, quantity))
<1>1. PICK lots : lots = lot[a] /\ lots \in [Executions -> Nat] /\ IsFiniteSet(Open(lots))
  BY OpenLotsAreFinite
<1>2. PICK previous \in Int : previous = position[a]
  BY DEF RowsTyped
<1>3. quantity \in Nat
  BY QuantityIsNatural
<1>4. Held(lots) = Larger(0, previous)
  BY <1>1, <1>2
<1>5. CASE side = "SELL" /\ previous > 0
  <2>1. PICK q \in Nat : q = Smaller(previous, quantity) /\ q <= previous
    BY <1>2, <1>3, <1>5 DEF Smaller
  <2>2. NextLots(a, e, side, quantity) = Closed(lots, q)
    BY <1>1, <1>2, <1>5, <2>1 DEF NextLots
  <2>3. Held(lots) = previous
    BY <1>4, <1>5 DEF Larger
  <2>4. q <= Total([f \in Open(lots) |-> lots[f]])
    BY <2>1, <2>3 DEF Held
  <2>5. Held(Closed(lots, q)) = Held(lots) - q
    BY <1>1, <2>4, ClosedTotal DEF Held
  <2>6. Signed(side, quantity) = 0 - quantity
    BY <1>3, <1>5 DEF Signed
  <2>7. previous - q = Larger(0, previous + (0 - quantity))
    BY <1>3, <1>5, <2>1 DEF Larger, Smaller
  <2> QED
    BY <1>2, <2>2, <2>3, <2>5, <2>6, <2>7
<1>6. CASE ~(side = "SELL" /\ previous > 0)
  <2>1. PICK opened \in Nat : opened = Opening(side, quantity, previous)
    BY <1>2, <1>3 DEF Opening, Larger
  <2>2. NextLots(a, e, side, quantity) = [lots EXCEPT ![e] = opened]
    BY <1>1, <1>2, <1>6, <2>1 DEF NextLots
  <2>3. lots[e] = 0
    BY <1>1 DEF Kept
  <2>4. Held([lots EXCEPT ![e] = opened]) = Held(lots) + opened
    BY <1>1, <2>3, OpenedTotal
  <2>5. Larger(0, previous) + opened = Larger(0, previous + Signed(side, quantity))
    <3>1. CASE side = "SELL"
      <4>1. Signed(side, quantity) = 0 - quantity /\ opened = 0 /\ previous <= 0
        BY <1>2, <1>3, <1>6, <2>1, <3>1 DEF Signed, Opening
      <4> QED
        BY <1>2, <1>3, <4>1 DEF Larger
    <3>2. CASE side = "BUY"
      <4>1. Signed(side, quantity) = quantity
        BY <3>2 DEF Signed
      <4>2. opened = IF previous >= 0 THEN quantity ELSE Larger(0, quantity + previous)
        BY <2>1, <3>2 DEF Opening
      <4> QED
        BY <1>2, <1>3, <4>1, <4>2 DEF Larger
    <3> QED
      BY <3>1, <3>2 DEF Sides
  <2> QED
    BY <1>2, <1>4, <2>2, <2>4, <2>5
<1> QED
  BY <1>5, <1>6

(* The open lots are the long position, in whatever order purchases and sales  *)
(* arrive (fills.py, the FIFO loop and the lineage).                           *)
THEOREM LotsAreThePositionAlways == Spec => []LotsAreThePosition
<1>0. LotsAreThePosition <=> \A a \in Accounts : Held(lot[a]) = Larger(0, position[a])
  BY DEF LotsAreThePosition, Held, Open, OpenLots
<1>1. Init => LotsAreThePosition
  <2> SUFFICES ASSUME Init, NEW a \in Accounts PROVE Held(lot[a]) = Larger(0, position[a])
    BY <1>0
  <2>1. position[a] = 0 /\ Open(lot[a]) = {}
    BY DEF Init, Open
  <2>2. Held(lot[a]) = 0
    BY <2>1, TotalOfNothing DEF Held
  <2> QED
    BY <2>1, <2>2 DEF Larger
<1>2. RowsTyped /\ Kept /\ LotsAreThePosition /\ [Next]_vars => LotsAreThePosition'
  <2> SUFFICES ASSUME RowsTyped, Kept, LotsAreThePosition, [Next]_vars, NEW b \in Accounts
               PROVE  Held(lot'[b]) = Larger(0, position'[b])
    BY DEF LotsAreThePosition, Held, Open, OpenLots
  <2>1. Held(lot[b]) = Larger(0, position[b])
    BY <1>0
  <2>2. CASE UNCHANGED <<lot, position>>
    BY <2>1, <2>2
  <2>3. ASSUME NEW o \in Orders, NEW e \in Executions, NEW quantity \in Quantities,
               NEW price \in Prices, NEW a \in Accounts, NEW side \in Sides, NEW risk \in Nat,
               FillEffect(o, e, quantity, price, a, side, risk)
        PROVE  Held(lot'[b]) = Larger(0, position'[b])
    <3>1. /\ fill[a][e] = NoFill
          /\ position' = [position EXCEPT ![a] = position[a] + Signed(side, quantity)]
          /\ lot' = [lot EXCEPT ![a] = NextLots(a, e, side, quantity)]
      BY <2>3 DEF FillEffect
    <3>2. CASE b = a
      <4>1. lot'[b] = NextLots(a, e, side, quantity)
            /\ position'[b] = position[a] + Signed(side, quantity)
        BY <3>1, <3>2 DEF RowsTyped, Kept
      <4>2. Held(NextLots(a, e, side, quantity)) =
               Larger(0, position[a] + Signed(side, quantity))
        BY <2>1, <3>1, <3>2, NextLotsTotal
      <4> QED
        BY <4>1, <4>2
    <3>3. CASE b # a
      <4>1. lot'[b] = lot[b] /\ position'[b] = position[b]
        BY <3>1, <3>3 DEF RowsTyped, Kept
      <4> QED
        BY <2>1, <4>1
    <3> QED
      BY <3>2, <3>3
  <2>4. LedgerStep
    BY EveryStep
  <2> QED
    BY <2>2, <2>3, <2>4
       DEF LedgerStep, Placement, Remark, Nothing, GivingBack, OnlyOrders
<1> QED
  BY <1>1, <1>2, RowsTypedAlways, KeptAlways, PTL DEF Spec

(* What is held is every execution once, lot by lot (fills.py). *)
THEOREM PositionAddsUpAlways == Spec => []PositionAddsUp
<1>1. QuantitiesAddUp /\ LotsAreThePosition => PositionAddsUp
  BY DEF PositionAddsUp
<1> QED
  BY <1>1, QuantitiesAddUpAlways, LotsAreThePositionAlways, PTL

Consuming(k) == [o \in OrdersUnder(k) |-> reservation[o].consumed]
Remaining(k) == [o \in OrdersUnder(k) |-> reservation[o].remaining]

(* No fill of an order under the anchor was reported to exceed its reservation. *)
Covered(k) ==
    \A o \in OrdersUnder(k) : <<"FILL_RISK_EXCEEDS_RESERVATION", o>> \notin incidents

AnchorAddsUp(k) ==
    /\ anchor[k].remaining = Total(Remaining(k))
    /\ anchor[k].position >= Total(Consuming(k))
    /\ Covered(k) => anchor[k].position = Total(Consuming(k))

SumsMove(o, row, r, k, c, m) ==
    /\ c = Total(Consuming(k)) /\ m = Total(Remaining(k))
    /\ k \notin {Global, row.account} =>
          Total(Consuming(k)') = c /\ Total(Remaining(k)') = m
    /\ k \in {Global, row.account} /\ o \notin Placed =>
          /\ Total(Consuming(k)') = c + r.consumed
          /\ Total(Remaining(k)') = m + r.remaining
    /\ k \in {Global, row.account} /\ o \in Placed =>
          /\ Total(Consuming(k)') = c + r.consumed - reservation[o].consumed
          /\ Total(Remaining(k)') = m + r.remaining - reservation[o].remaining

(* What an order's new row and new reservation add to the totals above it. *)
LEMMA ReservationSums ==
    ASSUME RowsTyped, RowsTyped', Kept, NEW o \in Orders, NEW row \in OrderRows,
           NEW r \in ReservationRows, NEW k \in Keys,
           order' = [order EXCEPT ![o] = row],
           o \in Placed => row.account = order[o].account,
           reservation' = [reservation EXCEPT ![o] = r]
    PROVE  \E c \in Int, m \in Int : SumsMove(o, row, r, k, c, m)
<1>1. ASSUME NEW p \in OrdersUnder(k)
      PROVE  /\ p \in Orders /\ reservation[p].consumed \in Int
             /\ reservation[p].remaining \in Int
  BY DEF OrdersUnder, Placed, RowsTyped, ReservationRows
<1>2. ASSUME NEW p \in OrdersUnder(k)'
      PROVE  /\ p \in Orders /\ reservation'[p].consumed \in Int
             /\ reservation'[p].remaining \in Int
  BY DEF OrdersUnder, Placed, RowsTyped, ReservationRows
<1>3. reservation'[o] = r /\ \A p \in Orders : p # o => reservation'[p] = reservation[p]
  BY DEF RowsTyped
<1>4. OrdersUnder(k) \subseteq OrdersUnder(k)'
  BY UnderMoves
<1>5. k \in {Global, row.account} => o \in OrdersUnder(k)'
  <2>1. k \in {Global, row.account} => OrdersUnder(k)' = OrdersUnder(k) \cup {o}
    BY UnderMoves
  <2> QED
    BY <2>1
<1>6. k \in {Global, row.account} /\ o \in Placed => o \in OrdersUnder(k)
  BY UnderMoves
<1>7. PICK g, h : g = Consuming(k) /\ h = Consuming(k)'
  OBVIOUS
<1>8. PICK i, j : i = Remaining(k) /\ j = Remaining(k)'
  OBVIOUS
<1>9. Moving(o, row, k, g, h)
  <2>1. g \in [OrdersUnder(k) -> Int]
    BY <1>1, <1>7 DEF Consuming
  <2>2. h \in [OrdersUnder(k)' -> Int]
    BY <1>2, <1>7 DEF Consuming
  <2>3. \A p \in OrdersUnder(k) : p # o => h[p] = g[p]
    BY <1>1, <1>3, <1>4, <1>7 DEF Consuming
  <2> QED
    BY <2>1, <2>2, <2>3 DEF Moving
<1>10. Moving(o, row, k, i, j)
  <2>1. i \in [OrdersUnder(k) -> Int]
    BY <1>1, <1>8 DEF Remaining
  <2>2. j \in [OrdersUnder(k)' -> Int]
    BY <1>2, <1>8 DEF Remaining
  <2>3. \A p \in OrdersUnder(k) : p # o => j[p] = i[p]
    BY <1>1, <1>3, <1>4, <1>8 DEF Remaining
  <2> QED
    BY <2>1, <2>2, <2>3 DEF Moving
<1>11. Total(g) \in Int /\ Total(i) \in Int
  <2>1. IsFiniteSet(OrdersUnder(k))
    BY UnderIsFinite
  <2>2. g \in [OrdersUnder(k) -> Int] /\ i \in [OrdersUnder(k) -> Int]
    BY <1>9, <1>10 DEF Moving
  <2> QED
    BY <2>1, <2>2, TotalIsInteger
<1>12. /\ k \in {Global, row.account} => h[o] = r.consumed /\ j[o] = r.remaining
       /\ k \in {Global, row.account} /\ o \in Placed =>
             g[o] = reservation[o].consumed /\ i[o] = reservation[o].remaining
  BY <1>3, <1>5, <1>6, <1>7, <1>8 DEF Consuming, Remaining
<1>13. /\ k \notin {Global, row.account} => Total(h) = Total(g)
       /\ k \in {Global, row.account} /\ o \notin Placed => Total(h) = Total(g) + h[o]
       /\ k \in {Global, row.account} /\ o \in Placed => Total(h) = Total(g) + h[o] - g[o]
  BY <1>9, SumMoves
<1>14. /\ k \notin {Global, row.account} => Total(j) = Total(i)
       /\ k \in {Global, row.account} /\ o \notin Placed => Total(j) = Total(i) + j[o]
       /\ k \in {Global, row.account} /\ o \in Placed => Total(j) = Total(i) + j[o] - i[o]
  BY <1>10, SumMoves
<1>15. PICK c \in Int, m \in Int : c = Total(g) /\ m = Total(i)
  BY <1>11
<1>16. SumsMove(o, row, r, k, c, m)
  BY <1>7, <1>8, <1>12, <1>13, <1>14, <1>15 DEF SumsMove
<1> QED
  BY <1>16

(* An anchor whose orders are all covered had them covered before. *)
LEMMA WasCovered ==
    ASSUME RowsTyped, NEW o \in Orders, NEW row \in OrderRows,
           order' = [order EXCEPT ![o] = row],
           o \in Placed => row.account = order[o].account, NEW k \in Keys,
           incidents \subseteq incidents', Covered(k)'
    PROVE  /\ Covered(k)
           /\ k \in {Global, row.account} =>
                 <<"FILL_RISK_EXCEEDS_RESERVATION", o>> \notin incidents'
<1>1. OrdersUnder(k) \subseteq OrdersUnder(k)'
  BY UnderMoves
<1>2. k \in {Global, row.account} => o \in OrdersUnder(k)'
  <2>1. k \in {Global, row.account} => OrdersUnder(k)' = OrdersUnder(k) \cup {o}
    BY UnderMoves
  <2> QED
    BY <2>1
<1> QED
  BY <1>1, <1>2 DEF Covered

(* Both anchors take the same amount. *)
LEMMA AnchoredValue ==
    ASSUME RowsTyped, NEW a, NEW amount \in Int, NEW k \in Keys, anchor' = Anchored(a, amount)
    PROVE  /\ anchor[k].position \in Int /\ anchor[k].remaining \in Int
           /\ anchor'[k].position = anchor[k].position
           /\ k \in {Global, a} => anchor'[k].remaining = anchor[k].remaining + amount
           /\ k \notin {Global, a} => anchor'[k].remaining = anchor[k].remaining
BY DEF RowsTyped, Anchored

(* No step takes an anchor away from the sum of the reservations under it. *)
LEMMA AnchorKeepsAddingUp ==
    ASSUME RowsTyped, RowsTyped', Kept, LedgerStep, NEW k \in Keys, AnchorAddsUp(k)
    PROVE  AnchorAddsUp(k)'
<1>0. anchor[k].position \in Int /\ anchor[k].remaining \in Int
  BY DEF RowsTyped
<1>1. ASSUME UNCHANGED <<order, reservation, anchor>>, incidents \subseteq incidents'
      PROVE  AnchorAddsUp(k)'
  <2>1. OrdersUnder(k)' = OrdersUnder(k)
    BY <1>1 DEF OrdersUnder, Placed
  <2>2. Consuming(k)' = Consuming(k) /\ Remaining(k)' = Remaining(k)
    BY <1>1, <2>1 DEF Consuming, Remaining
  <2>3. Covered(k)' => Covered(k)
    BY <1>1, <2>1 DEF Covered
  <2> QED
    BY <1>1, <2>2, <2>3 DEF AnchorAddsUp
<1>2. ASSUME NEW o \in Orders, NEW row \in OrderRows, NEW r \in ReservationRows,
             NEW risk \in Nat, Placement(o, row, r, risk)
      PROVE  AnchorAddsUp(k)'
  <2>1. /\ o \notin Placed /\ order' = [order EXCEPT ![o] = row]
        /\ reservation' = [reservation EXCEPT ![o] = r] /\ r.consumed = 0
        /\ r.remaining = risk /\ anchor' = Anchored(row.account, risk)
        /\ incidents' = incidents
    BY <1>2 DEF Placement, Placed, OnlyOrders
  <2>2. PICK c \in Int, m \in Int :
           /\ c = Total(Consuming(k)) /\ m = Total(Remaining(k))
           /\ k \notin {Global, row.account} =>
                 Total(Consuming(k)') = c /\ Total(Remaining(k)') = m
           /\ k \in {Global, row.account} =>
                 /\ Total(Consuming(k)') = c + r.consumed
                 /\ Total(Remaining(k)') = m + r.remaining
    <3>1. PICK c \in Int, m \in Int : SumsMove(o, row, r, k, c, m)
      BY <2>1, ReservationSums
    <3> QED
      BY <2>1, <3>1 DEF SumsMove
  <2>3. /\ anchor'[k].position = anchor[k].position
        /\ k \in {Global, row.account} => anchor'[k].remaining = anchor[k].remaining + risk
        /\ k \notin {Global, row.account} => anchor'[k].remaining = anchor[k].remaining
    <3>1. PICK a : a = row.account
      OBVIOUS
    <3>2. anchor' = Anchored(a, risk) /\ risk \in Int
      BY <2>1, <3>1
    <3>3. /\ anchor'[k].position = anchor[k].position
          /\ k \in {Global, a} => anchor'[k].remaining = anchor[k].remaining + risk
          /\ k \notin {Global, a} => anchor'[k].remaining = anchor[k].remaining
      BY <3>2, AnchoredValue
    <3> QED
      BY <3>1, <3>3
  <2>4. Covered(k)' => Covered(k)
    BY <2>1, WasCovered
  <2>5. /\ anchor[k].remaining = m /\ anchor[k].position >= c
        /\ Covered(k) => anchor[k].position = c
    BY <2>2 DEF AnchorAddsUp
  <2>6. Total(Consuming(k)') = c /\ anchor'[k].remaining = Total(Remaining(k)')
    BY <1>0, <2>1, <2>2, <2>3, <2>5
  <2> QED
    BY <1>0, <2>3, <2>4, <2>5, <2>6 DEF AnchorAddsUp
<1>3. ASSUME NEW o \in Orders, NEW row \in OrderRows, Remark(o, row)
      PROVE  AnchorAddsUp(k)'
  <2>1. PICK r \in ReservationRows : r = reservation[o]
    BY DEF RowsTyped
  <2>2. /\ o \in Placed /\ order' = [order EXCEPT ![o] = row]
        /\ row.account = order[o].account /\ reservation' = reservation
        /\ anchor' = anchor /\ incidents \subseteq incidents'
    BY <1>3 DEF Remark
  <2>3. reservation' = [reservation EXCEPT ![o] = r]
    BY <2>1, <2>2 DEF RowsTyped
  <2>4. PICK c \in Int, m \in Int :
           /\ c = Total(Consuming(k)) /\ m = Total(Remaining(k))
           /\ k \notin {Global, row.account} =>
                 Total(Consuming(k)') = c /\ Total(Remaining(k)') = m
           /\ k \in {Global, row.account} =>
                 /\ Total(Consuming(k)') = c + r.consumed - r.consumed
                 /\ Total(Remaining(k)') = m + r.remaining - r.remaining
    <3>1. PICK c \in Int, m \in Int : SumsMove(o, row, r, k, c, m)
      BY <2>2, <2>3, ReservationSums
    <3> QED
      BY <2>1, <2>2, <3>1 DEF SumsMove
  <2>5. r.consumed \in Int /\ r.remaining \in Int
    BY DEF ReservationRows
  <2>6. Total(Consuming(k)') = c /\ Total(Remaining(k)') = m
    BY <2>4, <2>5
  <2>7. Covered(k)' => Covered(k)
    BY <2>2, WasCovered
  <2> QED
    BY <2>2, <2>4, <2>6, <2>7 DEF AnchorAddsUp
<1>4. ASSUME NEW o \in Orders, NEW r \in ReservationRows, GivingBack(o, r)
      PROVE  AnchorAddsUp(k)'
  <2>1. PICK row \in OrderRows : row = order[o]
    BY <1>4, PlacedRow DEF GivingBack
  <2>2. PICK q \in ReservationRows : q = reservation[o]
    BY DEF RowsTyped
  <2>3. q.remaining \in Nat /\ q.consumed \in Nat
    BY DEF ReservationRows
  <2>4. PICK amount \in Int : amount = -q.remaining /\ amount = 0 - q.remaining
    BY <2>3
  <2>5. /\ o \in Placed /\ reservation' = [reservation EXCEPT ![o] = r]
        /\ r.consumed = q.consumed /\ r.remaining = 0 /\ order' = order
        /\ anchor' = Anchored(row.account, amount) /\ incidents' = incidents
    BY <1>4, <2>1, <2>2, <2>4 DEF GivingBack, OnlyOrders
  <2>6. order' = [order EXCEPT ![o] = row]
    BY <2>1, <2>5 DEF RowsTyped
  <2>7. PICK c \in Int, m \in Int :
           /\ c = Total(Consuming(k)) /\ m = Total(Remaining(k))
           /\ k \notin {Global, row.account} =>
                 Total(Consuming(k)') = c /\ Total(Remaining(k)') = m
           /\ k \in {Global, row.account} =>
                 /\ Total(Consuming(k)') = c + r.consumed - q.consumed
                 /\ Total(Remaining(k)') = m + r.remaining - q.remaining
    <3>1. PICK c \in Int, m \in Int : SumsMove(o, row, r, k, c, m)
      BY <2>1, <2>5, <2>6, ReservationSums
    <3> QED
      BY <2>2, <2>5, <3>1 DEF SumsMove
  <2>8. /\ anchor'[k].position = anchor[k].position
        /\ k \in {Global, row.account} => anchor'[k].remaining = anchor[k].remaining + amount
        /\ k \notin {Global, row.account} => anchor'[k].remaining = anchor[k].remaining
    BY <2>5, AnchoredValue
  <2>9. Covered(k)' => Covered(k)
    BY <2>1, <2>5, <2>6, WasCovered
  <2>10. /\ anchor[k].remaining = m /\ anchor[k].position >= c
         /\ Covered(k) => anchor[k].position = c
    BY <2>7 DEF AnchorAddsUp
  <2>11. Total(Consuming(k)') = c /\ anchor'[k].remaining = Total(Remaining(k)')
    BY <1>0, <2>3, <2>4, <2>5, <2>7, <2>8, <2>10
  <2> QED
    BY <1>0, <2>8, <2>9, <2>10, <2>11 DEF AnchorAddsUp
<1>5. ASSUME NEW o \in Orders, NEW e \in Executions, NEW quantity \in Quantities,
             NEW price \in Prices, NEW a \in Accounts, NEW side \in Sides, NEW risk \in Nat,
             FillEffect(o, e, quantity, price, a, side, risk)
      PROVE  AnchorAddsUp(k)'
  <2>1. PICK row \in OrderRows : row = Filled(order[o], quantity)
    BY <1>5, OrderRowType DEF FillEffect
  <2>2. /\ order' = [order EXCEPT ![o] = row] /\ o \in Placed
        /\ row.account = a /\ order[o].account = a
    BY <1>5, <2>1 DEF FillEffect, Filled, OrderRows
  <2>3. PICK q \in ReservationRows : q = reservation[o]
    BY <1>5 DEF FillEffect
  <2>4. PICK r \in ReservationRows : r = Consumed(q, risk)
    BY Spending
  <2>5. PICK reclaimed \in Nat, taken \in Nat :
           /\ reclaimed = Reclaimed(q, risk) /\ taken = FromRemaining(q, risk)
           /\ reclaimed + taken <= risk
           /\ r.consumed = q.consumed + reclaimed + taken
           /\ r.remaining = q.remaining - taken
    <3>1. /\ Reclaimed(q, risk) \in Nat /\ FromRemaining(q, risk) \in Nat
          /\ Reclaimed(q, risk) + FromRemaining(q, risk) <= risk
      BY Spending
    <3>2. /\ r.consumed = q.consumed + Reclaimed(q, risk) + FromRemaining(q, risk)
          /\ r.remaining = q.remaining - FromRemaining(q, risk)
      BY <2>4, Spending
    <3> QED
      BY <3>1, <3>2
  <2>6. q.consumed \in Nat /\ q.remaining \in Nat
    BY DEF ReservationRows
  <2>7. reservation' = [reservation EXCEPT ![o] = r]
    BY <1>5, <2>3, <2>4 DEF FillEffect
  <2>8. incidents \subseteq incidents'
        /\ (risk > reclaimed + taken =>
               <<"FILL_RISK_EXCEEDS_RESERVATION", o>> \in incidents')
    BY <1>5, <2>3, <2>5 DEF FillEffect, Raised, FillReasons
  <2>9. PICK c \in Int, m \in Int :
           /\ c = Total(Consuming(k)) /\ m = Total(Remaining(k))
           /\ k \notin {Global, a} =>
                 Total(Consuming(k)') = c /\ Total(Remaining(k)') = m
           /\ k \in {Global, a} =>
                 /\ Total(Consuming(k)') = c + r.consumed - q.consumed
                 /\ Total(Remaining(k)') = m + r.remaining - q.remaining
    <3>1. PICK c \in Int, m \in Int : SumsMove(o, row, r, k, c, m)
      BY <2>2, <2>7, ReservationSums
    <3> QED
      BY <2>2, <2>3, <3>1 DEF SumsMove
  <2>10. /\ Covered(k)' => Covered(k)
         /\ Covered(k)' /\ k \in {Global, a} =>
               <<"FILL_RISK_EXCEEDS_RESERVATION", o>> \notin incidents'
    BY <2>2, <2>8, WasCovered
  <2>11. /\ anchor[k].remaining = m /\ anchor[k].position >= c
         /\ Covered(k) => anchor[k].position = c
    BY <2>9 DEF AnchorAddsUp
  <2>12. anchor'[k] = IF k \in {Global, a}
                      THEN [position |-> anchor[k].position + risk,
                            remaining |-> anchor[k].remaining - taken]
                      ELSE anchor[k]
    BY <1>5, <2>3, <2>5 DEF FillEffect, Charged
  <2>13. CASE k \notin {Global, a}
    BY <2>9, <2>10, <2>11, <2>12, <2>13 DEF AnchorAddsUp
  <2>14. CASE k \in {Global, a}
    <3>1. Total(Consuming(k)') = c + reclaimed + taken
          /\ Total(Remaining(k)') = m - taken
      BY <2>5, <2>6, <2>9, <2>14
    <3>2. anchor'[k].position = anchor[k].position + risk
          /\ anchor'[k].remaining = anchor[k].remaining - taken
      BY <2>12, <2>14
    <3>3. Covered(k)' => risk = reclaimed + taken
      BY <2>5, <2>8, <2>10, <2>14
    <3>4. anchor'[k].remaining = Total(Remaining(k)')
      BY <2>11, <3>1, <3>2
    <3>5. anchor'[k].position >= Total(Consuming(k)')
      BY <1>0, <2>5, <2>11, <3>1, <3>2
    <3>6. Covered(k)' => anchor'[k].position = Total(Consuming(k)')
      <4> SUFFICES ASSUME Covered(k)' PROVE anchor'[k].position = Total(Consuming(k)')
        OBVIOUS
      <4>1. anchor[k].position = c /\ risk = reclaimed + taken
        BY <2>10, <2>11, <3>3
      <4> QED
        BY <3>1, <3>2, <4>1
    <3> QED
      BY <3>4, <3>5, <3>6 DEF AnchorAddsUp
  <2> QED
    BY <2>13, <2>14
<1> QED
  BY <1>1, <1>2, <1>3, <1>4, <1>5 DEF LedgerStep, Nothing

(* Both anchors hold what the reservations under them have left, and as much   *)
(* position risk as these consumed unless a fill was reported to exceed its    *)
(* own (service.py, fills.py, terminal_release_store.py).                      *)
THEOREM AnchorsAddUpAlways == Spec => []AnchorsAddUp
<1>0. AnchorsAddUp <=> \A k \in Keys : AnchorAddsUp(k)
  BY Zenon DEF AnchorsAddUp, AnchorAddsUp, Consuming, Remaining, Covered
<1>1. Init => AnchorsAddUp
  <2> SUFFICES ASSUME Init, NEW k \in Keys PROVE AnchorAddsUp(k)
    BY <1>0
  <2>1. anchor[k].remaining = 0 /\ anchor[k].position = 0 /\ Placed = {}
    BY DEF Init, Placed
  <2>2. DOMAIN Consuming(k) = {} /\ DOMAIN Remaining(k) = {}
    BY <2>1 DEF Consuming, Remaining, OrdersUnder
  <2>3. Total(Consuming(k)) = 0 /\ Total(Remaining(k)) = 0
    BY <2>2, TotalOfNothing
  <2> QED
    BY <2>1, <2>3 DEF AnchorAddsUp
<1>2. RowsTyped /\ RowsTyped' /\ Kept /\ AnchorsAddUp /\ [Next]_vars => AnchorsAddUp'
  <2> SUFFICES ASSUME RowsTyped, RowsTyped', Kept, AnchorsAddUp, [Next]_vars
               PROVE  AnchorsAddUp'
    OBVIOUS
  <2>1. LedgerStep
    BY EveryStep
  <2>2. ASSUME NEW k \in Keys PROVE AnchorAddsUp(k)'
    BY <1>0, <2>1, AnchorKeepsAddingUp
  <2> QED
    BY <2>2, Zenon DEF AnchorsAddUp, AnchorAddsUp, Consuming, Remaining, Covered
<1> QED
  BY <1>1, <1>2, RowsTypedAlways, KeptAlways, PTL DEF Spec

(* No risk is lost or counted twice, in a reservation or above it, through     *)
(* late fills and releases (service.py, fills.py, terminal_release_store.py).  *)
THEOREM RiskAddsUpAlways == Spec => []RiskAddsUp
<1>1. AnchorsAddUp /\ ReservationBalances => RiskAddsUp
  BY DEF RiskAddsUp
<1> QED
  BY <1>1, AnchorsAddUpAlways, ReservationBalancesAlways, PTL

-----------------------------------------------------------------------------
(* The paper trade.                                                          *)

(* Where a pass goes on once a command is dispatched. *)
Returns == {"idle", "reconcile", "halt", "fail", "mark"}

(* A row of the paper journal. *)
PaperRows ==
    [order : OrderNames, quantity : Int, limit : Int, trigger : Int, at : Nat,
     status : {"STAGED", "FILLED", "NO_FILL"}, price : Int]

(* What an order is placed with. *)
Terms == [quantity : Int, limit : Int, trigger : Int]

(* What a decision to enter records. *)
Trades ==
    [side : {"BUY", "SELL"}, entry : Nat \ {0}, stop : Nat \ {0}, quantity : Nat \ {0},
     base : Nat]

(* The types, and that no command is of a later moment than now. *)
PaperTypes ==
    /\ path \in Seq(MarketPrices) /\ Len(path) > Frame
    /\ trade \in {None} \cup Trades
    /\ orders \in [OrderNames -> Terms]
    /\ links \in [OrderNames -> SUBSET Nat]
    /\ journal \in Seq(PaperRows) /\ \A i \in DOMAIN journal : journal[i].at <= Now
    /\ command \in [order : OrderNames, target : Nat, at : Nat] /\ command.at <= Now
    /\ then \in Returns

(* The orders carry the quantity and the limit the decision recorded: the stop *)
(* the trade's quantity behind a trigger, an exit what is held at the market.  *)
OrdersOf(t) ==
    /\ orders[Entry] \in {NoTerms, EntryTerms(t.quantity, t.entry)}
    /\ orders[Stop] # NoTerms =>
          orders[Stop].quantity = t.quantity /\ orders[Stop].limit = 0 /\ orders[Stop].trigger > 0
    /\ \A o \in ExitKinds :
          orders[o] # NoTerms =>
              orders[o].quantity > 0 /\ orders[o].limit = 0 /\ orders[o].trigger = 0

(* Nothing is ordered or staged before a decision, and nothing but the entry *)
(* before the entry is filled.                                               *)
EntryComesFirst ==
    /\ trade = None => orders = [o \in OrderNames |-> NoTerms] /\ journal = <<>>
    /\ \A o \in OrderNames : orders[o] # NoTerms => o = Entry \/ FilledOf(Entry) # {}
    /\ pc = "protect" => FilledOf(Entry) # {}

(* A fill no worse than the planned entry, as a limit promises. *)
NoWorse(price) == IF trade.side = "BUY" THEN price <= trade.entry ELSE trade.entry <= price

(* A staged command says what its order said when it was staged, and a stop's *)
(* trigger was never beyond the one its order has now.                        *)
RowSays(k) ==
    /\ orders[k.order] # NoTerms
    /\ k.order = Entry =>
          /\ k.quantity = trade.quantity /\ k.limit = trade.entry /\ k.trigger = 0
          /\ k.status = "FILLED" => NoWorse(k.price)
    /\ k.order = Stop =>
          /\ k.quantity = trade.quantity /\ k.limit = 0
          /\ 0 < k.trigger /\ k.trigger <= orders[Stop].trigger
    /\ k.order \in ExitKinds => k.quantity > 0

(* Every row of the journal says so. *)
RowsSay == \A i \in DOMAIN journal : RowSays(journal[i])

(* The entry is staged at most once. *)
OneEntry ==
    \A i, j \in DOMAIN journal : journal[i].order = Entry /\ journal[j].order = Entry => i = j

(* The command being dispatched is of an order on record; one being linked is the *)
(* last row of the journal; and links name rows of their own order.               *)
Dispatching ==
    /\ pc = "dispatch" =>
          /\ orders[command.order] # NoTerms
          /\ command.order = Entry => \A i \in DOMAIN journal : journal[i].order # Entry
          /\ command.target # 0 => /\ command.order = Stop /\ command.target \in DOMAIN journal
                                   /\ journal[command.target].order = Stop
    /\ pc = "link" => Len(journal) \in DOMAIN journal /\ journal[Len(journal)].order = command.order
    /\ \A o \in OrderNames : \A i \in links[o] : i \in DOMAIN journal /\ journal[i].order = o

(* A stop that was ever staged left one that is not void. *)
StopStands ==
    (\E i \in DOMAIN journal : journal[i].order = Stop)
        => \E i \in DOMAIN journal : journal[i].order = Stop /\ journal[i].status # "NO_FILL"

(* The trade was sized within the budget at the distance to its stop. *)
WithinBudget ==
    trade # None =>
        /\ IF trade.side = "BUY" THEN trade.stop < trade.entry ELSE trade.entry < trade.stop
        /\ 100 * trade.quantity * (Distance(trade.entry, trade.stop) + Cost)
              <= trade.base * Fractions["NORMAL"]

(* What holds of the paper trade between any two commits. *)
PaperInv ==
    /\ PaperTypes /\ LedgerIsTheJournal /\ OrdersOf(trade) /\ EntryComesFirst /\ RowsSay
    /\ OneEntry /\ Dispatching /\ StopStands /\ WithinBudget
-----------------------------------------------------------------------------
(* Terms that are all of one sign have a total of that sign. *)
OnSide(n, up) == IF up THEN n >= 0 ELSE n <= 0

(* By induction on the number of terms. *)
LEMMA TotalKeepsSide ==
    ASSUME NEW up \in BOOLEAN, NEW S, IsFiniteSet(S), NEW g \in [S -> Int],
           \A x \in S : OnSide(g[x], up)
    PROVE  OnSide(Total(g), up)
<1> DEFINE On(W) == [x \in W |-> g[x]]
           Sided(n) == \A W \in SUBSET S : Cardinality(W) = n => OnSide(Total(On(W)), up)
           T == {n \in Nat : Sided(n)}
<1>0. ASSUME NEW W \in SUBSET S PROVE IsFiniteSet(W) /\ Cardinality(W) \in Nat
  BY FS_Subset, FS_CardinalityType
<1>1. 0 \in T
  <2> SUFFICES ASSUME NEW W \in SUBSET S, Cardinality(W) = 0
               PROVE  OnSide(Total(On(W)), up)
    OBVIOUS
  <2>1. W = {}
    BY <1>0, FS_EmptySet
  <2>2. Total(On(W)) = 0
    BY <2>1, TotalOfNothing
  <2> QED
    BY <2>2 DEF OnSide
<1>2. ASSUME NEW n \in Nat, n \in T PROVE n + 1 \in T
  <2> SUFFICES ASSUME NEW W \in SUBSET S, Cardinality(W) = n + 1
               PROVE  OnSide(Total(On(W)), up)
    OBVIOUS
  <2>1. IsFiniteSet(W) /\ W # {}
    <3>1. W = {} => Cardinality(W) = 0
      BY FS_EmptySet
    <3> QED
      BY <1>0, <3>1
  <2>2. PICK x \in W : TRUE
    BY <2>1
  <2>3. PICK h : h = On(W)
    OBVIOUS
  <2>4. DOMAIN h = W /\ \A y \in W : h[y] = g[y]
    BY <2>3
  <2>5. Total(h) = h[x] + Total(Without(h, x)) /\ Total(Without(h, x)) \in Int
    BY <2>1, <2>4, TotalOfOneMore
  <2>6. Without(h, x) = On(W \ {x})
    BY <2>4 DEF Without
  <2>7. Cardinality(W \ {x}) = n
    <3>1. Cardinality(W \ {x}) = Cardinality(W) - 1
      BY <2>1, FS_RemoveElement
    <3> QED
      BY <3>1
  <2>8. OnSide(Total(On(W \ {x})), up)
    BY <1>2, <2>7
  <2>9. OnSide(h[x], up) /\ h[x] \in Int
    BY <2>4
  <2> QED
    BY <2>3, <2>5, <2>6, <2>8, <2>9 DEF OnSide
<1>3. \A n \in Nat : n \in T
  <2> HIDE DEF T
  <2> QED
    BY <1>1, <1>2, NumbersReached
<1>4. On(S) = g
  OBVIOUS
<1>5. Cardinality(S) \in Nat
  BY FS_CardinalityType
<1> QED
  BY <1>3, <1>4, <1>5

(* The lesser and the greater of two. *)
LEMMA OfTwo ==
    ASSUME NEW a \in Int, NEW b \in Int
    PROVE  /\ Min({a, b}) \in Int /\ Max({a, b}) \in Int
           /\ Min({a, b}) \in {a, b} /\ Min({a, b}) <= a /\ Min({a, b}) <= b
           /\ Max({a, b}) \in {a, b} /\ a <= Max({a, b}) /\ b <= Max({a, b})
<1>1. \E x \in {a, b} : \A y \in {a, b} : x <= y
  BY a <= b \/ b <= a
<1>2. \E x \in {a, b} : \A y \in {a, b} : x >= y
  BY a <= b \/ b <= a
<1>3. Min({a, b}) \in {a, b} /\ \A y \in {a, b} : Min({a, b}) <= y
  BY <1>1 DEF Min
<1>4. Max({a, b}) \in {a, b} /\ \A y \in {a, b} : Max({a, b}) >= y
  BY <1>2 DEF Max
<1>5. Min({a, b}) \in Int /\ Max({a, b}) \in Int
  BY <1>3, <1>4
<1> QED
  BY <1>3, <1>4, <1>5

(* What is among bars that resolve a command is a bar. *)
LEMMA LeastOfSome ==
    ASSUME NEW S \in SUBSET Nat, S # {}
    PROVE  Min(S) \in S
<1> DEFINE R == OpToRel(<, Nat)
<1>1. IsWellFoundedOn(R, Nat)
  BY NatLessThanWellFounded
<1>2. \A x, y \in Nat : <<y, x>> \in R <=> y < x
  BY DEF OpToRel
<1> HIDE DEF R
<1>3. PICK b \in S : \A c \in S : ~ (<<c, b>> \in R)
  BY <1>1, WFMin
<1>4. \A y \in S : b <= y
  <2>1. \A y \in S : y \in Nat /\ b \in Nat /\ ~ (y < b)
    BY <1>2, <1>3
  <2> QED
    BY <2>1
<1> QED
  BY <1>4 DEF Min

(* The budget divided by the risk of one: so many of them cost no more than it. *)
LEMMA RoundedDown ==
    ASSUME NEW x \in Nat, NEW y \in Nat \ {0}, NEW q \in Nat, q <= x \div y
    PROVE  q * y <= x
<1>1. PICK d \in Nat, r \in 0 .. y - 1 : x \div y = d /\ x = d * y + r
  OBVIOUS
<1>2. q * y <= d * y
  BY <1>1
<1> QED
  BY <1>1, <1>2

-----------------------------------------------------------------------------
(* The prices of the moments so far. *)
LEMMA MomentsArePriced ==
    ASSUME PaperTypes
    PROVE  /\ Now \in Nat /\ Frame <= Now /\ Frame \in Nat \ {0}
           /\ \A t \in 0 .. Now : Price(t) \in Nat \ {0}
           /\ LastClose \in 0 .. Now
<1>1. Len(path) \in Nat /\ Len(path) > Frame /\ Frame \in Nat \ {0}
  BY PaperAssumption DEF PaperTypes, PaperAssumption
<1>2. Now \in Nat /\ Frame <= Now /\ Len(path) = Now + 1
  BY <1>1 DEF Now
<1>3. ASSUME NEW t \in 0 .. Now PROVE Price(t) \in Nat \ {0}
  <2>1. t + 1 \in 1 .. Len(path)
    BY <1>2
  <2>2. path[t + 1] \in MarketPrices
    BY <2>1, ElementOfSeq DEF PaperTypes
  <2> QED
    BY <2>2, PaperAssumption DEF Price, PaperAssumption
<1>4. LastClose \in 0 .. Now
  <2>1. Now % Frame \in 0 .. Frame - 1
    BY <1>1, <1>2
  <2>2. Now - (Now % Frame) \in 0 .. Now
    BY <1>1, <1>2, <2>1
  <2> QED
    BY <2>2 DEF LastClose
<1> QED
  BY <1>1, <1>2, <1>3, <1>4

(* The price a command is settled at, and that a limit is never passed         *)
(* (_eligible_price).                                                          *)
LEMMA SettledPrice ==
    ASSUME PaperTypes, NEW k \in PaperRows, k.at <= Now, ResolvingBars(k) # {}
    PROVE  /\ FillPrice(k, BarAt(k)) \in Int
           /\ k.trigger = 0 /\ k.limit > 0 /\ FillPrice(k, BarAt(k)) # 0 =>
                IF Buys(k.order) THEN FillPrice(k, BarAt(k)) <= k.limit
                                 ELSE k.limit <= FillPrice(k, BarAt(k))
<1>1. /\ Now \in Nat /\ Frame \in Nat \ {0}
      /\ \A t \in 0 .. Now : Price(t) \in Nat \ {0}
  BY MomentsArePriced
<1>2. Slippage \in Nat /\ MaxMoment \in Nat
  BY PaperAssumption DEF PaperAssumption
<1>3. k.at \in Nat /\ k.limit \in Int /\ k.trigger \in Int
  BY DEF PaperRows
<1>4. ResolvingBars(k) \in SUBSET Nat
  BY <1>1, <1>2 DEF ResolvingBars, Closes
<1>5. PICK c \in Nat : c = BarAt(k) /\ c \in ResolvingBars(k)
  BY <1>4, LeastOfSome DEF BarAt
<1>6. c - Frame \in 0 .. Now
  <2>1. c >= Frame
    BY <1>1, <1>2, <1>5 DEF ResolvingBars, Closes
  <2>2. c - Frame <= Now
    BY <1>1, <1>2, <1>5 DEF ResolvingBars, Closes
  <2> QED
    BY <1>1, <2>1, <2>2
<1>7. PICK p \in Int : p = OpenPrice(c)
  BY <1>1, <1>6 DEF OpenPrice
<1>12. \A m \in Int : /\ Min({p, m}) \in Int /\ Max({p, m}) \in Int
  BY OfTwo
<1>8. StopFill(k, c) \in Int
  <2>1. Max({p, k.trigger}) \in Int /\ Min({p, k.trigger}) \in Int
    BY <1>3, <1>12
  <2>2. Max({p, k.trigger}) + Slippage \in Int /\ Min({p, k.trigger}) - Slippage \in Int
    BY <1>2, <2>1
  <2> QED
    BY <1>7, <2>2 DEF StopFill
<1>9. MarketFill(k, c) \in Int
  BY <1>2, <1>7 DEF MarketFill
<1>10. /\ LimitFill(k, c) \in Int
       /\ LimitFill(k, c) # 0 => IF Buys(k.order) THEN LimitFill(k, c) <= k.limit
                                                  ELSE k.limit <= LimitFill(k, c)
  <2>1. CASE Buys(k.order)
    <3>1. PICK m \in Int : m = Min({p, k.limit}) + Slippage
      <4>1. Min({p, k.limit}) \in Int
        BY <1>3, <1>12
      <4> QED
        BY <1>2, <4>1
    <3>2. Min({m, k.limit}) \in Int /\ Min({m, k.limit}) <= k.limit
      BY <1>3, OfTwo
    <3> QED
      BY <1>7, <2>1, <3>1, <3>2 DEF LimitFill
  <2>2. CASE ~Buys(k.order)
    <3>1. PICK m \in Int : m = Max({p, k.limit}) - Slippage
      <4>1. Max({p, k.limit}) \in Int
        BY <1>3, <1>12
      <4> QED
        BY <1>2, <4>1
    <3>2. Max({m, k.limit}) \in Int /\ k.limit <= Max({m, k.limit})
      BY <1>3, OfTwo
    <3> QED
      BY <1>7, <2>2, <3>1, <3>2 DEF LimitFill
  <2> QED
    BY <2>1, <2>2
<1>11. k.trigger = 0 /\ k.limit > 0 => FillPrice(k, c) = LimitFill(k, c)
  BY DEF FillPrice
<1> QED
  BY <1>5, <1>8, <1>9, <1>10, <1>11 DEF FillPrice

(* The rows of a sequence that is written again in place. *)
LEMMA WrittenInPlace ==
    ASSUME NEW S, NEW s \in Seq(S), NEW f, f \in [DOMAIN s -> S]
    PROVE  f \in Seq(S) /\ Len(f) = Len(s) /\ DOMAIN f = DOMAIN s
<1>1. Len(s) \in Nat /\ DOMAIN s = 1 .. Len(s)
  BY LenProperties
<1>2. f \in [1 .. Len(s) -> S] /\ DOMAIN f = DOMAIN s
  BY <1>1
<1>3. f \in Seq(S)
  BY <1>1, <1>2, SeqDef
<1>4. Len(f) \in Nat /\ DOMAIN f = 1 .. Len(f)
  BY <1>3, LenProperties
<1>5. Len(f) = Len(s)
  <2>1. 1 .. Len(f) = 1 .. Len(s)
    BY <1>1, <1>2, <1>4
  <2> QED
    BY <1>1, <1>4, <2>1
<1> QED
  BY <1>2, <1>3, <1>5

(* Steps that leave the database and the market alone but for the switch. *)
LEMMA QuietKeeps ==
    ASSUME PaperInv, UNCHANGED <<path, trade, orders, links, journal, ledger>>,
           \/ pc' = pc /\ command' = command
           \/ pc' \notin {"dispatch", "link", "protect"},
           then' \in Returns, command' \in {command, NoCommand}
    PROVE  PaperInv'
<1>1. PaperTypes'
  <2>1. NoCommand \in [order : OrderNames, target : Nat, at : Nat] /\ NoCommand.at = 0
    BY DEF NoCommand, OrderNames
  <2>2. Now \in Nat
    BY MomentsArePriced DEF PaperInv
  <2> QED
    BY <2>1, <2>2 DEF PaperInv, PaperTypes, Now
<1>2. LedgerIsTheJournal' /\ OneEntry' /\ StopStands' /\ WithinBudget'
  BY DEF PaperInv, LedgerIsTheJournal, OneEntry, StopStands, WithinBudget
<1>3. OrdersOf(trade)' /\ RowsSay'
  BY DEF PaperInv, OrdersOf, RowsSay, RowSays, NoWorse
<1>4. EntryComesFirst'
  BY DEF PaperInv, EntryComesFirst, FilledOf
<1>5. Dispatching'
  BY DEF PaperInv, Dispatching
<1> QED
  BY <1>1, <1>2, <1>3, <1>4, <1>5 DEF PaperInv

-----------------------------------------------------------------------------
(* A receipt changes a command's status and price alone, and a stop that is    *)
(* settled is filled.                                                          *)
LEMMA Receipt ==
    ASSUME PaperInv, NEW i \in DOMAIN journal, journal[i].status = "STAGED",
           ResolvingBars(journal[i]) # {}, ~Unpayable(journal[i]),
           NEW k, k = Resolved(journal[i])
    PROVE  /\ k \in PaperRows
           /\ k.order = journal[i].order /\ k.quantity = journal[i].quantity
           /\ k.limit = journal[i].limit /\ k.trigger = journal[i].trigger
           /\ k.at = journal[i].at /\ k.status \in {"FILLED", "NO_FILL"}
           /\ k.order = Stop => k.status = "FILLED"
           /\ k.order = Entry /\ k.status = "FILLED" => NoWorse(k.price)
<1>1. PaperTypes /\ RowSays(journal[i])
  BY DEF PaperInv, RowsSay
<1>2. journal[i] \in PaperRows /\ journal[i].at <= Now
  BY <1>1, ElementOfSeq, LenProperties DEF PaperTypes
<1>3. PICK price \in Int : price = FillPrice(journal[i], BarAt(journal[i]))
  BY <1>1, <1>2, SettledPrice
<1>4. k = [journal[i] EXCEPT !.status = IF price = 0 THEN "NO_FILL" ELSE "FILLED",
                             !.price = price]
  BY <1>3 DEF Resolved
<1>5. /\ k \in PaperRows
      /\ k.order = journal[i].order /\ k.quantity = journal[i].quantity
      /\ k.limit = journal[i].limit /\ k.trigger = journal[i].trigger
      /\ k.at = journal[i].at /\ k.price = price
      /\ k.status = IF price = 0 THEN "NO_FILL" ELSE "FILLED"
  BY <1>2, <1>4 DEF PaperRows
<1>6. k.order = Stop => k.status = "FILLED"
  BY <1>1, <1>3, <1>5 DEF RowSays, Unpayable
<1>7. ASSUME k.order = Entry, k.status = "FILLED" PROVE NoWorse(k.price)
  <2>1. journal[i].limit = trade.entry /\ journal[i].trigger = 0 /\ price # 0
    BY <1>1, <1>5, <1>7 DEF RowSays
  <2>2. trade \in Trades
    <3>1. journal # <<>>
      OBVIOUS
    <3> QED
      BY <3>1 DEF PaperInv, EntryComesFirst, PaperTypes
  <2>3. trade.entry > 0
    BY <2>2 DEF Trades
  <2>4. IF Buys(journal[i].order) THEN price <= trade.entry ELSE trade.entry <= price
    BY <1>1, <1>2, <1>3, <2>1, <2>3, SettledPrice
  <2>5. Buys(journal[i].order) <=> trade.side = "BUY"
    BY <1>5, <1>7 DEF Buys
  <2> QED
    BY <1>5, <2>4, <2>5 DEF NoWorse
<1> QED
  BY <1>5, <1>6, <1>7

(* What a settlement writes: receipts and executions of the same commands.     *)
Settled(R) ==
    /\ \A i \in R : /\ i \in DOMAIN journal /\ journal[i].status = "STAGED"
                    /\ ResolvingBars(journal[i]) # {} /\ ~Unpayable(journal[i])
    /\ journal' = Receipts(R)
    /\ ledger' = ledger \cup {i \in R : Resolved(journal[i]).status = "FILLED"}
    /\ pc' = IF \E i \in {i \in R : Resolved(journal[i]).status = "FILLED"} :
                   journal[i].order = Entry
             THEN "protect" ELSE "reconcile"
    /\ UNCHANGED <<path, trade, orders, links, then, command>>

(* Receipts and executions written together keep what the journal says. *)
LEMMA SettledKeeps ==
    ASSUME PaperInv, NEW R, Settled(R)
    PROVE  PaperInv'
<1>1. /\ PaperTypes /\ LedgerIsTheJournal /\ OrdersOf(trade) /\ EntryComesFirst /\ RowsSay
      /\ OneEntry /\ Dispatching /\ StopStands /\ WithinBudget
  BY DEF PaperInv
<1>2. journal' = [i \in DOMAIN journal |-> IF i \in R THEN Resolved(journal[i]) ELSE journal[i]]
  BY DEF Settled, Receipts
<1>3. \A i \in DOMAIN journal : journal[i] \in PaperRows
  BY <1>1, ElementOfSeq, LenProperties DEF PaperTypes
<1>4. ASSUME NEW i \in DOMAIN journal
      PROVE  /\ journal'[i] \in PaperRows
             /\ journal'[i].order = journal[i].order
             /\ journal'[i].quantity = journal[i].quantity
             /\ journal'[i].limit = journal[i].limit /\ journal'[i].trigger = journal[i].trigger
             /\ journal'[i].at = journal[i].at
             /\ journal[i].status # "STAGED" => journal'[i] = journal[i]
             /\ journal[i].order = Stop /\ journal[i].status # "NO_FILL"
                   => journal'[i].status # "NO_FILL"
             /\ journal'[i].order = Entry /\ journal'[i].status = "FILLED"
                   => NoWorse(journal'[i].price)
             /\ i \in ledger' <=> journal'[i].status = "FILLED"
  <2>1. i \in ledger <=> journal[i].status = "FILLED"
    BY <1>1 DEF LedgerIsTheJournal
  <2>2. CASE i \in R
    <3>1. journal'[i] = Resolved(journal[i])
      BY <1>2, <2>2
    <3>2. /\ journal[i].status = "STAGED" /\ ResolvingBars(journal[i]) # {}
          /\ ~Unpayable(journal[i])
      BY <2>2 DEF Settled
    <3>3. i \in ledger' <=> journal'[i].status = "FILLED"
      BY <2>1, <2>2, <3>1, <3>2 DEF Settled
    <3>4. PICK k : k = journal'[i]
      OBVIOUS
    <3>5. /\ k \in PaperRows
          /\ k.order = journal[i].order /\ k.quantity = journal[i].quantity
          /\ k.limit = journal[i].limit /\ k.trigger = journal[i].trigger
          /\ k.at = journal[i].at /\ k.status \in {"FILLED", "NO_FILL"}
          /\ k.order = Stop => k.status = "FILLED"
          /\ k.order = Entry /\ k.status = "FILLED" => NoWorse(k.price)
      BY <3>1, <3>2, <3>4, Receipt
    <3> QED
      BY <3>2, <3>3, <3>4, <3>5
  <2>3. CASE i \notin R
    <3>1. journal'[i] = journal[i]
      BY <1>2, <2>3
    <3>2. i \in ledger' <=> i \in ledger
      BY <2>3 DEF Settled
    <3>3. journal[i].order = Entry /\ journal[i].status = "FILLED" => NoWorse(journal[i].price)
      BY <1>1 DEF RowsSay, RowSays
    <3> QED
      BY <1>3, <2>1, <3>1, <3>2, <3>3
  <2> QED
    BY <2>2, <2>3
<1>5. /\ journal' \in Seq(PaperRows) /\ Len(journal') = Len(journal)
      /\ DOMAIN journal' = DOMAIN journal
  <2>1. DOMAIN journal' = DOMAIN journal
    BY <1>2
  <2>2. journal' \in [DOMAIN journal -> PaperRows]
    <3>1. journal' = [i \in DOMAIN journal |-> journal'[i]]
      BY <1>2
    <3> QED
      BY <1>4, <3>1
  <2> QED
    BY <1>1, <2>2, WrittenInPlace DEF PaperTypes
<1>6. UNCHANGED <<path, trade, orders, links, then, command>> /\ pc' \in {"protect", "reconcile"}
  BY DEF Settled
<1>7. PaperTypes'
  BY <1>1, <1>4, <1>5, <1>6 DEF PaperTypes, Now
<1>8. LedgerIsTheJournal'
  <2>1. ledger' \subseteq DOMAIN journal
    BY <1>1 DEF Settled, LedgerIsTheJournal
  <2> QED
    BY <1>4, <1>5, <2>1 DEF LedgerIsTheJournal
<1>9. OrdersOf(trade)' /\ WithinBudget'
  BY <1>1, <1>6 DEF OrdersOf, WithinBudget
<1>10. EntryComesFirst'
  <2>1. ASSUME NEW i \in FilledOf(Entry) PROVE i \in FilledOf(Entry)'
    <3>1. i \in ledger /\ journal[i].order = Entry /\ i \in DOMAIN journal
      BY <1>1 DEF FilledOf, LedgerIsTheJournal
    <3>2. i \in ledger'
      BY <3>1 DEF Settled
    <3> QED
      BY <1>4, <3>1, <3>2 DEF FilledOf
  <2>2. ASSUME pc' = "protect" PROVE FilledOf(Entry)' # {}
    <3>1. PICK i \in R : Resolved(journal[i]).status = "FILLED" /\ journal[i].order = Entry
      BY <2>2 DEF Settled
    <3>2. i \in ledger' /\ i \in DOMAIN journal
      BY <3>1 DEF Settled
    <3> QED
      BY <1>4, <3>1, <3>2 DEF FilledOf
  <2>3. trade' = None => journal' = <<>>
    <3>1. journal = <<>> => journal' = <<>>
      BY <1>2
    <3> QED
      BY <1>1, <1>6, <3>1 DEF EntryComesFirst
  <2> QED
    BY <1>1, <1>6, <2>1, <2>2, <2>3 DEF EntryComesFirst
<1>11. RowsSay'
  <2> SUFFICES ASSUME NEW i \in DOMAIN journal PROVE RowSays(journal[i])'
    BY <1>5 DEF RowsSay
  <2>1. RowSays(journal[i])
    BY <1>1 DEF RowsSay
  <2>2. NoWorse(journal[i].price)' <=> NoWorse(journal'[i].price)
    BY <1>6 DEF NoWorse
  <2> QED
    BY <1>4, <1>6, <2>1, <2>2 DEF RowSays
<1>12. OneEntry'
  BY <1>1, <1>4, <1>5 DEF OneEntry
<1>13. Dispatching'
  BY <1>1, <1>4, <1>5, <1>6 DEF Dispatching
<1>14. StopStands'
  BY <1>1, <1>4, <1>5 DEF StopStands
<1> QED
  BY <1>7, <1>8, <1>9, <1>10, <1>11, <1>12, <1>13, <1>14 DEF PaperInv

(* settle: receipts and executions, or nothing when it raises. *)
LEMMA SettleKeeps ==
    ASSUME PaperInv, Settle
    PROVE  PaperInv'
<1> DEFINE R == {i \in Unresolved : ResolvingBars(journal[i]) # {}}
<1>1. CASE \E i \in R : ~Linked(i) \/ Unpayable(journal[i])
  <2>1. /\ UNCHANGED <<path, trade, orders, links, journal, ledger>>
        /\ pc' = "idle" /\ then' = "idle" /\ command' = NoCommand
    BY <1>1 DEF Settle, Raise, RolledBack
  <2> QED
    BY <2>1, QuietKeeps DEF Returns
<1>2. CASE ~ \E i \in R : ~Linked(i) \/ Unpayable(journal[i])
  <2>1. Settled(R)
    <3>1. \A i \in R : /\ i \in DOMAIN journal /\ journal[i].status = "STAGED"
                       /\ ResolvingBars(journal[i]) # {} /\ ~Unpayable(journal[i])
      BY <1>2 DEF Unresolved
    <3>2. /\ journal' = Receipts(R)
          /\ ledger' = ledger \cup {i \in R : Resolved(journal[i]).status = "FILLED"}
          /\ Goto(IF \E i \in {i \in R : Resolved(journal[i]).status = "FILLED"} :
                        journal[i].order = Entry
                  THEN "protect" ELSE "reconcile")
          /\ UNCHANGED <<path, trade, orders, links>>
      BY <1>2 DEF Settle
    <3> QED
      BY <3>1, <3>2 DEF Settled, Goto
  <2> QED
    BY <2>1, SettledKeeps
<1> QED
  BY <1>1, <1>2

-----------------------------------------------------------------------------
(* An order is committed and its command is the next to be dispatched. *)
Ordered(o, terms) ==
    /\ o \in OrderNames /\ terms \in Terms /\ terms # NoTerms /\ orders[o] = NoTerms
    /\ orders' = [orders EXCEPT ![o] = terms] /\ command' = SubmitCommand(o)
    /\ pc' = "dispatch" /\ then' \in Returns
    /\ UNCHANGED <<path, links, journal, ledger>>

(* It is the entry of a new trade, or an order of a trade whose entry is filled. *)
LEMMA OrderedKeeps ==
    ASSUME PaperInv, NEW o, NEW terms, Ordered(o, terms),
           \/ trade' = trade /\ FilledOf(Entry) # {}
           \/ o = Entry /\ trade = None /\ trade' \in Trades,
           OrdersOf(trade)', WithinBudget'
    PROVE  PaperInv'
<1>1. /\ PaperTypes /\ LedgerIsTheJournal /\ OrdersOf(trade) /\ EntryComesFirst /\ RowsSay
      /\ OneEntry /\ Dispatching /\ StopStands /\ WithinBudget
  BY DEF PaperInv
<1>2. /\ o \in OrderNames /\ terms \in Terms /\ terms # NoTerms /\ orders[o] = NoTerms
      /\ orders' = [orders EXCEPT ![o] = terms] /\ command' = SubmitCommand(o)
      /\ pc' = "dispatch" /\ then' \in Returns
      /\ UNCHANGED <<path, links, journal, ledger>>
  BY DEF Ordered
<1>3. \A p \in OrderNames : orders'[p] = IF p = o THEN terms ELSE orders[p]
  BY <1>1, <1>2 DEF PaperTypes
<1>4. trade # None \/ journal = <<>>
  BY <1>1 DEF EntryComesFirst
<1>5. FilledOf(Entry) # {} => trade # None
  <2>1. FilledOf(Entry) # {} => journal # <<>>
    BY <1>1 DEF FilledOf, LedgerIsTheJournal
  <2> QED
    BY <1>1, <2>1 DEF EntryComesFirst
<1>6. trade' # None /\ trade' \in {None} \cup Trades /\ (trade' = trade \/ journal = <<>>)
  <2>1. \A t \in Trades : t # None
    BY DEF Trades, None
  <2> QED
    BY <1>1, <1>4, <1>5, <2>1 DEF PaperTypes
<1>7. PaperTypes'
  <2>1. Now \in Nat
    BY <1>1, MomentsArePriced
  <2>2. command' \in [order : OrderNames, target : Nat, at : Nat] /\ command'.at = Now
    BY <1>2, <2>1 DEF SubmitCommand
  <2>3. orders' \in [OrderNames -> Terms]
    BY <1>1, <1>2 DEF PaperTypes
  <2> QED
    BY <1>1, <1>2, <1>6, <2>1, <2>2, <2>3 DEF PaperTypes, Now
<1>8. LedgerIsTheJournal' /\ OneEntry' /\ StopStands'
  BY <1>1, <1>2 DEF LedgerIsTheJournal, OneEntry, StopStands
<1>9. EntryComesFirst'
  <2>1. FilledOf(Entry)' = FilledOf(Entry)
    BY <1>2 DEF FilledOf
  <2> QED
    BY <1>1, <1>2, <1>3, <1>6, <2>1 DEF EntryComesFirst
<1>10. RowsSay'
  <2> SUFFICES ASSUME NEW i \in DOMAIN journal PROVE RowSays(journal[i])'
    BY <1>2 DEF RowsSay
  <2>1. RowSays(journal[i]) /\ journal[i] \in PaperRows
    BY <1>1, ElementOfSeq, LenProperties DEF RowsSay, PaperTypes
  <2>2. journal[i].order # o /\ journal[i].order \in OrderNames /\ trade' = trade
    BY <1>2, <1>6, <2>1 DEF RowSays, PaperRows
  <2>3. /\ orders'[journal[i].order] = orders[journal[i].order]
        /\ journal[i].order = Stop => orders'[Stop] = orders[Stop]
    BY <1>3, <2>2
  <2> QED
    BY <1>2, <2>1, <2>2, <2>3 DEF RowSays, NoWorse
<1>11. Dispatching'
  <2>1. ASSUME o = Entry, NEW i \in DOMAIN journal PROVE journal[i].order # Entry
    BY <1>1, <1>2, <2>1 DEF RowsSay, RowSays
  <2>2. command'.order = o /\ command'.target = 0
    BY <1>2 DEF SubmitCommand
  <2>3. orders'[o] # NoTerms
    BY <1>2, <1>3
  <2> QED
    BY <1>1, <1>2, <2>1, <2>2, <2>3 DEF Dispatching
<1> QED
  BY <1>7, <1>8, <1>9, <1>10, <1>11 DEF PaperInv

(* The stop is put behind a filled entry, once. *)
LEMMA ProtectKeeps ==
    ASSUME PaperInv, Protect
    PROVE  PaperInv'
<1>1. /\ PaperTypes /\ OrdersOf(trade) /\ EntryComesFirst /\ WithinBudget
      /\ UNCHANGED <<path, trade, links, journal, ledger>>
  BY DEF PaperInv, Protect
<1>2. CASE ~IntentIsNew(Stop)
  <2>1. pc' = "idle" /\ then' = "idle" /\ command' = NoCommand /\ UNCHANGED orders
    BY <1>2 DEF Protect, Create, Raise
  <2> QED
    BY <1>1, <2>1, QuietKeeps DEF Returns
<1>3. CASE IntentIsNew(Stop)
  <2>1. FilledOf(Entry) # {} /\ journal # <<>>
    BY <1>1 DEF Protect, EntryComesFirst, FilledOf, PaperInv, LedgerIsTheJournal
  <2>2. trade \in Trades
    BY <1>1, <2>1 DEF EntryComesFirst, PaperTypes
  <2>3. /\ StopTerms \in Terms /\ StopTerms # NoTerms /\ StopTerms.quantity = trade.quantity
        /\ StopTerms.limit = 0 /\ StopTerms.trigger > 0
    BY <2>2 DEF StopTerms, Terms, Trades, NoTerms
  <2>4. Ordered(Stop, StopTerms)
    <3>1. Stop \in OrderNames
      BY DEF OrderNames
    <3> QED
      BY <1>1, <1>3, <2>3, <3>1 DEF Protect, Create, Ordered, IntentIsNew, Returns
  <2>5. OrdersOf(trade)'
    <3>1. Stop # Entry /\ Stop \notin ExitKinds /\ Stop \in OrderNames
      BY PaperAssumption DEF Stop, Entry, PaperAssumption, OrderNames
    <3>2. \A o \in OrderNames : orders'[o] = IF o = Stop THEN StopTerms ELSE orders[o]
      BY <1>1, <2>4 DEF Ordered, PaperTypes
    <3>3. orders'[Stop] = StopTerms /\ orders'[Entry] = orders[Entry]
          /\ \A o \in ExitKinds : orders'[o] = orders[o]
      BY <3>1, <3>2 DEF OrderNames
    <3> QED
      BY <1>1, <2>3, <3>3 DEF OrdersOf, EntryTerms
  <2>6. WithinBudget'
    BY <1>1 DEF WithinBudget
  <2> QED
    BY <1>1, <2>1, <2>4, <2>5, <2>6, OrderedKeeps
<1> QED
  BY <1>2, <1>3

(* The position is a number, and there is none before the entry is filled. *)
LEMMA PositionIsAnInteger ==
    ASSUME PaperInv
    PROVE  /\ Position \in Int /\ IsFiniteSet(ledger) /\ ledger \subseteq DOMAIN journal
           /\ [i \in ledger |-> SignedQuantity(i)] \in [ledger -> Int]
           /\ Position # 0 => FilledOf(Entry) # {}
<1>1. /\ PaperTypes /\ ledger = {i \in DOMAIN journal : journal[i].status = "FILLED"} /\ RowsSay
      /\ EntryComesFirst
  BY DEF PaperInv, LedgerIsTheJournal
<1>2. Len(journal) \in Nat /\ DOMAIN journal = 1 .. Len(journal)
  BY <1>1, LenProperties DEF PaperTypes
<1>3. IsFiniteSet(ledger)
  <2>1. IsFiniteSet(1 .. Len(journal)) /\ ledger \subseteq 1 .. Len(journal)
    BY <1>1, <1>2, FS_Interval
  <2> QED
    BY <2>1, FS_Subset
<1>4. ASSUME NEW i \in ledger
      PROVE  journal[i].quantity \in Int /\ journal[i].order \in OrderNames
  <2>1. journal[i] \in PaperRows
    BY <1>1, <1>2, ElementOfSeq DEF PaperTypes
  <2> QED
    BY <2>1 DEF PaperRows
<1>5. [i \in ledger |-> SignedQuantity(i)] \in [ledger -> Int]
  BY <1>4 DEF SignedQuantity
<1>6. Position \in Int
  BY <1>3, <1>5, TotalIsInteger DEF Position
<1>7. ASSUME FilledOf(Entry) = {} PROVE Position = 0
  <2>1. ledger = {}
    <3> SUFFICES ASSUME NEW i \in ledger PROVE FALSE
      OBVIOUS
    <3>1. orders[journal[i].order] # NoTerms
      BY <1>1 DEF RowsSay, RowSays
    <3>2. journal[i].order = Entry
      BY <1>1, <1>4, <1>7, <3>1 DEF EntryComesFirst
    <3> QED
      BY <1>7, <3>2 DEF FilledOf
  <2> QED
    BY <2>1, TotalOfNothing DEF Position
<1> QED
  BY <1>1, <1>3, <1>5, <1>6, <1>7

(* What is held is closed at the market, once for each reason. *)
LEMMA CloseKeeps ==
    ASSUME PaperInv, NEW kind \in ExitKinds, Close(kind)
    PROVE  PaperInv'
<1>1. /\ PaperTypes /\ OrdersOf(trade) /\ EntryComesFirst /\ WithinBudget
      /\ UNCHANGED <<path, trade, links, journal, ledger>> /\ HeldLong
      /\ Create(kind, ExitTerms, IF kind = "EMERGENCY" THEN "halt" ELSE "idle")
  BY DEF PaperInv, Close
<1>2. CASE ~IntentIsNew(kind)
  <2>1. pc' = "idle" /\ then' = "idle" /\ command' = NoCommand /\ UNCHANGED orders
    BY <1>1, <1>2 DEF Create, Raise
  <2> QED
    BY <1>1, <2>1, QuietKeeps DEF Returns
<1>3. CASE IntentIsNew(kind)
  <2>1. Position \in Int /\ Position > 0 /\ FilledOf(Entry) # {}
    <3>1. Position \in Int /\ Position > 0
      BY <1>1, PositionIsAnInteger DEF HeldLong
    <3> QED
      BY <3>1, PositionIsAnInteger
  <2>2. /\ ExitTerms \in Terms /\ ExitTerms # NoTerms /\ ExitTerms.quantity > 0
        /\ ExitTerms.limit = 0 /\ ExitTerms.trigger = 0
    BY <2>1 DEF ExitTerms, Terms, NoTerms
  <2>3. Ordered(kind, ExitTerms)
    <3>1. kind \in OrderNames /\ (IF kind = "EMERGENCY" THEN "halt" ELSE "idle") \in Returns
      BY DEF OrderNames, Returns
    <3> QED
      BY <1>1, <1>3, <2>2, <3>1 DEF Create, Ordered, IntentIsNew
  <2>4. OrdersOf(trade)'
    <3>1. kind # Entry /\ kind # Stop
      BY PaperAssumption DEF Stop, Entry, PaperAssumption
    <3>2. \A o \in OrderNames : orders'[o] = IF o = kind THEN ExitTerms ELSE orders[o]
      BY <1>1, <2>3 DEF Ordered, PaperTypes
    <3>3. orders'[Stop] = orders[Stop] /\ orders'[Entry] = orders[Entry]
          /\ \A o \in ExitKinds : orders'[o] = IF o = kind THEN ExitTerms ELSE orders[o]
      BY <3>1, <3>2 DEF OrderNames
    <3> QED
      BY <1>1, <2>2, <3>3 DEF OrdersOf, EntryTerms
  <2>5. WithinBudget'
    BY <1>1 DEF WithinBudget
  <2> QED
    BY <1>1, <2>1, <2>3, <2>4, <2>5, OrderedKeeps
<1> QED
  BY <1>2, <1>3

-----------------------------------------------------------------------------
(* Products of what is not negative grow with their factors. *)
LEMMA ProductsGrow ==
    ASSUME NEW x \in Nat, NEW y \in Nat, NEW z \in Nat, y <= z
    PROVE  x * y \in Nat /\ x * z \in Nat /\ x * y <= x * z
OBVIOUS

(* So many that the budget pays for them, at the distance to their stop:       *)
(* evaluate_v6_risk rounds the quotient down.                                  *)
LEMMA QuantityIsPaidFor ==
    ASSUME NEW base \in Nat, NEW grade \in DOMAIN Fractions, NEW halved \in BOOLEAN,
           NEW d \in Nat \ {0}, NEW quantity, quantity = Quantity(base, grade, halved, d),
           quantity > 0
    PROVE  /\ quantity \in Nat \ {0}
           /\ 100 * quantity * (d + Cost) <= base * Fractions["NORMAL"]
<1>1. /\ Cost \in Nat /\ Cap \in Nat /\ Fractions[grade] \in Nat /\ Fractions["NORMAL"] \in Nat
  BY PaperAssumption DEF PaperAssumption
<1>2. PICK f \in Nat : f = RiskFraction(grade) /\ f <= Fractions["NORMAL"]
  <2>1. PICK a \in Int, b \in Int :
           a \in Nat /\ b \in Nat /\ a = Fractions[grade] /\ b = Fractions["NORMAL"]
    BY <1>1
  <2>2. Min({a, b}) \in {a, b} /\ Min({a, b}) <= b
    BY OfTwo
  <2>3. Min({a, b}) \in Nat
    BY <2>1, <2>2
  <2> QED
    BY <2>1, <2>2, <2>3 DEF RiskFraction
<1>3. PICK h \in {1, 2} : h = IF halved THEN 2 ELSE 1
  OBVIOUS
<1>4. PICK u \in Nat \ {0} : u = d + Cost
  BY <1>1
<1>5. PICK y \in Nat \ {0} : y = 100 * h * u
  BY <1>3, <1>4
<1>6. PICK x \in Nat : x = base * f /\ x <= base * Fractions["NORMAL"]
  BY <1>1, <1>2, ProductsGrow
<1>7. quantity = Min({Cap, x \div y})
  BY <1>2, <1>3, <1>4, <1>5, <1>6 DEF Quantity
<1>8. PICK n \in Int : n = x \div y
  OBVIOUS
<1>9. quantity \in Int /\ quantity <= n
  <2>1. PICK a \in Int : a = Cap
    BY <1>1
  <2>2. Min({a, n}) \in Int /\ Min({a, n}) <= n
    BY OfTwo
  <2> QED
    BY <1>7, <1>8, <2>1, <2>2
<1>10. quantity \in Nat /\ quantity * y <= x
  <2>1. quantity \in Nat
    BY <1>9
  <2> QED
    BY <1>8, <1>9, <2>1, RoundedDown
<1>11. 100 * quantity * u <= quantity * y
  <2>1. PICK w \in Nat : w = quantity * u
    BY <1>4, <1>10, ProductsGrow
  <2>2. 100 * quantity * u = 100 * w /\ quantity * y = 100 * h * w
    BY <1>4, <1>5, <1>10, <2>1
  <2> QED
    BY <1>3, <2>2
<1>12. 100 * quantity * u \in Int /\ quantity * y \in Int /\ base * Fractions["NORMAL"] \in Int
  BY <1>1, <1>4, <1>5, <1>10
<1> QED
  BY <1>4, <1>6, <1>10, <1>11, <1>12

(* A trade is entered with a quantity its budget pays for. *)
LEMMA EnterKeeps ==
    ASSUME PaperInv, NEW r \in Requests, Enter(r)
    PROVE  PaperInv'
<1>1. /\ PaperTypes /\ OrdersOf(trade) /\ EntryComesFirst
      /\ UNCHANGED <<path, links, journal, ledger>> /\ trade = None
  BY DEF PaperInv, Enter
<1>2. PICK entry \in Nat \ {0} : entry = PlannedEntry
  BY <1>1, MomentsArePriced DEF PlannedEntry
<1>3. PICK side \in {"BUY", "SELL"}, ref \in Nat, base \in Nat :
         /\ side = r.side /\ ref = r.ref /\ base = RiskBase(r.session, r.current)
         /\ base = Min({r.session, r.current})
  <2>1. r.side \in {"BUY", "SELL"} /\ r.ref \in Nat /\ r.session \in Nat /\ r.current \in Nat
    BY PaperAssumption DEF Requests, PaperAssumption
  <2>2. PICK a \in Int, b \in Int :
           a \in Nat /\ b \in Nat /\ a = r.session /\ b = r.current
    BY <2>1
  <2>3. Min({a, b}) \in {a, b}
    BY OfTwo
  <2>4. Min({r.session, r.current}) \in Nat
    BY <2>2, <2>3
  <2> QED
    BY <2>1, <2>4 DEF RiskBase
<1>4. Buffer \in Nat
  BY PaperAssumption DEF PaperAssumption
<1>5. PICK stop \in Int : stop = StopPrice(side, ref)
  BY <1>3, <1>4 DEF StopPrice
<1>6. PICK quantity : quantity = Quantity(base, r.grade, r.halved, Distance(entry, stop))
  OBVIOUS
<1>7. /\ Behind(side, ref, entry) /\ stop > 0 /\ quantity > 0
      /\ trade' = [side |-> side, entry |-> entry, stop |-> stop, quantity |-> quantity,
                   base |-> base]
      /\ Create(Entry, EntryTerms(quantity, entry), "idle")
  BY <1>2, <1>3, <1>5, <1>6 DEF Enter
<1>8. /\ IF side = "BUY" THEN stop < entry ELSE entry < stop
      /\ Distance(entry, stop) \in Nat \ {0}
  <2>1. IF side = "BUY" THEN stop < entry ELSE entry < stop
    BY <1>2, <1>3, <1>4, <1>5, <1>7 DEF Behind, StopPrice
  <2> QED
    BY <1>2, <1>5, <2>1 DEF Distance
<1>9. /\ quantity \in Nat \ {0}
      /\ 100 * quantity * (Distance(entry, stop) + Cost) <= base * Fractions["NORMAL"]
  <2>1. r.grade \in DOMAIN Fractions /\ r.halved \in BOOLEAN
    BY DEF Requests
  <2> QED
    BY <1>6, <1>7, <1>8, <2>1, QuantityIsPaidFor
<1>10. /\ trade' \in Trades /\ trade'.quantity = quantity /\ trade'.entry = entry
       /\ trade'.side = side /\ trade'.stop = stop /\ trade'.base = base
  <2>1. stop \in Nat \ {0}
    BY <1>5, <1>7
  <2> QED
    BY <1>7, <1>9, <2>1 DEF Trades
<1>11. Entry \in OrderNames /\ IntentIsNew(Entry)
  BY <1>1 DEF OrderNames, IntentIsNew, EntryComesFirst
<1>12. PICK terms \in Terms :
          terms = EntryTerms(quantity, entry) /\ terms # NoTerms
  <2>1. EntryTerms(quantity, entry) \in Terms
    BY <1>9 DEF EntryTerms, Terms
  <2>2. EntryTerms(quantity, entry).quantity = quantity /\ NoTerms.quantity = 0
    BY DEF EntryTerms, NoTerms
  <2>3. quantity # 0
    BY <1>9
  <2> QED
    BY <2>1, <2>2, <2>3
<1>13. Ordered(Entry, terms)
  BY <1>1, <1>7, <1>11, <1>12 DEF Create, Ordered, IntentIsNew, Returns
<1>14. OrdersOf(trade)'
  <2>1. Stop # Entry /\ Entry \notin ExitKinds
    BY PaperAssumption DEF Stop, Entry, PaperAssumption
  <2>2. \A o \in OrderNames : orders'[o] = IF o = Entry THEN terms ELSE NoTerms
    BY <1>1, <1>13 DEF Ordered, EntryComesFirst
  <2>3. orders'[Entry] = terms /\ orders'[Stop] = NoTerms
        /\ \A o \in ExitKinds : orders'[o] = NoTerms
    BY <2>1, <2>2 DEF OrderNames
  <2> QED
    BY <1>10, <1>12, <2>3 DEF OrdersOf, EntryTerms
<1>15. WithinBudget'
  BY <1>8, <1>9, <1>10 DEF WithinBudget
<1> QED
  BY <1>1, <1>10, <1>13, <1>14, <1>15, OrderedKeeps

-----------------------------------------------------------------------------
(* A stop that is moved is moved towards the market (_non_widening_stop), and   *)
(* only a stop that was ordered is moved.                                       *)
LEMMA StopMoves ==
    ASSUME PaperInv, HeldLong, Describable, NEW proposed \in Int
    PROVE  /\ orders[Stop] # NoTerms /\ ActiveStop \in Int /\ 0 < ActiveStop
           /\ NonWidening(proposed) \in Int /\ ActiveStop <= NonWidening(proposed)
           /\ EntryPrice \in Int
<1>1. /\ PaperTypes /\ OrdersOf(trade) /\ EntryComesFirst /\ LedgerIsTheJournal
  BY DEF PaperInv
<1>2. FilledOf(Entry) # {}
  <2>1. Position \in Int /\ Position > 0
    BY PositionIsAnInteger DEF HeldLong
  <2> QED
    BY <2>1, PositionIsAnInteger
<1>3. trade \in Trades
  <2>1. journal # <<>>
    BY <1>1, <1>2 DEF FilledOf, LedgerIsTheJournal
  <2> QED
    BY <1>1, <2>1 DEF EntryComesFirst, PaperTypes
<1>4. EntryPrice \in Int
  <2>1. PICK i \in FilledOf(Entry) : EntryPrice = journal[i].price
    BY <1>2 DEF EntryPrice
  <2>2. i \in DOMAIN journal
    BY <1>1 DEF FilledOf, LedgerIsTheJournal
  <2>3. journal[i] \in PaperRows
    BY <1>1, <2>2, ElementOfSeq, LenProperties DEF PaperTypes
  <2> QED
    BY <2>1, <2>3 DEF PaperRows
<1>5. ActiveStop \in Int
  BY <1>1 DEF PaperTypes, Terms, OrderNames, ActiveStop
<1>6. orders[Stop] # NoTerms
  <2> SUFFICES ASSUME orders[Stop] = NoTerms PROVE FALSE
    OBVIOUS
  <2>1. ActiveStop = 0
    BY DEF ActiveStop, NoTerms
  <2>2. trade.stop > 0 /\ trade.stop \in Int
    BY <1>3 DEF Trades
  <2>3. trade.stop < EntryPrice /\ Distance(EntryPrice, 0) <= EntryPrice - trade.stop
    BY <2>1 DEF Describable, InitialR
  <2> QED
    BY <1>4, <2>2, <2>3 DEF Distance
<1>7. 0 < ActiveStop
  BY <1>1, <1>6 DEF OrdersOf, ActiveStop
<1>8. NonWidening(proposed) \in Int /\ ActiveStop <= NonWidening(proposed)
  BY <1>5, OfTwo DEF NonWidening
<1> QED
  BY <1>4, <1>5, <1>6, <1>7, <1>8

(* The new trigger is committed with the command that replaces the stop. *)
LEMMA MoveStopKeeps ==
    ASSUME PaperInv, HeldLong, Describable, NEW proposed \in Int, NEW next \in Returns,
           MoveStop(NonWidening(proposed), next),
           UNCHANGED <<path, trade, links, journal, ledger>>
    PROVE  PaperInv'
<1>1. /\ PaperTypes /\ LedgerIsTheJournal /\ OrdersOf(trade) /\ EntryComesFirst /\ RowsSay
      /\ OneEntry /\ Dispatching /\ StopStands /\ WithinBudget
  BY DEF PaperInv
<1>2. PICK price \in Int : price = NonWidening(proposed) /\ ActiveStop <= price
  BY StopMoves
<1>3. orders[Stop] # NoTerms /\ ActiveStop \in Int /\ 0 < ActiveStop
  BY StopMoves
<1>4. CASE ActiveStop = price
  <2>1. pc' = next /\ UNCHANGED <<orders, then, command>>
    BY <1>2, <1>4 DEF MoveStop, Goto
  <2>2. then' \in Returns
    BY <1>1, <2>1 DEF PaperTypes
  <2>3. pc' \notin {"dispatch", "link", "protect"}
    BY <2>1 DEF Returns
  <2> QED
    BY <2>1, <2>2, <2>3, QuietKeeps
<1>5. CASE ActiveStop # price
  <2>1. PICK i \in links[Stop] : command' = ReplaceCommand(i)
    BY <1>2, <1>5 DEF MoveStop
  <2>2. /\ orders' = [orders EXCEPT ![Stop].trigger = price] /\ pc' = "dispatch" /\ then' = next
    BY <1>2, <1>5 DEF MoveStop
  <2>3. Stop \in OrderNames /\ Entry \in OrderNames /\ Stop # Entry /\ Stop \notin ExitKinds
        /\ ExitKinds \subseteq OrderNames
    BY PaperAssumption DEF Stop, Entry, PaperAssumption, OrderNames
  <2>4. PICK terms \in Terms : terms = orders[Stop]
    BY <1>1, <2>3 DEF PaperTypes
  <2>5. PICK moved \in Terms :
           /\ moved = [terms EXCEPT !.trigger = price] /\ moved.trigger = price
           /\ moved.quantity = terms.quantity /\ moved.limit = terms.limit
    <3>1. [terms EXCEPT !.trigger = price] \in Terms
      BY DEF Terms
    <3> QED
      BY <3>1 DEF Terms
  <2>6. orders' = [orders EXCEPT ![Stop] = moved]
    BY <2>2, <2>4, <2>5
  <2>7. \A o \in OrderNames : orders'[o] = IF o = Stop THEN moved ELSE orders[o]
    BY <1>1, <2>6 DEF PaperTypes
  <2>8. terms.trigger = ActiveStop /\ moved.trigger > 0 /\ moved # NoTerms
    BY <1>2, <1>3, <2>4, <2>5 DEF ActiveStop, NoTerms
  <2>9. PaperTypes'
    <3>1. Now \in Nat
      BY <1>1, MomentsArePriced
    <3>2. i \in Nat
      BY <1>1, <2>3 DEF PaperTypes
    <3>3. command' \in [order : OrderNames, target : Nat, at : Nat] /\ command'.at = Now
      BY <2>1, <2>3, <3>1, <3>2 DEF ReplaceCommand
    <3>4. orders' \in [OrderNames -> Terms]
      BY <1>1, <2>6 DEF PaperTypes
    <3> QED
      BY <1>1, <2>2, <3>1, <3>3, <3>4 DEF PaperTypes, Now
  <2>10. LedgerIsTheJournal' /\ OneEntry' /\ StopStands' /\ WithinBudget'
    BY <1>1 DEF LedgerIsTheJournal, OneEntry, StopStands, WithinBudget
  <2>11. OrdersOf(trade)'
    <3>1. orders'[Entry] = orders[Entry] /\ orders'[Stop] = moved
          /\ \A o \in ExitKinds : orders'[o] = orders[o]
      BY <2>3, <2>7
    <3> QED
      BY <1>1, <1>3, <2>4, <2>5, <2>8, <3>1 DEF OrdersOf, EntryTerms
  <2>12. EntryComesFirst'
    <3>1. FilledOf(Entry)' = FilledOf(Entry)
      BY DEF FilledOf
    <3>2. trade # None
      BY <1>1, <1>3, <2>3 DEF EntryComesFirst
    <3>3. ASSUME NEW o \in OrderNames, orders'[o] # NoTerms PROVE orders[o] # NoTerms
      BY <1>3, <2>7, <3>3
    <3> QED
      BY <1>1, <2>2, <3>1, <3>2, <3>3 DEF EntryComesFirst
  <2>13. RowsSay'
    <3> SUFFICES ASSUME NEW n \in DOMAIN journal PROVE RowSays(journal[n])'
      BY DEF RowsSay
    <3>1. RowSays(journal[n]) /\ journal[n] \in PaperRows
      BY <1>1, ElementOfSeq, LenProperties DEF RowsSay, PaperTypes
    <3>2. journal[n].order \in OrderNames /\ journal[n].trigger \in Int
      BY <3>1 DEF PaperRows
    <3>3. orders'[journal[n].order] # NoTerms
      BY <2>7, <2>8, <3>1, <3>2 DEF RowSays
    <3>4. journal[n].order = Stop => journal[n].trigger <= orders'[Stop].trigger
      <4>1. orders'[Stop].trigger = price
        BY <2>3, <2>5, <2>7
      <4>2. journal[n].order = Stop => journal[n].trigger <= ActiveStop
        BY <3>1 DEF RowSays, ActiveStop
      <4> QED
        BY <1>2, <1>3, <3>2, <4>1, <4>2
    <3> QED
      BY <3>1, <3>3, <3>4 DEF RowSays, NoWorse
  <2>14. Dispatching'
    <3>1. command'.order = Stop /\ command'.target = i
      BY <2>1 DEF ReplaceCommand
    <3>2. i \in DOMAIN journal /\ journal[i].order = Stop
      BY <1>1, <2>3 DEF Dispatching
    <3>3. orders'[Stop] # NoTerms
      BY <2>3, <2>7, <2>8
    <3> QED
      BY <1>1, <2>2, <2>3, <3>1, <3>2, <3>3 DEF Dispatching
  <2> QED
    BY <2>9, <2>10, <2>11, <2>12, <2>13, <2>14 DEF PaperInv
<1> QED
  BY <1>4, <1>5

(* The add and the break-even move the stop, and nothing else. *)
LEMMA ManagedKeeps ==
    ASSUME PaperInv, NEW offset \in Offsets, NEW move \in AddMoves,
           AddToPosition(offset, move) \/ BreakEven(offset, move)
    PROVE  PaperInv'
<1>1. HeldLong /\ Describable /\ UNCHANGED <<path, trade, links, journal, ledger>>
  BY DEF AddToPosition, BreakEven
<1>2. EntryPrice \in Int /\ offset \in Int /\ Price(LastClose) \in Int
  <2>1. EntryPrice \in Int
    BY <1>1, StopMoves
  <2>2. Price(LastClose) \in Int
    BY MomentsArePriced DEF PaperInv
  <2> QED
    BY <2>1, <2>2, PaperAssumption DEF PaperAssumption
<1>3. CASE AddToPosition(offset, move)
  <2>1. (EntryPrice + Price(LastClose)) \div 2 + offset \in Int
    BY <1>2
  <2>2. "fail" \in Returns
    BY DEF Returns
  <2>3. MoveStop(NonWidening((EntryPrice + Price(LastClose)) \div 2 + offset), "fail")
    BY <1>3 DEF AddToPosition, AddStop
  <2> QED
    BY <1>1, <2>1, <2>2, <2>3, MoveStopKeeps
<1>4. CASE BreakEven(offset, move)
  <2>1. EntryPrice + offset \in Int
    BY <1>2
  <2>2. "mark" \in Returns
    BY DEF Returns
  <2>3. MoveStop(NonWidening(EntryPrice + offset), "mark")
    BY <1>4 DEF BreakEven, BreakEvenStop
  <2> QED
    BY <1>1, <2>1, <2>2, <2>3, MoveStopKeeps
<1> QED
  BY <1>3, <1>4

-----------------------------------------------------------------------------
(* The broker stages a command behind the rows it has, of which it may void     *)
(* the stop the command replaces (void_and_stage).                              *)
Staged(rows) ==
    /\ pc = "dispatch" /\ pc' = "link" /\ rows \in Seq(PaperRows) /\ Len(rows) = Len(journal)
    /\ \A i \in DOMAIN journal :
          \/ rows[i] = journal[i]
          \/ /\ i = command.target /\ command.target # 0 /\ journal[i].status = "STAGED"
             /\ rows[i] = [journal[i] EXCEPT !.status = "NO_FILL"]
    /\ journal' = Append(rows, PaperCommand)
    /\ UNCHANGED <<path, trade, orders, links, ledger, then, command>>

(* The row being staged says what its order says, and leaves a stop standing. *)
LEMMA StagedKeeps ==
    ASSUME PaperInv, NEW rows, Staged(rows)
    PROVE  PaperInv'
<1>1. /\ PaperTypes /\ LedgerIsTheJournal /\ OrdersOf(trade) /\ EntryComesFirst /\ RowsSay
      /\ OneEntry /\ Dispatching /\ StopStands /\ WithinBudget
  BY DEF PaperInv
<1>2. /\ pc = "dispatch" /\ pc' = "link" /\ rows \in Seq(PaperRows) /\ Len(rows) = Len(journal)
      /\ journal' = Append(rows, PaperCommand)
      /\ UNCHANGED <<path, trade, orders, links, ledger, then, command>>
  BY DEF Staged
<1>3. PICK o \in OrderNames, terms \in Terms :
         /\ o = command.order /\ terms = orders[o] /\ terms # NoTerms /\ command.at \in Nat
         /\ o = Entry => \A i \in DOMAIN journal : journal[i].order # Entry
         /\ command.target # 0 => o = Stop
  <2>1. command.order \in OrderNames /\ orders[command.order] \in Terms /\ command.at \in Nat
    BY <1>1 DEF PaperTypes
  <2> QED
    BY <1>1, <1>2, <2>1 DEF Dispatching
<1>4. PICK new \in PaperRows :
         /\ new = PaperCommand /\ new.order = o /\ new.quantity = terms.quantity
         /\ new.limit = terms.limit /\ new.trigger = terms.trigger /\ new.status = "STAGED"
         /\ new.at = command.at
  <2>1. PaperCommand = [order |-> o, quantity |-> terms.quantity, limit |-> terms.limit,
                        trigger |-> terms.trigger, at |-> command.at, status |-> "STAGED",
                        price |-> 0]
    BY <1>3 DEF PaperCommand
  <2>2. terms.quantity \in Int /\ terms.limit \in Int /\ terms.trigger \in Int
    BY DEF Terms
  <2>3. PaperCommand \in PaperRows
    BY <1>3, <2>1, <2>2 DEF PaperRows
  <2> QED
    BY <2>1, <2>3
<1>5. PICK n \in Nat : n = Len(journal) /\ DOMAIN journal = 1 .. n /\ DOMAIN rows = 1 .. n
  BY <1>1, <1>2, LenProperties DEF PaperTypes
<1>6. /\ journal' \in Seq(PaperRows) /\ Len(journal') = n + 1 /\ DOMAIN journal' = 1 .. n + 1
      /\ \A i \in 1 .. n : journal'[i] = rows[i]
      /\ journal'[n + 1] = new
  <2>1. /\ Append(rows, new) \in Seq(PaperRows) /\ Len(Append(rows, new)) = Len(rows) + 1
        /\ \A i \in 1 .. Len(rows) : Append(rows, new)[i] = rows[i]
        /\ Append(rows, new)[Len(rows) + 1] = new
    BY <1>2, AppendProperties
  <2>2. journal' = Append(rows, new) /\ Len(rows) = n
    BY <1>2, <1>4, <1>5
  <2>3. DOMAIN journal' = 1 .. Len(journal')
    BY <2>1, <2>2, LenProperties
  <2> QED
    BY <2>1, <2>2, <2>3
<1>7. \A i \in 1 .. n + 1 : i \in 1 .. n \/ i = n + 1
  OBVIOUS
<1>8. ASSUME NEW i \in 1 .. n
      PROVE  /\ journal'[i] \in PaperRows /\ i \in 1 .. n + 1
             /\ journal'[i].order = journal[i].order
             /\ journal'[i].quantity = journal[i].quantity
             /\ journal'[i].limit = journal[i].limit /\ journal'[i].trigger = journal[i].trigger
             /\ journal'[i].at = journal[i].at /\ journal'[i].price = journal[i].price
             /\ journal'[i].status = "FILLED" <=> journal[i].status = "FILLED"
             /\ \/ journal'[i].status = journal[i].status
                \/ (command.target # 0 /\ journal'[i].status = "NO_FILL")
  <2>1. journal[i] \in PaperRows
    BY <1>1, <1>5, ElementOfSeq DEF PaperTypes
  <2>4. i \in 1 .. n + 1 /\ journal'[i] = rows[i]
    BY <1>6
  <2>2. CASE rows[i] = journal[i]
    BY <2>1, <2>2, <2>4
  <2>3. CASE /\ command.target # 0 /\ journal[i].status = "STAGED"
             /\ rows[i] = [journal[i] EXCEPT !.status = "NO_FILL"]
    <3>1. PICK k \in PaperRows : k = journal[i]
      BY <2>1
    <3>2. PICK m : m = [k EXCEPT !.status = "NO_FILL"]
      OBVIOUS
    <3>3. /\ m \in PaperRows /\ m.order = k.order /\ m.quantity = k.quantity
          /\ m.limit = k.limit /\ m.trigger = k.trigger /\ m.at = k.at /\ m.price = k.price
          /\ m.status = "NO_FILL"
      BY <3>2 DEF PaperRows
    <3>4. journal'[i] = m /\ k.status = "STAGED"
      BY <2>3, <2>4, <3>1, <3>2
    <3> QED
      BY <2>3, <2>4, <3>1, <3>3, <3>4
  <2> QED
    BY <1>5, <2>2, <2>3 DEF Staged
<1>9. trade # None
  BY <1>1, <1>3 DEF EntryComesFirst
<1>10. PaperTypes'
  <2>1. \A i \in DOMAIN journal' : journal'[i].at <= Now
    BY <1>1, <1>3, <1>4, <1>5, <1>6, <1>7, <1>8 DEF PaperTypes
  <2> QED
    BY <1>1, <1>2, <1>6, <2>1 DEF PaperTypes, Now
<1>11. LedgerIsTheJournal'
  <2>1. ledger = {i \in 1 .. n : journal[i].status = "FILLED"}
    BY <1>1, <1>5 DEF LedgerIsTheJournal
  <2>2. \A i \in 1 .. n + 1 : journal'[i].status = "FILLED" <=> i \in ledger
    BY <1>4, <1>6, <1>7, <1>8, <2>1
  <2>3. ledger \subseteq 1 .. n + 1
    BY <1>8, <2>1
  <2> QED
    BY <1>2, <1>6, <2>2, <2>3 DEF LedgerIsTheJournal
<1>12. OrdersOf(trade)' /\ WithinBudget'
  BY <1>1, <1>2 DEF OrdersOf, WithinBudget
<1>13. EntryComesFirst'
  <2>1. FilledOf(Entry)' = FilledOf(Entry)
    <3>1. ledger \subseteq 1 .. n
      BY <1>1, <1>5 DEF LedgerIsTheJournal
    <3> QED
      BY <1>2, <1>8, <3>1 DEF FilledOf
  <2> QED
    BY <1>1, <1>2, <1>9, <2>1 DEF EntryComesFirst
<1>14. RowsSay'
  <2>1. ASSUME NEW i \in 1 .. n PROVE RowSays(journal[i])'
    <3>1. RowSays(journal[i])
      BY <1>1, <1>5 DEF RowsSay
    <3> QED
      BY <1>2, <1>8, <3>1 DEF RowSays, NoWorse
  <2>2. RowSays(new)'
    <3>1. new.order = Entry => /\ new.quantity = trade.quantity /\ new.limit = trade.entry
                               /\ new.trigger = 0
      BY <1>1, <1>3, <1>4 DEF OrdersOf, EntryTerms
    <3>2. new.order = Stop => /\ new.quantity = trade.quantity /\ new.limit = 0
                              /\ 0 < new.trigger /\ new.trigger <= orders[Stop].trigger
      <4>1. terms.trigger \in Int
        BY DEF Terms
      <4> QED
        BY <1>1, <1>3, <1>4, <4>1 DEF OrdersOf
    <3>3. new.order \in ExitKinds => new.quantity > 0
      BY <1>1, <1>3, <1>4 DEF OrdersOf
    <3> QED
      BY <1>2, <1>3, <1>4, <3>1, <3>2, <3>3 DEF RowSays
  <2> QED
    BY <1>6, <1>7, <2>1, <2>2 DEF RowsSay
<1>15. OneEntry'
  <2>1. ASSUME NEW i \in 1 .. n, new.order = Entry PROVE journal'[i].order # Entry
    BY <1>3, <1>4, <1>5, <1>8, <2>1
  <2>2. ASSUME NEW i \in 1 .. n, NEW j \in 1 .. n, journal'[i].order = Entry,
               journal'[j].order = Entry
        PROVE  i = j
    BY <1>1, <1>5, <1>8, <2>2 DEF OneEntry
  <2> QED
    BY <1>6, <1>7, <2>1, <2>2 DEF OneEntry
<1>16. Dispatching'
  <2>1. n + 1 \in 1 .. n + 1
    OBVIOUS
  <2>2. \A p \in OrderNames : \A i \in links[p] :
           i \in DOMAIN journal' /\ journal'[i].order = p
    BY <1>1, <1>5, <1>6, <1>8 DEF Dispatching
  <2>3. journal'[n + 1].order = command.order
    BY <1>3, <1>4, <1>6
  <2> QED
    BY <1>2, <1>6, <2>1, <2>2, <2>3 DEF Dispatching
<1>17. StopStands'
  <2>1. CASE o = Stop
    BY <1>4, <1>6, <2>1 DEF StopStands
  <2>2. CASE o # Stop
    <3>1. \A i \in 1 .. n : journal'[i].status = journal[i].status
      BY <1>3, <1>8, <2>2
    <3> SUFFICES ASSUME NEW j \in DOMAIN journal', journal'[j].order = Stop
                 PROVE  \E i \in DOMAIN journal' :
                           journal'[i].order = Stop /\ journal'[i].status # "NO_FILL"
      BY DEF StopStands
    <3>2. j \in 1 .. n
      BY <1>4, <1>6, <1>7, <2>2
    <3>3. PICK i \in 1 .. n : journal[i].order = Stop /\ journal[i].status # "NO_FILL"
      BY <1>1, <1>5, <1>8, <3>2 DEF StopStands
    <3> QED
      BY <1>6, <1>8, <3>1, <3>3
  <2> QED
    BY <2>1, <2>2
<1> QED
  BY <1>10, <1>11, <1>12, <1>13, <1>14, <1>15, <1>16, <1>17 DEF PaperInv

(* A command is staged, or replaces the one it names. *)
LEMMA SubmissionIsStaged ==
    ASSUME PaperInv, Stage \/ Replace
    PROVE  \E rows : Staged(rows)
<1>1. PaperTypes
  BY DEF PaperInv
<1>2. journal \in Seq(PaperRows) /\ DOMAIN journal = 1 .. Len(journal)
  BY <1>1, LenProperties DEF PaperTypes
<1>3. CASE Stage
  <2>1. Staged(journal)
    BY <1>2, <1>3 DEF Stage, Goto, Staged
  <2> QED
    BY <2>1
<1>4. CASE Replace /\ command.target \in Unresolved
  <2>1. PICK rows : rows = [journal EXCEPT ![command.target].status = "NO_FILL"]
    OBVIOUS
  <2>2. command.target \in DOMAIN journal /\ journal[command.target].status = "STAGED"
    BY <1>4 DEF Unresolved
  <2>3. PICK k \in PaperRows : k = [journal[command.target] EXCEPT !.status = "NO_FILL"]
    <3>1. journal[command.target] \in PaperRows
      BY <1>2, <2>2, ElementOfSeq
    <3> QED
      BY <3>1 DEF PaperRows
  <2>4. rows = [journal EXCEPT ![command.target] = k]
    BY <2>1, <2>2, <2>3
  <2>5. /\ rows \in Seq(PaperRows) /\ Len(rows) = Len(journal)
        /\ \A i \in 1 .. Len(journal) :
              rows[i] = IF i = command.target THEN k ELSE journal[i]
    BY <1>2, <2>2, <2>4, ExceptSeq
  <2>6. /\ pc = "dispatch" /\ pc' = "link" /\ journal' = Append(rows, PaperCommand)
        /\ command.target # 0
        /\ UNCHANGED <<path, trade, orders, links, ledger, then, command>>
    BY <1>4, <2>1 DEF Replace, Goto, VoidAndStage, Voided
  <2>7. Staged(rows)
    BY <1>2, <2>2, <2>3, <2>5, <2>6 DEF Staged
  <2> QED
    BY <2>7
<1>5. CASE Replace /\ command.target \notin Unresolved
  <2>1. Staged(journal)
    BY <1>2, <1>5 DEF Replace, Goto, Staged, VoidAndStage, Voided
  <2> QED
    BY <2>1
<1> QED
  BY <1>3, <1>4, <1>5

(* The command is linked to its order. *)
LEMMA LinkKeeps ==
    ASSUME PaperInv, LinkOrder
    PROVE  PaperInv'
<1>1. /\ PaperTypes /\ LedgerIsTheJournal /\ OrdersOf(trade) /\ EntryComesFirst /\ RowsSay
      /\ OneEntry /\ Dispatching /\ StopStands /\ WithinBudget
  BY DEF PaperInv
<1>2. /\ pc = "link" /\ links' = [links EXCEPT ![command.order] = @ \cup {Len(journal)}]
      /\ pc' = then /\ then' = "idle" /\ command' = NoCommand
      /\ UNCHANGED <<path, trade, orders, journal, ledger>>
  BY DEF LinkOrder, Dispatched
<1>3. pc' \notin {"dispatch", "link", "protect"} /\ then' \in Returns
  BY <1>1, <1>2 DEF PaperTypes, Returns
<1>4. PaperTypes'
  <2>1. Len(journal) \in Nat /\ command.order \in OrderNames
    BY <1>1, LenProperties DEF PaperTypes
  <2>2. links' \in [OrderNames -> SUBSET Nat]
    BY <1>1, <1>2, <2>1 DEF PaperTypes
  <2>3. NoCommand \in [order : OrderNames, target : Nat, at : Nat] /\ NoCommand.at = 0
    BY DEF NoCommand, OrderNames
  <2>4. Now \in Nat
    BY <1>1, MomentsArePriced
  <2> QED
    BY <1>1, <1>2, <1>3, <2>2, <2>3, <2>4 DEF PaperTypes, Now
<1>5. LedgerIsTheJournal' /\ OneEntry' /\ StopStands' /\ WithinBudget'
  BY <1>1, <1>2 DEF LedgerIsTheJournal, OneEntry, StopStands, WithinBudget
<1>6. OrdersOf(trade)' /\ RowsSay'
  BY <1>1, <1>2 DEF OrdersOf, RowsSay, RowSays, NoWorse
<1>7. EntryComesFirst'
  BY <1>1, <1>2, <1>3 DEF EntryComesFirst, FilledOf
<1>8. Dispatching'
  <2>1. Len(journal) \in DOMAIN journal /\ journal[Len(journal)].order = command.order
    BY <1>1, <1>2 DEF Dispatching
  <2>2. ASSUME NEW o \in OrderNames, NEW i \in links'[o]
        PROVE  i \in DOMAIN journal /\ journal[i].order = o
    <3>1. i \in links[o] \/ (o = command.order /\ i = Len(journal))
      <4>1. links'[o] = IF o = command.order THEN links[o] \cup {Len(journal)} ELSE links[o]
        BY <1>1, <1>2 DEF PaperTypes
      <4> QED
        BY <2>2, <4>1
    <3> QED
      BY <1>1, <2>1, <3>1 DEF Dispatching
  <2> QED
    BY <1>2, <1>3, <2>2 DEF Dispatching
<1> QED
  BY <1>4, <1>5, <1>6, <1>7, <1>8 DEF PaperInv

(* Time passes. *)
LEMMA MoveKeeps ==
    ASSUME PaperInv, NEW p \in MarketPrices, Move(p)
    PROVE  PaperInv'
<1>1. /\ PaperTypes /\ LedgerIsTheJournal /\ OrdersOf(trade) /\ EntryComesFirst /\ RowsSay
      /\ OneEntry /\ Dispatching /\ StopStands /\ WithinBudget
  BY DEF PaperInv
<1>2. /\ path' = Append(path, p)
      /\ UNCHANGED <<trade, orders, links, journal, ledger, pc, then, command>>
  BY DEF Move, db, memory
<1>3. PaperTypes'
  <2>1. path \in Seq(MarketPrices) /\ Len(path) \in Nat /\ Now \in Nat
    BY <1>1, LenProperties, MomentsArePriced DEF PaperTypes
  <2>2. path' \in Seq(MarketPrices) /\ Len(path') = Len(path) + 1
    BY <1>2, <2>1, AppendProperties
  <2>3. Now' = Now + 1
    BY <2>1, <2>2 DEF Now
  <2>4. \A i \in DOMAIN journal : journal[i].at \in Nat
    <3>1. \A i \in DOMAIN journal : journal[i] \in PaperRows
      BY <1>1, ElementOfSeq, LenProperties DEF PaperTypes
    <3> QED
      BY <3>1 DEF PaperRows
  <2>5. \A i \in DOMAIN journal : journal[i].at <= Now'
    BY <1>1, <2>1, <2>3, <2>4 DEF PaperTypes
  <2>6. Len(path') > Frame /\ command.at <= Now' /\ Frame \in Nat
    BY <1>1, <2>1, <2>2, <2>3, PaperAssumption DEF PaperTypes, PaperAssumption
  <2> QED
    BY <1>1, <1>2, <2>2, <2>5, <2>6 DEF PaperTypes
<1>4. LedgerIsTheJournal' /\ OneEntry' /\ StopStands' /\ WithinBudget'
  BY <1>1, <1>2 DEF LedgerIsTheJournal, OneEntry, StopStands, WithinBudget
<1>5. OrdersOf(trade)' /\ RowsSay'
  BY <1>1, <1>2 DEF OrdersOf, RowsSay, RowSays, NoWorse
<1>6. EntryComesFirst' /\ Dispatching'
  BY <1>1, <1>2 DEF EntryComesFirst, FilledOf, Dispatching
<1> QED
  BY <1>3, <1>4, <1>5, <1>6 DEF PaperInv

(* The steps that move the pass along, or end it, and change no row. *)
Onward ==
    \/ ClearHalt \/ Crash \/ Reconcile \/ Guard \/ NextContext \/ Decline \/ Undescribable
    \/ Watch \/ Mark \/ Halt \/ AddFails \/ Refuse

(* None of them can disturb what the rows and the orders say. *)
LEMMA OnwardKeeps ==
    ASSUME PaperInv, Onward \/ UNCHANGED paperVars
    PROVE  PaperInv'
<1>1. UNCHANGED <<path, trade, orders, links, journal, ledger>>
  BY DEF Onward, ClearHalt, Crash, Reconcile, Guard, NextContext, Decline, Undescribable,
     Watch, Mark, Halt, AddFails, Refuse, paperVars, db
<1>2. then \in Returns
  BY DEF PaperInv, PaperTypes
<1>3. CASE ClearHalt \/ UNCHANGED paperVars
  <2>1. UNCHANGED <<pc, then, command>>
    BY <1>3 DEF ClearHalt, paperVars, memory
  <2> QED
    BY <1>1, <1>2, <2>1, QuietKeeps
<1>4. CASE Crash \/ Undescribable \/ AddFails
  <2>1. pc' = "idle" /\ then' = "idle" /\ command' = NoCommand
    BY <1>4 DEF Crash, Undescribable, AddFails, Raise
  <2> QED
    BY <1>1, <2>1, QuietKeeps DEF Returns
<1>5. CASE Refuse
  <2>1. pc' \in Returns /\ then' = "idle" /\ command' = NoCommand
    BY <1>2, <1>5 DEF Refuse, Dispatched
  <2> QED
    BY <1>1, <2>1, QuietKeeps DEF Returns
<1>6. CASE \/ Reconcile \/ Guard \/ NextContext \/ Decline \/ Watch \/ Mark \/ Halt
  <2>1. pc' \in {"guard", "idle", "context", "tick", "mark"} /\ UNCHANGED <<then, command>>
    BY <1>6 DEF Reconcile, Guard, NextContext, Decline, Watch, Mark, Halt, Goto
  <2> QED
    BY <1>1, <1>2, <2>1, QuietKeeps
<1> QED
  BY <1>3, <1>4, <1>5, <1>6 DEF Onward

(* The invariant of the paper trade, action by action. *)
LEMMA PaperInvAlways == PaperSpec => []PaperInv
<1>1. PaperInit => PaperInv
  <2> SUFFICES ASSUME PaperInit PROVE PaperInv
    OBVIOUS
  <2>1. PICK p \in MarketPrices : path = [t \in 1 .. Frame + 1 |-> p]
    BY DEF PaperInit
  <2>2. Frame + 1 \in Nat /\ Frame \in Nat
    BY PaperAssumption DEF PaperAssumption
  <2>3. path \in Seq(MarketPrices) /\ Len(path) = Frame + 1
    <3>1. path \in [1 .. Frame + 1 -> MarketPrices]
      BY <2>1
    <3>2. path \in Seq(MarketPrices)
      BY <2>2, <3>1, SeqDef
    <3>3. Len(path) \in Nat /\ 1 .. Len(path) = 1 .. Frame + 1
      BY <2>1, <3>2, LenProperties
    <3> QED
      BY <2>2, <3>2, <3>3
  <2>4. PaperTypes
    <3>1. <<>> \in Seq(PaperRows) /\ DOMAIN <<>> = {}
      BY EmptySeq, LenProperties
    <3>2. NoCommand \in [order : OrderNames, target : Nat, at : Nat] /\ NoCommand.at <= Now
      BY <2>2, <2>3 DEF NoCommand, OrderNames, Now
    <3>3. NoTerms \in Terms
      BY DEF NoTerms, Terms
    <3>4. Len(path) > Frame
      BY <2>2, <2>3
    <3> QED
      BY <2>3, <3>1, <3>2, <3>3, <3>4 DEF PaperInit, PaperTypes, Returns
  <2>5. journal = <<>> /\ DOMAIN journal = {} /\ \A o \in OrderNames : orders[o] = NoTerms
    BY DEF PaperInit
  <2>6. LedgerIsTheJournal /\ OneEntry /\ StopStands /\ RowsSay
    BY <2>5 DEF PaperInit, LedgerIsTheJournal, OneEntry, StopStands, RowsSay
  <2>7. OrdersOf(trade) /\ EntryComesFirst
    BY <2>5 DEF PaperInit, OrdersOf, EntryComesFirst, OrderNames
  <2>8. Dispatching /\ WithinBudget
    BY DEF PaperInit, Dispatching, WithinBudget
  <2> QED
    BY <2>4, <2>6, <2>7, <2>8 DEF PaperInv
<1>2. PaperInv /\ [PaperNext]_paperVars => PaperInv'
  <2> SUFFICES ASSUME PaperInv, [PaperNext]_paperVars PROVE PaperInv'
    OBVIOUS
  <2>1. ASSUME NEW p \in MarketPrices, Move(p) PROVE PaperInv'
    BY <2>1, MoveKeeps
  <2>2. CASE Onward \/ UNCHANGED paperVars
    BY <2>2, OnwardKeeps
  <2>3. CASE Settle
    BY <2>3, SettleKeeps
  <2>4. CASE Protect
    BY <2>4, ProtectKeeps
  <2>5. ASSUME NEW r \in Requests, Enter(r) PROVE PaperInv'
    BY <2>5, EnterKeeps
  <2>6. ASSUME NEW kind \in ExitKinds, Close(kind) PROVE PaperInv'
    BY <2>6, CloseKeeps
  <2>7. ASSUME NEW offset \in Offsets, NEW move \in AddMoves,
               AddToPosition(offset, move) \/ BreakEven(offset, move)
        PROVE  PaperInv'
    BY <2>7, ManagedKeeps
  <2>8. CASE Stage \/ Replace
    BY <2>8, SubmissionIsStaged, StagedKeeps
  <2>9. CASE LinkOrder
    BY <2>9, LinkKeeps
  <2> QED
    BY <2>1, <2>2, <2>3, <2>4, <2>5, <2>6, <2>7, <2>8, <2>9 DEF PaperNext, Onward
<1> QED
  BY <1>1, <1>2, PTL DEF PaperSpec

-----------------------------------------------------------------------------
(* Settlement never splits a receipt from its execution                        *)
(* (MySqlFillSettlement.settle, persist_receipt): whatever commands are staged *)
(* and linked, and whatever raises or dies in between.                         *)
THEOREM LedgerIsTheJournalAlways == PaperSpec => []LedgerIsTheJournal
<1>1. PaperInv => LedgerIsTheJournal
  BY DEF PaperInv
<1> QED
  BY <1>1, PaperInvAlways, PTL

(* What filled and is stopped out costs no more than NORMAL's share of the     *)
(* lower equity (evaluate_v6_risk), at any prices, costs, grades and caps: the *)
(* quotient is rounded down, and no bar fills the entry beyond its limit.      *)
THEOREM RiskWithinBudgetAlways == PaperSpec => []RiskWithinBudget
<1>1. PaperInv => RiskWithinBudget
  <2> SUFFICES ASSUME PaperInv, trade # None
               PROVE  100 * trade.quantity * (LossAtStop + Cost)
                         <= trade.base * Fractions["NORMAL"]
    BY DEF RiskWithinBudget
  <2>1. PaperTypes /\ LedgerIsTheJournal /\ RowsSay /\ WithinBudget
    BY DEF PaperInv
  <2>2. PICK quantity \in Nat, entry \in Nat, stop \in Nat, base \in Nat :
           /\ quantity = trade.quantity /\ entry = trade.entry /\ stop = trade.stop
           /\ base = trade.base
    BY <2>1 DEF PaperTypes, Trades
  <2>3. Cost \in Nat /\ Fractions["NORMAL"] \in Nat
    BY PaperAssumption DEF PaperAssumption
  <2>4. PICK d \in Nat : d = Distance(entry, stop)
    <3>1. Distance(entry, stop) \in Nat
      BY DEF Distance
    <3> QED
      BY <3>1
  <2>5. /\ IF trade.side = "BUY" THEN d = entry - stop ELSE d = stop - entry
        /\ 100 * quantity * (d + Cost) <= base * Fractions["NORMAL"]
    BY <2>1, <2>2, <2>4 DEF WithinBudget, Distance
  <2>6. PICK loss \in Int : loss = LossAtStop /\ loss <= d
    <3>1. CASE FilledOf(Entry) = {}
      BY <2>2, <2>5, <3>1 DEF LossAtStop
    <3>2. CASE FilledOf(Entry) # {}
      <4>1. PICK i \in FilledOf(Entry) : EntryPrice = journal[i].price
        BY <3>2 DEF EntryPrice
      <4>2. i \in DOMAIN journal /\ journal[i].order = Entry /\ journal[i].status = "FILLED"
        BY <2>1 DEF FilledOf, LedgerIsTheJournal
      <4>3. journal[i] \in PaperRows
        BY <2>1, <4>2, ElementOfSeq, LenProperties DEF PaperTypes
      <4>4. PICK price \in Int : price = EntryPrice /\ NoWorse(price)
        BY <2>1, <4>1, <4>2, <4>3 DEF RowsSay, RowSays, PaperRows
      <4> QED
        BY <2>2, <2>5, <3>2, <4>4 DEF LossAtStop, NoWorse
    <3> QED
      BY <3>1, <3>2
  <2>7. 100 * quantity * (loss + Cost) <= 100 * quantity * (d + Cost)
    <3>1. PICK u \in Int, v \in Int : u = loss + Cost /\ v = d + Cost /\ u <= v
      BY <2>3, <2>6
    <3>2. PICK n \in Nat : n = 100 * quantity
      OBVIOUS
    <3>3. n * u <= n * v
      BY <3>1
    <3> QED
      BY <3>1, <3>2, <3>3
  <2>8. /\ 100 * quantity * (loss + Cost) \in Int /\ 100 * quantity * (d + Cost) \in Int
        /\ base * Fractions["NORMAL"] \in Int
    BY <2>3
  <2> QED
    BY <2>2, <2>5, <2>6, <2>7, <2>8
<1> QED
  BY <1>1, PaperInvAlways, PTL

-----------------------------------------------------------------------------
(* A trade with the stop filled and the entry at most once holds nothing on the *)
(* trade's side: the stop closed all that was entered.                          *)
LEMMA StoppedOut ==
    ASSUME PaperInv, NEW s \in FilledOf(Stop)
    PROVE  IF trade.side = "BUY" THEN Position <= 0 ELSE Position >= 0
<1>1. /\ PaperTypes /\ LedgerIsTheJournal /\ EntryComesFirst /\ RowsSay /\ OneEntry
  BY DEF PaperInv
<1>2. s \in ledger /\ s \in DOMAIN journal /\ journal[s].order = Stop
  BY <1>1 DEF FilledOf, LedgerIsTheJournal
<1>3. trade \in Trades
  <2>1. journal # <<>>
    BY <1>2
  <2> QED
    BY <1>1, <2>1 DEF EntryComesFirst, PaperTypes
<1>4. PICK q \in Nat \ {0} : q = trade.quantity
  BY <1>3 DEF Trades
<1>5. PICK up \in BOOLEAN : up <=> (trade.side # "BUY")
  OBVIOUS
<1>6. PICK g : g = [i \in ledger |-> SignedQuantity(i)]
  OBVIOUS
<1>7. IsFiniteSet(ledger) /\ g \in [ledger -> Int]
  BY <1>6, PositionIsAnInteger
<1>8. /\ Stop # Entry /\ Stop \notin ExitKinds /\ Entry \notin ExitKinds
      /\ OrderNames = {Entry, Stop} \cup ExitKinds
  BY PaperAssumption DEF Stop, Entry, PaperAssumption, OrderNames
<1>9. ASSUME NEW i \in ledger
      PROVE  /\ i \in DOMAIN journal /\ journal[i] \in PaperRows /\ RowSays(journal[i])
             /\ g[i] = SignedQuantity(i) /\ g[i] \in Int
             /\ journal[i].quantity \in Int /\ journal[i].order \in OrderNames
  <2>1. i \in DOMAIN journal
    BY <1>1 DEF LedgerIsTheJournal
  <2>2. journal[i] \in PaperRows
    BY <1>1, <2>1, ElementOfSeq, LenProperties DEF PaperTypes
  <2> QED
    BY <1>1, <1>6, <1>7, <2>1, <2>2 DEF RowsSay, PaperRows
<1>10. /\ g[s] = IF up THEN q ELSE 0 - q
       /\ \A i \in ledger : journal[i].order = Entry => g[i] = IF up THEN 0 - q ELSE q
       /\ \A i \in ledger : journal[i].order # Entry => OnSide(g[i], up)
  <2>1. g[s] = IF up THEN q ELSE 0 - q
    <3>1. journal[s].quantity = q /\ g[s] = SignedQuantity(s)
      BY <1>2, <1>4, <1>9 DEF RowSays
    <3>2. Buys(journal[s].order) <=> up
      BY <1>2, <1>5, <1>8 DEF Buys
    <3> QED
      BY <3>1, <3>2 DEF SignedQuantity
  <2>2. ASSUME NEW i \in ledger, journal[i].order = Entry
        PROVE  g[i] = IF up THEN 0 - q ELSE q
    <3>1. journal[i].quantity = q /\ g[i] = SignedQuantity(i)
      BY <1>4, <1>9, <2>2 DEF RowSays
    <3>2. Buys(journal[i].order) <=> ~up
      BY <1>5, <2>2 DEF Buys
    <3> QED
      BY <3>1, <3>2 DEF SignedQuantity
  <2>3. ASSUME NEW i \in ledger, journal[i].order # Entry
        PROVE  OnSide(g[i], up)
    <3>1. journal[i].quantity > 0 /\ g[i] = SignedQuantity(i) /\ journal[i].quantity \in Int
      BY <1>4, <1>8, <1>9, <2>3 DEF RowSays
    <3>2. Buys(journal[i].order) <=> up
      BY <1>5, <2>3 DEF Buys
    <3> QED
      BY <3>1, <3>2 DEF SignedQuantity, OnSide
  <2> QED
    BY <2>1, <2>2, <2>3
<1>11. Total(g) = g[s] + Total(Without(g, s)) /\ Total(Without(g, s)) \in Int
  BY <1>2, <1>7, TotalOfOneMore
<1>12. PICK h : h = Without(g, s)
  OBVIOUS
<1>13. /\ DOMAIN h = ledger \ {s} /\ \A i \in ledger \ {s} : h[i] = g[i]
       /\ h \in [ledger \ {s} -> Int] /\ IsFiniteSet(ledger \ {s})
  <2>1. h = [i \in ledger \ {s} |-> g[i]]
    BY <1>7, <1>12 DEF Without
  <2>2. IsFiniteSet(ledger \ {s})
    BY <1>7, FS_Difference
  <2> QED
    BY <1>7, <2>1, <2>2
<1>14. OnSide(Total(g), up)
  <2>1. CASE \A i \in ledger : journal[i].order # Entry
    BY <1>7, <1>10, <2>1, TotalKeepsSide
  <2>2. CASE \E i \in ledger : journal[i].order = Entry
    <3>1. PICK e \in ledger : journal[e].order = Entry
      BY <2>2
    <3>2. e \in ledger \ {s} /\ e # s
      BY <1>2, <1>8, <3>1
    <3>3. Total(h) = h[e] + Total(Without(h, e)) /\ Total(Without(h, e)) \in Int
      BY <1>13, <3>2, TotalOfOneMore
    <3>4. PICK k : k = Without(h, e)
      OBVIOUS
    <3>5. PICK T : T = (ledger \ {s}) \ {e}
      OBVIOUS
    <3>6. k \in [T -> Int] /\ IsFiniteSet(T) /\ \A i \in T : k[i] = g[i]
      <4>1. k = [i \in T |-> h[i]]
        BY <1>13, <3>4, <3>5 DEF Without
      <4>2. IsFiniteSet(T)
        BY <1>13, <3>5, FS_Difference
      <4> QED
        BY <1>13, <3>5, <4>1, <4>2
    <3>7. \A i \in T : OnSide(k[i], up)
      <4> SUFFICES ASSUME NEW i \in T PROVE OnSide(k[i], up)
        OBVIOUS
      <4>1. i \in ledger /\ i # e
        BY <3>5
      <4>2. journal[i].order # Entry
        BY <1>1, <1>9, <3>1, <4>1 DEF OneEntry
      <4> QED
        BY <1>10, <3>6, <4>1, <4>2
    <3>8. OnSide(Total(k), up)
      BY <3>6, <3>7, TotalKeepsSide
    <3>9. h[e] = IF up THEN 0 - q ELSE q
      BY <1>10, <1>13, <3>1, <3>2
    <3>10. PICK rest \in Int : rest = Total(k)
      BY <3>3, <3>4
    <3>11. Total(g) = g[s] + (h[e] + rest)
      BY <1>11, <1>12, <3>3, <3>4, <3>10
    <3>12. Total(g) = rest
      BY <1>10, <3>9, <3>10, <3>11
    <3> QED
      BY <3>8, <3>10, <3>12
  <2> QED
    BY <2>1, <2>2
<1>15. Position = Total(g)
  BY <1>6 DEF Position
<1> QED
  BY <1>5, <1>14, <1>15 DEF OnSide

(* "The gap between them is a position with no stop behind it"                 *)
(* (void_and_stage): what a trade still holds once a stop was accepted has a   *)
(* stop staged behind it, at any prices, sizes and offsets.                    *)
THEOREM StopNeverLostAlways == PaperSpec => []StopNeverLost
<1>1. PaperInv => StopNeverLost
  <2> SUFFICES ASSUME PaperInv, links[Stop] # {},
                      IF trade.side = "BUY" THEN Position > 0 ELSE Position < 0
               PROVE  \E i \in Unresolved : journal[i].order = Stop
    BY DEF StopNeverLost
  <2>1. PaperTypes /\ LedgerIsTheJournal /\ Dispatching /\ StopStands
    BY DEF PaperInv
  <2>2. PICK i \in DOMAIN journal : journal[i].order = Stop /\ journal[i].status # "NO_FILL"
    BY <2>1 DEF Dispatching, OrderNames, StopStands
  <2>3. journal[i] \in PaperRows
    BY <2>1, ElementOfSeq, LenProperties DEF PaperTypes
  <2>4. journal[i].status \in {"STAGED", "FILLED"}
    BY <2>2, <2>3 DEF PaperRows
  <2>5. ASSUME journal[i].status = "FILLED" PROVE FALSE
    <3>1. i \in FilledOf(Stop)
      BY <2>1, <2>2, <2>5 DEF FilledOf, LedgerIsTheJournal
    <3>2. IF trade.side = "BUY" THEN Position <= 0 ELSE Position >= 0
      BY <3>1, StoppedOut
    <3>3. Position \in Int
      BY PositionIsAnInteger
    <3> QED
      BY <3>2, <3>3
  <2> QED
    BY <2>2, <2>4, <2>5 DEF Unresolved
<1> QED
  BY <1>1, PaperInvAlways, PTL

(* "Only ever tightens" (_non_widening_stop, _replace_stop): whatever the       *)
(* offsets and prices, neither the recorded trigger of the stop nor that of a   *)
(* stop newly staged is ever below the one before it.                           *)
THEOREM StopOnlyTightensAlways == PaperSpec => StopOnlyTightens
<1> DEFINE Tighter ==
        /\ orders[Stop].trigger <= orders'[Stop].trigger
        /\ \A i \in DOMAIN journal, j \in DOMAIN journal' \ DOMAIN journal :
              journal[i].order = Stop /\ journal'[j].order = Stop
                  => journal[i].trigger <= journal'[j].trigger
<1>1. ASSUME PaperInv, [PaperNext]_paperVars, orders[Stop] # NoTerms
      PROVE  Tighter
  <2>1. /\ PaperTypes /\ RowsSay /\ Stop \in OrderNames
    BY <1>1 DEF PaperInv, OrderNames
  <2>2. orders[Stop].trigger \in Int
    BY <2>1 DEF PaperTypes, Terms
  <2>3. ASSUME UNCHANGED orders, DOMAIN journal' = DOMAIN journal PROVE Tighter
    BY <2>2, <2>3
  <2>4. CASE Onward \/ Protect \/ UNCHANGED paperVars
    <3>1. CASE Onward \/ UNCHANGED paperVars
      <4>1. UNCHANGED <<orders, journal>>
        BY <3>1 DEF Onward, ClearHalt, Crash, Reconcile, Guard, NextContext, Decline,
           Undescribable, Watch, Mark, Halt, AddFails, Refuse, paperVars, db
      <4> QED
        BY <2>3, <4>1
    <3>2. CASE Protect
      <4>1. UNCHANGED <<orders, journal>>
        BY <1>1, <3>2 DEF Protect, Create, IntentIsNew
      <4> QED
        BY <2>3, <4>1
    <3> QED
      BY <2>4, <3>1, <3>2
  <2>5. CASE \/ \E p \in MarketPrices : Move(p)
             \/ LinkOrder
    <3>1. UNCHANGED <<orders, journal>>
      BY <2>5 DEF Move, LinkOrder, db
    <3> QED
      BY <2>3, <3>1
  <2>6. CASE Settle
    <3>1. UNCHANGED orders /\ \E R : journal' = Receipts(R) \/ journal' = RolledBack(R)
      BY <2>6 DEF Settle
    <3>2. DOMAIN journal' = DOMAIN journal
      BY <3>1 DEF Receipts, RolledBack
    <3> QED
      BY <2>3, <3>1, <3>2
  <2>7. CASE \/ \E r \in Requests : Enter(r)
             \/ \E kind \in ExitKinds : Close(kind)
    <3>1. UNCHANGED journal
      BY <2>7 DEF Enter, Close
    <3>2. PICK o \in OrderNames :
             /\ o # Stop
             /\ \/ \E terms : orders' = [orders EXCEPT ![o] = terms]
                \/ orders' = orders
      <4>1. Entry # Stop /\ Entry \in OrderNames /\ \A kind \in ExitKinds :
               kind # Stop /\ kind \in OrderNames
        BY PaperAssumption DEF PaperAssumption, Stop, Entry, OrderNames
      <4> QED
        BY <2>7, <4>1 DEF Enter, Close, Create
    <3>3. orders'[Stop] = orders[Stop]
      BY <2>1, <3>2 DEF PaperTypes
    <3> QED
      BY <2>2, <3>1, <3>3
  <2>8. ASSUME NEW offset \in Offsets, NEW move \in AddMoves,
               AddToPosition(offset, move) \/ BreakEven(offset, move)
        PROVE  Tighter
    <3>1. HeldLong /\ Describable /\ UNCHANGED journal
      BY <2>8 DEF AddToPosition, BreakEven
    <3>2. EntryPrice \in Int /\ offset \in Int /\ Price(LastClose) \in Int
      <4>1. EntryPrice \in Int
        BY <1>1, <3>1, StopMoves
      <4>2. Price(LastClose) \in Int
        BY <2>1, MomentsArePriced
      <4> QED
        BY <4>1, <4>2, PaperAssumption DEF PaperAssumption
    <3>3. PICK proposed \in Int : \E next : MoveStop(NonWidening(proposed), next)
      <4>1. (EntryPrice + Price(LastClose)) \div 2 + offset \in Int /\ EntryPrice + offset \in Int
        BY <3>2
      <4> QED
        BY <2>8, <4>1 DEF AddToPosition, AddStop, BreakEven, BreakEvenStop
    <3>4. PICK price \in Int : price = NonWidening(proposed) /\ ActiveStop <= price
      BY <1>1, <3>1, StopMoves
    <3>5. orders'[Stop].trigger \in {ActiveStop, price}
      <4>1. CASE ActiveStop = price
        BY <3>3, <3>4, <4>1 DEF MoveStop, ActiveStop
      <4>2. CASE ActiveStop # price
        <5>1. orders' = [orders EXCEPT ![Stop].trigger = price]
          BY <3>3, <3>4, <4>2 DEF MoveStop
        <5>2. PICK terms \in Terms : terms = orders[Stop]
          BY <2>1 DEF PaperTypes
        <5>3. orders'[Stop] = [terms EXCEPT !.trigger = price]
          BY <2>1, <5>1, <5>2 DEF PaperTypes
        <5> QED
          BY <5>3 DEF Terms
      <4> QED
        BY <4>1, <4>2
    <3>6. orders[Stop].trigger = ActiveStop
      BY DEF ActiveStop
    <3> QED
      BY <2>2, <3>1, <3>4, <3>5, <3>6
  <2>9. CASE Stage \/ Replace
    <3>1. PICK rows : Staged(rows)
      BY <1>1, <2>9, SubmissionIsStaged
    <3>2. /\ UNCHANGED orders /\ journal' = Append(rows, PaperCommand) /\ rows \in Seq(PaperRows)
          /\ Len(rows) = Len(journal) /\ journal \in Seq(PaperRows)
      BY <2>1, <3>1 DEF Staged, PaperTypes
    <3>3. PICK n \in Nat : n = Len(journal) /\ DOMAIN journal = 1 .. n
      BY <3>2, LenProperties
    <3>4. DOMAIN journal' = 1 .. n + 1 /\ journal'[n + 1] = PaperCommand
      BY <3>2, <3>3
    <3>5. ASSUME NEW i \in DOMAIN journal, NEW j \in DOMAIN journal' \ DOMAIN journal,
                 journal[i].order = Stop, journal'[j].order = Stop
          PROVE  journal[i].trigger <= journal'[j].trigger
      <4>1. j = n + 1
        BY <3>3, <3>4
      <4>2. journal'[j].trigger = orders[Stop].trigger
        BY <3>4, <3>5, <4>1 DEF PaperCommand
      <4>3. journal[i].trigger <= orders[Stop].trigger
        BY <2>1, <3>5 DEF RowsSay, RowSays
      <4> QED
        BY <4>2, <4>3
    <3> QED
      BY <2>2, <3>2, <3>5
  <2> HIDE DEF Tighter
  <2> QED
    BY <1>1, <2>4, <2>5, <2>6, <2>7, <2>8, <2>9 DEF PaperNext, Onward
<1>2. PaperInv /\ [PaperNext]_paperVars => (orders[Stop] # NoTerms => Tighter)
  BY <1>1
<1>3. (orders[Stop] # NoTerms => Tighter) =>
         [trade.side = "BUY" /\ orders[Stop] # NoTerms => Tighter]_paperVars
  OBVIOUS
<1>4. PaperSpec => [][trade.side = "BUY" /\ orders[Stop] # NoTerms => Tighter]_paperVars
  <2> HIDE DEF Tighter
  <2> QED
    BY <1>2, <1>3, PaperInvAlways, PTL DEF PaperSpec
<1> QED
  BY <1>4 DEF StopOnlyTightens
=============================================================================
