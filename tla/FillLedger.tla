----------------------------- MODULE FillLedger -----------------------------
(***************************************************************************)
(* The ledger of executions: orders with the risk reserved for them, the   *)
(* broker's fills, and what they add up to.                                *)
(*                                                                         *)
(* An approval reserves risk under two budget anchors, GLOBAL and the      *)
(* account's; a fill turns reserved risk into position risk and moves the  *)
(* position, its lots and its lifecycle; a terminal order gives back what  *)
(* it did not use; an order found at the broker is adopted with its risk.  *)
(* Executions arrive in any order, again, with other contents under the    *)
(* same identity, beyond the quantity of their order and after the order   *)
(* was canceled and its reservation released.                              *)
(*                                                                         *)
(* Every operation is one transaction that locks the dispatch guard or the *)
(* anchors first, so each is one action.  An account trades one            *)
(* instrument.  The average cost, the charges, the stream watermark and    *)
(* the outbox message a fill also writes do not feed back into this state. *)
(***************************************************************************)
EXTENDS Totals

CONSTANTS
    Accounts,   \* trading accounts
    Global,     \* the key of the GLOBAL anchor
    Orders,     \* order identities
    Executions, \* broker execution identities; their order is that of executed_at
    Quantities, \* quantities of an order and of a fill
    Prices,     \* prices of a fill
    Risks,      \* amounts of risk to reserve
    HardLimit   \* RiskBudgetAnchor.hard_limit_amount

ASSUME LedgerAssumption ==
    /\ Global \notin Accounts
    /\ Executions \subseteq Nat
    /\ Quantities \subseteq Nat \ {0}
    /\ Prices \subseteq Nat
    /\ Risks \subseteq Nat
    /\ HardLimit \in Nat

VARIABLES
    order,       \* exec_order, its broker link, and its terminal order events
    reservation, \* risk_budget_reservation of each order
    anchor,      \* risk_budget_anchor: position risk and remaining reservations
    fill,        \* exec_fill, by account and execution identity
    position,    \* exec_position.quantity
    blocking,    \* exec_position.blocking_risk
    life,        \* the kind of the active position lifecycle
    lot,         \* remaining_quantity of the lot an execution opened
    incidents    \* the BLOCKING incidents raised, by reason and order

vars == <<order, reservation, anchor, fill, position, blocking, life, lot,
          incidents>>

-----------------------------------------------------------------------------
Sides    == {"BUY", "SELL"}
Terminal == {"FILLED", "CANCELED", "REJECTED", "EXPIRED"}
Statuses == Terminal \cup {"CREATED", "SUBMITTED", "ACKNOWLEDGED",
                           "PARTIALLY_FILLED", "CANCEL_PENDING", "UNKNOWN"}

(* OrderStateMachine._ALLOWED. *)
Allowed(status) ==
    CASE status = "CREATED"          -> {"SUBMITTED", "EXPIRED", "UNKNOWN"}
      [] status = "SUBMITTED"        -> {"ACKNOWLEDGED", "REJECTED", "CANCEL_PENDING",
                                         "CANCELED", "EXPIRED", "UNKNOWN"}
      [] status = "ACKNOWLEDGED"     -> {"PARTIALLY_FILLED", "FILLED", "CANCEL_PENDING",
                                         "CANCELED", "UNKNOWN"}
      [] status = "PARTIALLY_FILLED" -> {"PARTIALLY_FILLED", "FILLED", "CANCEL_PENDING",
                                         "CANCELED", "UNKNOWN"}
      [] status = "CANCEL_PENDING"   -> {"CANCELED", "PARTIALLY_FILLED", "FILLED",
                                         "UNKNOWN"}
      [] status = "UNKNOWN"          -> {"UNKNOWN"}
      [] OTHER                       -> {}

(* What dispatch writes into a link is not an OrderStatus. *)
LinkStatuses == Statuses \cup {"NONE", "ACTIVE"}
Lives        == {"NONE", "AUTHORIZED", "UNAUTHORIZED_OBSERVED"}
Reasons      == {"ORDER_OVERFILL", "LATE_FILL_AFTER_RESERVATION_RELEASE",
                 "FILL_RISK_EXCEEDS_RESERVATION",
                 "BROKER_EXECUTION_IDENTITY_PAYLOAD_CONFLICT",
                 "UNSEQUENCED_BROKER_STATUS_ORDERING_AMBIGUITY"}

NoOrder       == [account |-> "none"]
NoFill        == [order |-> "none"]
NoReservation == [initial |-> 0, consumed |-> 0, remaining |-> 0, released |-> 0,
                  status |-> "NONE"]

Keys    == Accounts \cup {Global}
Placed  == {o \in Orders : order[o] # NoOrder}
Smaller(m, n) == IF m < n THEN m ELSE n
Larger(m, n)  == IF m < n THEN n ELSE m

-----------------------------------------------------------------------------
Init ==
    /\ order = [o \in Orders |-> NoOrder]
    /\ reservation = [o \in Orders |-> NoReservation]
    /\ anchor = [k \in Keys |-> [position |-> 0, remaining |-> 0]]
    /\ fill = [a \in Accounts |-> [e \in Executions |-> NoFill]]
    /\ position = [a \in Accounts |-> 0]
    /\ blocking = [a \in Accounts |-> FALSE]
    /\ life = [a \in Accounts |-> "NONE"]
    /\ lot = [a \in Accounts |-> [e \in Executions |-> 0]]
    /\ incidents = {}

(* The row of a new order. *)
NewOrder(a, side, quantity, status, link, adopted) ==
    [account |-> a, side |-> side, requested |-> quantity, filled |-> 0,
     status |-> status, link |-> link, terminal |-> FALSE, adopted |-> adopted]

Reserved(risk, status) ==
    [initial |-> risk, consumed |-> 0, remaining |-> risk, released |-> 0,
     status |-> status]

(* Both anchors of an account take more, or less, in reservations. *)
Anchored(a, amount) ==
    [k \in Keys |-> IF k \in {Global, a}
                    THEN [anchor[k] EXCEPT !.remaining = @ + amount]
                    ELSE anchor[k]]

(* Plausible bug: what positions already risk is left out of the sum. *)
WithinLimitBug(a, risk) ==
    \A k \in {Global, a} : anchor[k].remaining + risk <= HardLimit

(* persist_approval: neither anchor may go over its limit. *)
WithinLimit(a, risk) ==
    \A k \in {Global, a} :
        anchor[k].position + anchor[k].remaining + risk <= HardLimit

OnlyOrders == UNCHANGED <<fill, position, blocking, life, lot, incidents>>

(* An APPROVE decision, its reservation and its order.  A repetition finds the *)
(* reservation and adds nothing.                                               *)
Approve(o, a, side, quantity, risk) ==
    /\ order[o] = NoOrder
    /\ WithinLimit(a, risk)
    /\ order' = [order EXCEPT ![o] = NewOrder(a, side, quantity, "CREATED", "NONE", FALSE)]
    /\ reservation' = [reservation EXCEPT ![o] = Reserved(risk, "ACTIVE")]
    /\ anchor' = Anchored(a, risk)
    /\ OnlyOrders

(* A REDUCE decision reserves nothing and asks no anchor. *)
Reduce(o, a, side, quantity) ==
    /\ order[o] = NoOrder
    /\ order' = [order EXCEPT ![o] = NewOrder(a, side, quantity, "CREATED", "NONE", FALSE)]
    /\ reservation' = [reservation EXCEPT ![o] = Reserved(0, "CONSUMED")]
    /\ UNCHANGED anchor
    /\ OnlyOrders

(* adopt_open_order: the order exists at the broker, so no limit is asked. *)
Adopt(o, a, side, quantity, risk) ==
    /\ order[o] = NoOrder
    /\ order' = [order EXCEPT ![o] = NewOrder(a, side, quantity, "UNKNOWN", "UNKNOWN", TRUE)]
    /\ reservation' = [reservation EXCEPT ![o] = Reserved(risk, "ACTIVE")]
    /\ anchor' = Anchored(a, risk)
    /\ OnlyOrders

(* record_accepted: see Dispatch. *)
Link(o) ==
    /\ o \in Placed
    /\ order[o].link = "NONE"
    /\ order' = [order EXCEPT ![o].link = "ACTIVE"]
    /\ UNCHANGED <<reservation, anchor>>
    /\ OnlyOrders

(* Raise an incident about an order. *)
Raised(o, reasons) == incidents \cup {<<reason, o>> : reason \in reasons}

(* The order and its link take a status, and an order event records it. *)
Moved(row, status) ==
    [row EXCEPT !.status = status, !.link = status,
                !.terminal = @ \/ status \in Terminal]

(* MySqlBrokerStatusStore._apply_one for an order with one link.  A link that *)
(* dispatch wrote does not parse, and the transaction fails.  A status that   *)
(* the machine refuses makes the order UNKNOWN.                               *)
ApplyStatus(o, status) ==
    LET allowed == status \in Allowed(order[o].status)
        next    == IF allowed THEN status ELSE "UNKNOWN"
    IN
    /\ o \in Placed
    /\ order[o].link \in Statuses
    /\ order' = [order EXCEPT ![o] = Moved(order[o], next)]
    /\ incidents' = Raised(o, IF allowed THEN {}
                              ELSE {"UNSEQUENCED_BROKER_STATUS_ORDERING_AMBIGUITY"})
    /\ UNCHANGED <<reservation, anchor, fill, position, blocking, life, lot>>

-----------------------------------------------------------------------------
(* Applying a fill. *)

Signed(side, quantity) == IF side = "BUY" THEN quantity ELSE -quantity

(* How much of a fill adds to a long position: the risk it is charged with and *)
(* the lot it opens.                                                           *)
Opening(side, quantity, previous) ==
    IF side = "SELL" THEN 0
    ELSE IF previous >= 0 THEN quantity ELSE Larger(0, quantity + previous)

(* Plausible bug: a fill that crosses zero closes and does not open. *)
NextLifeBug(previous, next, active) ==
    CASE previous = 0 /\ next # 0 -> "AUTHORIZED"
      [] previous * next < 0 \/ (previous # 0 /\ next = 0) -> "NONE"
      [] OTHER -> active

(* apply_lifecycle_transition: the active lifecycle after the fill. *)
NextLife(previous, next, active) ==
    CASE previous = 0 /\ next # 0 -> "AUTHORIZED"
      [] previous # 0 /\ next = 0 -> "NONE"
      [] previous * next < 0      -> "UNAUTHORIZED_OBSERVED"
      [] OTHER                    -> active

(* Plausible bug: every lot gives up the whole quantity of the sale. *)
ClosedBug(lots, quantity) == [e \in Executions |-> Larger(0, lots[e] - quantity)]

(* Lots are closed first in, first out, by executed_at. *)
Closed(lots, quantity) ==
    [e \in Executions |->
        LET earlier == Total([f \in {f \in Executions : f < e} |-> lots[f]])
        IN  lots[e] - Smaller(lots[e], Larger(0, quantity - earlier))]

NextLots(a, e, side, quantity) ==
    LET previous == position[a] IN
    IF side = "SELL" /\ previous > 0
    THEN Closed(lot[a], Smaller(previous, quantity))
    ELSE [lot[a] EXCEPT ![e] = Opening(side, quantity, previous)]

(* Plausible bug: more than enough counts as enough. *)
FilledStatusBug(total, requested) ==
    IF total >= requested THEN "FILLED" ELSE "PARTIALLY_FILLED"

(* The status of an order by what is filled of it. *)
FilledStatus(total, requested) ==
    IF total > requested THEN "UNKNOWN"
    ELSE IF total = requested THEN "FILLED" ELSE "PARTIALLY_FILLED"

(* The order after a fill, with the order event of its new status. *)
Filled(row, quantity) ==
    LET total  == row.filled + quantity
        status == FilledStatus(total, row.requested)
    IN [row EXCEPT !.filled = total, !.status = status,
                   !.terminal = @ \/ status \in Terminal]

(* Risk that was released is taken back first, then what remains. *)
Reclaimed(r, risk) == Smaller(r.released, risk)

FromRemaining(r, risk) == Smaller(r.remaining, risk - Reclaimed(r, risk))

(* Plausible bug: a late fill takes from what remains alone. *)
ConsumedBug(r, risk) ==
    [r EXCEPT !.consumed = @ + Reclaimed(r, risk) + FromRemaining(r, risk),
              !.remaining = @ - FromRemaining(r, risk)]

(* The reservation after a fill. *)
Consumed(r, risk) ==
    LET released  == r.released - Reclaimed(r, risk)
        remaining == r.remaining - FromRemaining(r, risk)
    IN [r EXCEPT !.consumed = @ + Reclaimed(r, risk) + FromRemaining(r, risk),
                 !.released = released,
                 !.remaining = remaining,
                 !.status = IF remaining # 0 \/ released # 0
                            THEN "PARTIALLY_CONSUMED" ELSE "CONSUMED"]

(* Both anchors after a fill. *)
Charged(a, r, risk) ==
    [k \in Keys |-> IF k \in {Global, a}
                    THEN [position  |-> anchor[k].position + risk,
                          remaining |-> anchor[k].remaining - FromRemaining(r, risk)]
                    ELSE anchor[k]]

(* What a fill is reported for. *)
FillReasons(r, risk, overfill) ==
    (IF overfill THEN {"ORDER_OVERFILL"} ELSE {})
    \cup (IF Reclaimed(r, risk) > 0 THEN {"LATE_FILL_AFTER_RESERVATION_RELEASE"} ELSE {})
    \cup (IF risk > Reclaimed(r, risk) + FromRemaining(r, risk)
          THEN {"FILL_RISK_EXCEEDS_RESERVATION"} ELSE {})

Execution(o, quantity, price) == [order |-> o, quantity |-> quantity, price |-> price]

(* Plausible bug: what identifies an execution includes what it says. *)
UnseenBug(a, e, x) == fill[a][e] # x

(* persist_once: an execution is known by its identity alone. *)
Unseen(a, e, x) == fill[a][e] = NoFill

(* MySqlFillStore.apply_event_once, for an execution not seen before. *)
ApplyFill(o, e, quantity, price) ==
    LET a     == order[o].account
        side  == order[o].side
        next  == position[a] + Signed(side, quantity)
        risk  == price * Opening(side, quantity, position[a])
        r     == reservation[o]
        overfill == order[o].filled + quantity > order[o].requested
    IN
    /\ o \in Placed
    /\ order[o].link # "NONE"
    /\ Unseen(a, e, Execution(o, quantity, price))
    /\ fill' = [fill EXCEPT ![a][e] = Execution(o, quantity, price)]
    /\ order' = [order EXCEPT ![o] = Filled(order[o], quantity)]
    /\ position' = [position EXCEPT ![a] = next]
    /\ blocking' = [blocking EXCEPT ![a] = @ \/ next < 0]
    /\ life' = [life EXCEPT ![a] = NextLife(position[a], next, @)]
    /\ lot' = [lot EXCEPT ![a] = NextLots(a, e, side, quantity)]
    /\ reservation' = [reservation EXCEPT ![o] = Consumed(r, risk)]
    /\ anchor' = Charged(a, r, risk)
    /\ incidents' = Raised(o, FillReasons(r, risk, overfill))

(* An execution seen before: nothing if it says the same, an incident about  *)
(* the order of the first one otherwise.                                     *)
RepeatFill(o, e, quantity, price) ==
    LET seen == fill[order[o].account][e] IN
    /\ o \in Placed
    /\ order[o].link # "NONE"
    /\ seen # NoFill
    /\ seen # Execution(o, quantity, price)
    /\ incidents' = Raised(seen.order, {"BROKER_EXECUTION_IDENTITY_PAYLOAD_CONFLICT"})
    /\ UNCHANGED <<order, reservation, anchor, fill, position, blocking, life, lot>>

(* Plausible bug: the anchors are given back what the order reserved at first. *)
GivenBackBug(r) == r.initial

(* What a release gives back to the anchors. *)
GivenBack(r) == r.remaining

(* release_if_complete: a terminal order event, every link terminal, and a    *)
(* proof that no execution is missing, which may turn out to be wrong.        *)
Release(o) ==
    LET r == reservation[o]
        a == order[o].account
    IN
    /\ o \in Placed
    /\ order[o].link \in Terminal
    /\ order[o].terminal
    /\ r.remaining # 0
    /\ \A k \in {Global, a} : anchor[k].remaining >= GivenBack(r)
    /\ anchor' = Anchored(a, -GivenBack(r))
    /\ reservation' = [reservation EXCEPT ![o] =
           [r EXCEPT !.remaining = 0, !.released = @ + r.remaining,
                     !.status = "RELEASED"]]
    /\ UNCHANGED order
    /\ OnlyOrders

-----------------------------------------------------------------------------
Placing(o) ==
    \E a \in Accounts, side \in Sides, quantity \in Quantities :
        \/ Reduce(o, a, side, quantity)
        \/ \E risk \in Risks :
              \/ Approve(o, a, side, quantity, risk)
              \/ Adopt(o, a, side, quantity, risk)

Executing(o) ==
    \E e \in Executions, quantity \in Quantities, price \in Prices :
        \/ ApplyFill(o, e, quantity, price)
        \/ RepeatFill(o, e, quantity, price)

Next ==
    \E o \in Orders :
        \/ Placing(o)
        \/ Link(o)
        \/ \E status \in Statuses : ApplyStatus(o, status)
        \/ Executing(o)
        \/ Release(o)

Spec == Init /\ [][Next]_vars

-----------------------------------------------------------------------------
OrderRows == [account : Accounts, side : Sides, requested : Quantities, filled : Nat,
              status : Statuses, link : LinkStatuses, terminal : BOOLEAN,
              adopted : BOOLEAN]

ReservationRows == [initial : Nat, consumed : Nat, remaining : Nat, released : Nat,
                    status : {"NONE", "ACTIVE", "PARTIALLY_CONSUMED", "CONSUMED",
                              "RELEASED"}]

RowsTyped ==
    /\ order \in [Orders -> {NoOrder} \cup OrderRows]
    /\ reservation \in [Orders -> ReservationRows]
    /\ anchor \in [Keys -> [position : Nat, remaining : Int]]
    /\ fill \in [Accounts -> [Executions -> {NoFill} \cup
                    [order : Orders, quantity : Quantities, price : Prices]]]
    /\ position \in [Accounts -> Int]
    /\ blocking \in [Accounts -> BOOLEAN]
    /\ life \in [Accounts -> Lives]
    /\ incidents \subseteq Reasons \X Orders

TypeOK == RowsTyped /\ lot \in [Accounts -> [Executions -> Nat]]

Received == {x \in Accounts \X Executions : fill[x[1]][x[2]] # NoFill}
FillsOf(o) == {x \in Received : fill[x[1]][x[2]].order = o}
OpenLots(a) == {e \in Executions : lot[a][e] # 0}
OrdersUnder(k) == {o \in Placed : k \in {Global, order[o].account}}

(* Every execution is counted once, in its order and in its account's position, *)
(* whatever is repeated or contradicted (fills.py persist_once).                *)
QuantitiesAddUp ==
    /\ \A o \in Placed :
          order[o].filled = Total([x \in FillsOf(o) |-> fill[x[1]][x[2]].quantity])
    /\ \A a \in Accounts :
          position[a] = Total([o \in OrdersUnder(a) |->
                                  Signed(order[o].side, order[o].filled)])

(* The open lots are the long position, in whatever order purchases and sales  *)
(* arrive (fills.py, the FIFO loop and the lineage).                           *)
LotsAreThePosition ==
    \A a \in Accounts :
        Total([e \in OpenLots(a) |-> lot[a][e]]) = Larger(0, position[a])

(* Both: what is held is every execution once, lot by lot. *)
PositionAddsUp == QuantitiesAddUp /\ LotsAreThePosition

(* A lifecycle is active exactly while the account is not flat, and a position *)
(* that was ever short blocks (lifecycle.py, fills.py).                        *)
LifecycleFollowsPosition ==
    \A a \in Accounts :
        /\ life[a] = "NONE" <=> position[a] = 0
        /\ position[a] < 0 => blocking[a]

(* The anchors hold what the reservations under them have left, never less     *)
(* than nothing, and the position risk is what the reservations consumed       *)
(* unless a fill was reported to exceed its own (service.py, fills.py,         *)
(* terminal_release_store.py).                                                 *)
AnchorsAddUp ==
    \A k \in Keys :
        LET under    == OrdersUnder(k)
            consumed == Total([o \in under |-> reservation[o].consumed])
        IN /\ anchor[k].remaining = Total([o \in under |-> reservation[o].remaining])
           /\ anchor[k].position >= consumed
           /\ (\A o \in under : <<"FILL_RISK_EXCEEDS_RESERVATION", o>> \notin incidents)
                 => anchor[k].position = consumed

(* A reservation is spent, left or given back, and its status says which. *)
Balanced(r) ==
    /\ r.consumed + r.remaining + r.released = r.initial
    /\ r.status = "ACTIVE" => r.remaining = r.initial
    /\ r.status = "CONSUMED" => r.consumed = r.initial
    /\ r.status = "RELEASED" => r.remaining = 0
    /\ r.status = "PARTIALLY_CONSUMED" => r.remaining + r.released > 0

(* No risk is lost or counted twice between what an order spent, has left and  *)
(* gave back, through late fills and releases (fills.py,                       *)
(* terminal_release_store.py).                                                 *)
ReservationBalances == \A o \in Placed : Balanced(reservation[o])

(* Both: no risk is lost or counted twice, in a reservation or above it. *)
RiskAddsUp == AnchorsAddUp /\ ReservationBalances

(* The hard limit holds for everything the service itself decided, until an    *)
(* incident says that a fill exceeded or outlived its reservation.             *)
LimitHolds ==
    /\ \A o \in Placed : ~order[o].adopted
    /\ \A o \in Orders :
          /\ <<"FILL_RISK_EXCEEDS_RESERVATION", o>> \notin incidents
          /\ <<"LATE_FILL_AFTER_RESERVATION_RELEASE", o>> \notin incidents
    => \A k \in Keys : anchor[k].position + anchor[k].remaining <= HardLimit

(* An order filled beyond its quantity is reported and, whatever statuses and   *)
(* fills follow, never shown as anything but UNKNOWN again (fills.py).          *)
OverfillIsReported ==
    \A o \in Placed : order[o].filled > order[o].requested =>
        /\ <<"ORDER_OVERFILL", o>> \in incidents
        /\ order[o].status = "UNKNOWN"
=============================================================================
