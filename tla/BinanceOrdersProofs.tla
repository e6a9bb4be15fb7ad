------------------------- MODULE BinanceOrdersProofs -------------------------
(***************************************************************************)
(* BinanceOrders holds for any number of posts and any number of deaths.   *)
(***************************************************************************)
EXTENDS BinanceOrders, TLAPS

(* What the process waits for fits what it works on. *)
AtWork ==
    /\ \A o \in Orders : posted[o] <= executed[o]
    /\ pc = "post" => target \in Orders /\ journal[target] = "PREPARED"
    /\ pc \in {"place", "find"} => target \in Placements /\ stops[target] # "NONE"
    /\ pc = "withdraw" => target = First /\ stops[Move] = "ACTIVE"
    /\ pc \in {"close", "safety"} => guarding \in Placements

Typing == TypeOK /\ AtWork

(* What the process carried out its record does not offer to send again, and a *)
(* record that says acknowledged was carried out, the committed one as well.   *)
RecordKnows ==
    \A o \in Orders :
        /\ posted[o] # 0 => posted[o] = 1 /\ journal[o] \in {"ACKNOWLEDGED", "AMBIGUOUS"}
        /\ "ACKNOWLEDGED" \in {journal[o], saved.journal[o]} => executed[o] > 0

(* Nothing is protected before the entry is filled. *)
EntryFirst ==
    \/ executed[Entry] > 0
    \/ /\ ~open /\ guarding = Nothing
       /\ \A p \in Placements :
            atVenue[p] = "none" /\ stops[p] = "NONE" /\ saved.stops[p] = "NONE"

(* A stop recorded as working was placed, and while the entry's one position is *)
(* open, a stop is gone from the venue only where the one that replaced it works. *)
StopsPlaced ==
    /\ \A p \in Placements : "ACTIVE" \in {stops[p], saved.stops[p]} => atVenue[p] # "none"
    /\ open /\ executed[Entry] = 1 /\ "gone" \in {atVenue[p] : p \in Placements}
         => atVenue[Move] = "working"

(* An emergency close is on record, here or committed, only of a position that *)
(* is gone from a halted account.                                              *)
ClosedForGood ==
    executed[Entry] = 1
    /\ (\E p \in Placements : "EMERGENCY_CLOSED" \in {stops[p], saved.stops[p]})
        => ~open /\ halted
-----------------------------------------------------------------------------
(* The four names are four things. *)
LEMMA Names ==
    /\ First # Move /\ Entry # Close /\ Nothing \notin Placements /\ Nothing \notin Orders
    /\ First \in Placements /\ Move \in Placements /\ Entry \in Orders /\ Close \in Orders
    /\ Placements \cap Orders = {}
BY BinanceAssumption DEF BinanceAssumption, Placements, Orders

(* After an order's outcome the process is free, or the fail safe goes on. *)
LEMMA Answering ==
    ASSUME Answer
    PROVE  \/ pc' = "idle" /\ target' = Nothing
           \/ pc' = "safety" /\ target' = guarding /\ guarding # Nothing
<1>1. CASE guarding = Nothing
  <2>1. Done
    BY <1>1 DEF Answer
  <2> QED
    BY <2>1 DEF Done
<1>2. CASE guarding # Nothing
  <2>1. Wait("safety", guarding)
    BY <1>2 DEF Answer
  <2> QED
    BY <1>2, <2>1 DEF Wait
<1> QED
  BY <1>1, <1>2

(* What the order's own steps do: its record changes, or not, and the process   *)
(* goes on with it or answers.                                                  *)
LEMMA OrderStepTypes ==
    ASSUME Typing, NEW o \in Orders, PostOrder(o) \/ QueryOrder(o)
    PROVE  Typing'
<1> USE Names DEF Typing
<1>1. CASE PostOrder(o)
  <2>1. journal' \in [Orders -> OrderStates]
    BY <1>1 DEF PostOrder, Acknowledged, RefusedOrder, NotSent, UnknownOrder, Finish, TypeOK,
       OrderStates
  <2>2. /\ executed' \in [Orders -> 0 .. MaxPosts] /\ posted' \in [Orders -> 0 .. MaxPosts]
        /\ \A q \in Orders : posted'[q] <= executed'[q]
        /\ atVenue' = atVenue /\ open' \in BOOLEAN
    <3>1. CASE Execute(o)
      BY <3>1, BinanceAssumption DEF Execute, TypeOK, AtWork, BinanceAssumption
    <3>2. CASE UNCHANGED venue
      BY <3>2 DEF venue, TypeOK, AtWork
    <3> QED
      BY <1>1, <3>1, <3>2 DEF PostOrder, Acknowledged, RefusedOrder, NotSent, UnknownOrder
  <2>3. \/ pc' = "query" /\ target' = o
        \/ pc' = "idle" /\ target' = Nothing
        \/ pc' = "safety" /\ target' = guarding /\ guarding # Nothing
    <3>1. Wait("query", o) \/ Answer
      BY <1>1 DEF PostOrder
    <3> QED
      BY <3>1, Answering DEF Wait
  <2>4. UNCHANGED <<stops, saved, guarding, authority, late, halted, closedBy, crashes>>
    BY <1>1 DEF PostOrder, facts
  <2> QED
    BY <2>1, <2>2, <2>3, <2>4 DEF TypeOK, AtWork
<1>2. CASE QueryOrder(o)
  <2>1. journal' \in [Orders -> OrderStates]
    BY <1>2 DEF QueryOrder, Finish, TypeOK, OrderStates
  <2>2. \/ pc' = "idle" /\ target' = Nothing
        \/ pc' = "safety" /\ target' = guarding /\ guarding # Nothing
    <3>1. Answer
      BY <1>2 DEF QueryOrder
    <3> QED
      BY <3>1, Answering
  <2>3. UNCHANGED <<stops, saved, guarding, venue, authority, late, halted, closedBy, crashes>>
    BY <1>2 DEF QueryOrder, facts
  <2> QED
    BY <2>1, <2>2, <2>3 DEF TypeOK, AtWork, venue
<1> QED
  BY <1>1, <1>2

(* So do the placement's. *)
LEMMA StopStepTypes ==
    ASSUME Typing, NEW p \in Placements, PostStop(p) \/ FindStop(p) \/ Withdraw(p)
    PROVE  Typing'
<1> USE Names DEF Typing
<1>1. /\ stops' \in [Placements -> StopStates]
      /\ stops'[p] # "NONE" \/ stops' = stops
  BY DEF PostStop, FindStop, Withdraw, Confirmed, Unreadable, Unknown, Refused, Keep, TypeOK,
     StopStates
<1>2. /\ atVenue' \in [Placements -> {"none", "working", "gone"}]
      /\ UNCHANGED <<executed, posted, open>>
  BY DEF PostStop, FindStop, Withdraw, Working, venue, TypeOK
<1>3. \/ pc' = "idle" /\ target' = Nothing /\ guarding' = guarding
      \/ pc' = "close" /\ target' = p /\ guarding' = p
      \/ /\ pc' = "withdraw" /\ target' = First /\ guarding' = guarding
         /\ p = Move /\ stops' = [stops EXCEPT ![Move] = "ACTIVE"]
  BY DEF PostStop, FindStop, Withdraw, Confirmed, Unreadable, Unknown, Refused, Keep, Report,
     Done, FailSafe, Wait
<1>4. UNCHANGED <<journal, saved, authority, late, halted, closedBy, crashes>>
  BY DEF PostStop, FindStop, Withdraw, facts
<1> QED
  BY <1>1, <1>2, <1>3, <1>4 DEF TypeOK, AtWork

(* And what starts them. *)
LEMMA StartTypes ==
    ASSUME Typing,
           \/ Submit \/ Recover \/ ProtectFirstFill \/ MoveStop
           \/ \E p \in Placements : RecoverStop(p)
    PROVE  Typing'
<1> USE Names DEF Typing
<1>1. CASE Submit
  <2>1. /\ journal' \in [Orders -> OrderStates] /\ target' = Entry
        /\ (pc' = "post" /\ journal'[Entry] = "PREPARED") \/ pc' = "query"
    BY <1>1 DEF Submit, SubmitLocked, Claim, Finish, Wait, TypeOK, OrderStates
  <2>2. UNCHANGED <<stops, saved, venue, guarding, authority, late, halted, closedBy, crashes>>
    BY <1>1 DEF Submit, facts
  <2> QED
    BY <2>1, <2>2 DEF TypeOK, AtWork, venue
<1>2. CASE Recover
  BY <1>2 DEF Recover, Wait, TypeOK, AtWork, tables, venue, facts
<1>3. CASE ProtectFirstFill
  <2>1. /\ stops' \in [Placements -> StopStates]
        /\ \/ pc' = "close" /\ target' = First /\ guarding' = First
           \/ /\ pc' \in {"place", "find"} /\ target' = First /\ guarding' = guarding
              /\ stops'[First] # "NONE"
    BY <1>3 DEF ProtectFirstFill, Keep, FailSafe, Wait, TypeOK, StopStates
  <2>2. UNCHANGED <<journal, saved, venue, authority, late, halted, closedBy, crashes>>
    BY <1>3 DEF ProtectFirstFill, facts
  <2> QED
    BY <2>1, <2>2 DEF TypeOK, AtWork, venue
<1>4. CASE MoveStop
  <2>1. /\ stops' \in [Placements -> StopStates]
        /\ \/ pc' = "close" /\ target' = Move /\ guarding' = Move
           \/ /\ pc' \in {"place", "find"} /\ target' = Move /\ guarding' = guarding
              /\ stops'[Move] # "NONE"
    BY <1>4 DEF MoveStop, Keep, FailSafe, Wait, TypeOK, StopStates
  <2>2. UNCHANGED <<journal, saved, venue, authority, late, halted, closedBy, crashes>>
    BY <1>4 DEF MoveStop, facts
  <2> QED
    BY <2>1, <2>2 DEF TypeOK, AtWork, venue
<1>5. ASSUME NEW p \in Placements, RecoverStop(p) PROVE Typing'
  <2>1. /\ pc' = "find" /\ target' = p /\ stops[p] # "NONE"
        /\ UNCHANGED <<journal, stops, saved, venue, guarding, authority, late, halted,
                       closedBy, crashes>>
    BY <1>5 DEF RecoverStop, Wait, tables, facts
  <2> QED
    BY <2>1 DEF TypeOK, AtWork, venue
<1> QED
  BY <1>1, <1>2, <1>3, <1>4, <1>5

(* The fail safe keeps them too. *)
LEMMA FailSafeTypes ==
    ASSUME Typing, EmergencyClose \/ Safety
    PROVE  Typing'
<1> USE Names DEF Typing
<1>1. CASE EmergencyClose
  <2>1. /\ journal' \in [Orders -> OrderStates]
        /\ \/ /\ target' = Close
              /\ (pc' = "post" /\ journal'[Close] = "PREPARED") \/ pc' = "query"
           \/ pc' = "safety" /\ target' = guarding
    BY <1>1 DEF EmergencyClose, SubmitLocked, Claim, Finish, Wait, TypeOK, OrderStates
  <2>2. /\ UNCHANGED <<stops, saved, venue, guarding, authority, late, halted, crashes>>
        /\ guarding \in Placements /\ closedBy' = closedBy \cup {guarding}
    BY <1>1 DEF EmergencyClose, facts, AtWork
  <2> QED
    BY <2>1, <2>2 DEF TypeOK, AtWork, venue
<1>2. CASE Safety
  <2>1. /\ stops' \in [Placements -> StopStates] /\ halted' \in BOOLEAN
        /\ pc' = "idle" /\ target' = Nothing /\ guarding' = Nothing
    BY <1>2 DEF Safety, Keep, Done, TypeOK, StopStates
  <2>2. UNCHANGED <<journal, saved, venue, authority, late, closedBy, crashes>>
    BY <1>2 DEF Safety
  <2> QED
    BY <2>1, <2>2 DEF TypeOK, AtWork, venue
<1> QED
  BY <1>1, <1>2

(* And so does the world around the process. *)
LEMMA WorldTypes ==
    ASSUME Typing,
           \/ \E o \in Orders : ChangeAuthority(o)
           \/ \E p \in Placements : Trigger(p)
           \/ PassDeadline \/ Commit \/ Crash \/ UNCHANGED vars
    PROVE  Typing'
<1> USE Names DEF Typing
<1>1. ASSUME NEW o \in Orders, ChangeAuthority(o) PROVE Typing'
  BY <1>1 DEF ChangeAuthority, TypeOK, AtWork, tables, venue, process
<1>2. ASSUME NEW p \in Placements, Trigger(p) PROVE Typing'
  BY <1>2 DEF Trigger, TypeOK, AtWork, tables, process, facts
<1>3. CASE PassDeadline
  BY <1>3 DEF PassDeadline, TypeOK, AtWork, tables, venue, process
<1>4. CASE Commit
  BY <1>4 DEF Commit, TypeOK, AtWork, tables, venue, process, facts
<1>5. CASE Crash
  <2>1. /\ journal' = saved.journal /\ stops' = saved.stops /\ posted' = [o \in Orders |-> 0]
        /\ pc' = "idle" /\ target' = Nothing /\ guarding' = Nothing
        /\ crashes' = crashes + 1 /\ crashes < MaxCrashes
        /\ UNCHANGED <<saved, executed, atVenue, open, authority, late, halted, closedBy>>
    BY <1>5 DEF Crash, facts
  <2> QED
    BY <2>1, BinanceAssumption DEF TypeOK, AtWork, BinanceAssumption
<1>6. CASE UNCHANGED vars
  BY <1>6 DEF vars, tables, venue, process, facts, TypeOK, AtWork
<1> QED
  BY <1>1, <1>2, <1>3, <1>4, <1>5, <1>6

LEMMA TypingAlways == Spec => []Typing
<1>1. Init => Typing
  <2> SUFFICES ASSUME Init PROVE Typing
    OBVIOUS
  <2>1. journal \in [Orders -> OrderStates] /\ stops \in [Placements -> StopStates]
    BY DEF Init, OrderStates, StopStates
  <2>2. saved \in [journal : [Orders -> OrderStates], stops : [Placements -> StopStates]]
    BY <2>1 DEF Init
  <2>3. executed \in [Orders -> 0 .. MaxPosts] /\ posted \in [Orders -> 0 .. MaxPosts]
        /\ \A o \in Orders : posted[o] <= executed[o]
    BY BinanceAssumption DEF Init, BinanceAssumption
  <2>4. atVenue \in [Placements -> {"none", "working", "gone"}] /\ authority \in [Orders -> BOOLEAN]
    BY DEF Init
  <2>5. /\ open = FALSE /\ late = FALSE /\ halted = FALSE /\ pc = "idle"
        /\ target = Nothing /\ guarding = Nothing /\ closedBy = {} /\ crashes \in 0 .. MaxCrashes
    BY BinanceAssumption DEF Init, BinanceAssumption
  <2> QED
    BY <2>1, <2>2, <2>3, <2>4, <2>5 DEF Typing, TypeOK, AtWork
<1>2. Typing /\ [Next]_vars => Typing'
  BY OrderStepTypes, StopStepTypes, StartTypes, FailSafeTypes, WorldTypes DEF Next
<1> QED
  BY <1>1, <1>2, PTL DEF Spec

(* The journals, the venue's facts and the process keep their types            *)
(* (orders.py and algo_orders.py write nothing else).                          *)
THEOREM TypeCorrect == Spec => []TypeOK
<1>1. Typing => TypeOK
  BY DEF Typing
<1> QED
  BY <1>1, TypingAlways, PTL

-----------------------------------------------------------------------------
(* An order is carried out at most once for each record that was claimed. *)
LEMMA PostKnows ==
    ASSUME Typing, RecordKnows, NEW o \in Orders, PostOrder(o)
    PROVE  RecordKnows'
<1>1. journal[o] = "PREPARED" /\ UNCHANGED saved
  BY DEF PostOrder, Typing, AtWork
<1>2. posted[o] = 0
  BY <1>1 DEF RecordKnows
<1>3. \/ /\ Execute(o) /\ \E s \in {"ACKNOWLEDGED", "AMBIGUOUS"} : Finish(o, s)
      \/ /\ UNCHANGED venue /\ \E s \in {"REJECTED", "NOT_SENT", "AMBIGUOUS"} : Finish(o, s)
  BY DEF PostOrder, Acknowledged, RefusedOrder, NotSent, UnknownOrder
<1>4. ASSUME NEW q \in Orders, q # o
      PROVE  journal'[q] = journal[q] /\ posted'[q] = posted[q] /\ executed'[q] = executed[q]
  BY <1>3, <1>4 DEF Finish, Execute, venue, Typing, TypeOK
<1>5. /\ executed[o] \in Nat /\ executed'[o] >= executed[o]
      /\ posted'[o] # 0 => posted'[o] = 1 /\ journal'[o] \in {"ACKNOWLEDGED", "AMBIGUOUS"}
      /\ journal'[o] = "ACKNOWLEDGED" => executed'[o] > 0
  <2>1. CASE Execute(o) /\ \E s \in {"ACKNOWLEDGED", "AMBIGUOUS"} : Finish(o, s)
    BY <1>2, <2>1 DEF Finish, Execute, Typing, TypeOK
  <2>2. CASE UNCHANGED venue /\ \E s \in {"REJECTED", "NOT_SENT", "AMBIGUOUS"} : Finish(o, s)
    BY <1>2, <2>2 DEF Finish, venue, Typing, TypeOK
  <2> QED
    BY <1>3, <2>1, <2>2
<1>6. ASSUME NEW q \in Orders
      PROVE  /\ posted'[q] # 0 => posted'[q] = 1 /\ journal'[q] \in {"ACKNOWLEDGED", "AMBIGUOUS"}
             /\ "ACKNOWLEDGED" \in {journal'[q], saved'.journal[q]} => executed'[q] > 0
  <2>1. CASE q = o
    <3>1. executed[o] > 0 => executed'[o] > 0
      <4>1. executed'[o] \in Nat
        BY <1>3 DEF Execute, venue, Typing, TypeOK
      <4> QED
        BY <1>5, <4>1
    <3>2. "ACKNOWLEDGED" = saved.journal[o] => executed'[o] > 0
      BY <3>1 DEF RecordKnows
    <3> QED
      BY <1>1, <1>5, <2>1, <3>2
  <2>2. CASE q # o
    BY <1>1, <1>4, <2>2 DEF RecordKnows
  <2> QED
    BY <2>1, <2>2
<1> QED
  BY <1>6 DEF RecordKnows

(* A record is claimed only where nothing was carried out. *)
LEMMA ClaimKnows ==
    ASSUME Typing, RecordKnows, NEW o \in Orders, SubmitLocked(o),
           UNCHANGED <<saved, venue>>
    PROVE  RecordKnows'
<1>1. CASE UNCHANGED journal
  BY <1>1 DEF RecordKnows, venue
<1>2. CASE Sendable(o) /\ journal' = [journal EXCEPT ![o] = "PREPARED"]
  <2>1. posted[o] = 0
    BY <1>2 DEF Sendable, RecordKnows
  <2>2. \A q \in Orders : journal'[q] = IF q = o THEN "PREPARED" ELSE journal[q]
    BY <1>2 DEF Typing, TypeOK
  <2> QED
    BY <2>1, <2>2 DEF RecordKnows, venue
<1> QED
  BY <1>1, <1>2 DEF SubmitLocked, Claim, Finish

LEMMA RecordKnowsAlways == Spec => []RecordKnows
<1>1. Init => RecordKnows
  BY DEF Init, RecordKnows
<1>2. Typing /\ RecordKnows /\ [Next]_vars => RecordKnows'
  <2> SUFFICES ASSUME Typing, RecordKnows, [Next]_vars PROVE RecordKnows'
    OBVIOUS
  <2>1. ASSUME UNCHANGED <<journal, saved, executed, posted>> PROVE RecordKnows'
    BY <2>1 DEF RecordKnows
  <2>2. ASSUME NEW o \in Orders, PostOrder(o) PROVE RecordKnows'
    BY <2>2, PostKnows
  <2>3. ASSUME NEW o \in Orders, QueryOrder(o) PROVE RecordKnows'
    <3>1. UNCHANGED <<saved, executed, posted>>
      BY <2>3 DEF QueryOrder, venue
    <3>2. CASE UNCHANGED journal
      BY <2>1, <3>1, <3>2
    <3>3. CASE executed[o] > 0 /\ journal' = [journal EXCEPT ![o] = "ACKNOWLEDGED"]
      <4>1. \A q \in Orders : journal'[q] = IF q = o THEN "ACKNOWLEDGED" ELSE journal[q]
        BY <3>3 DEF Typing, TypeOK
      <4> QED
        BY <3>1, <3>3, <4>1 DEF RecordKnows
    <3> QED
      BY <2>3, <3>2, <3>3 DEF QueryOrder, Finish
  <2>4. CASE Submit
    BY <2>4, ClaimKnows, Names DEF Submit
  <2>5. CASE EmergencyClose
    <3>1. CASE SubmitLocked(Close)
      BY <2>5, <3>1, ClaimKnows, Names DEF EmergencyClose
    <3>2. CASE UNCHANGED journal
      BY <2>1, <2>5, <3>2 DEF EmergencyClose, venue
    <3> QED
      BY <2>5, <3>1, <3>2 DEF EmergencyClose
  <2>6. CASE Commit
    <3>1. saved'.journal = journal /\ UNCHANGED <<journal, executed, posted>>
      BY <2>6 DEF Commit, tables, venue
    <3> QED
      BY <3>1 DEF RecordKnows
  <2>7. CASE Crash
    <3>1. journal' = saved.journal /\ UNCHANGED <<saved, executed>> /\ posted' = [o \in Orders |-> 0]
      BY <2>7 DEF Crash
    <3> QED
      BY <3>1 DEF RecordKnows
  <2>8. CASE \/ \E o \in Orders : ChangeAuthority(o)
             \/ PassDeadline \/ Recover \/ ProtectFirstFill \/ MoveStop \/ Safety
             \/ \E p \in Placements :
                  Trigger(p) \/ RecoverStop(p) \/ PostStop(p) \/ FindStop(p) \/ Withdraw(p)
             \/ UNCHANGED vars
    <3>1. UNCHANGED <<journal, saved, executed, posted>>
      BY <2>8 DEF ChangeAuthority, PassDeadline, Recover, ProtectFirstFill, MoveStop, Safety,
         Trigger, RecoverStop, PostStop, Working, FindStop, Withdraw, vars, tables, venue
    <3> QED
      BY <2>1, <3>1
  <2> QED
    BY <2>2, <2>3, <2>4, <2>5, <2>6, <2>7, <2>8 DEF Next
<1> QED
  BY <1>1, <1>2, TypingAlways, PTL DEF Spec

(* While a process lives (orders.py, submit_locked) no order of it is carried  *)
(* out twice, for any number of submissions, recoveries and deaths: a record   *)
(* that may have been carried out is never claimed again.                      *)
THEOREM OncePerLifeAlways == Spec => []OncePerLife
<1>1. Typing /\ RecordKnows => OncePerLife
  BY DEF Typing, TypeOK, RecordKnows, OncePerLife
<1> QED
  BY <1>1, TypingAlways, RecordKnowsAlways, PTL

-----------------------------------------------------------------------------
(* What the venue has carried out it has carried out: the counts do not fall,  *)
(* a stop that was placed stays placed or is gone, a halt stands, and only the  *)
(* entry opens a position.                                                      *)
LEMMA VenueRemembers ==
    ASSUME Typing, [Next]_vars
    PROVE  /\ executed'[Entry] >= executed[Entry] /\ executed'[Entry] \in Nat
           /\ executed'[Entry] = executed[Entry] => (open' => open)
           /\ \A p \in Placements : atVenue[p] # "none" => atVenue'[p] # "none"
           /\ halted => halted'
<1> USE Names DEF Typing
<1>1. ASSUME UNCHANGED venue
      PROVE  /\ executed'[Entry] >= executed[Entry] /\ executed'[Entry] \in Nat
             /\ executed'[Entry] = executed[Entry] => (open' => open)
             /\ \A p \in Placements : atVenue[p] # "none" => atVenue'[p] # "none"
  BY <1>1 DEF venue, TypeOK
<1>2. ASSUME NEW o \in Orders, Execute(o)
      PROVE  /\ executed'[Entry] >= executed[Entry] /\ executed'[Entry] \in Nat
             /\ executed'[Entry] = executed[Entry] => (open' => open)
             /\ UNCHANGED atVenue
  <2>1. CASE o = Entry
    BY <1>2, <2>1 DEF Execute, TypeOK
  <2>2. CASE o # Entry
    BY <1>2, <2>2 DEF Execute, TypeOK
  <2> QED
    BY <2>1, <2>2
<1>3. ASSUME NEW p \in Placements, Trigger(p) \/ Working(p) \/ Withdraw(p)
      PROVE  /\ executed'[Entry] >= executed[Entry] /\ executed'[Entry] \in Nat
             /\ (open' => open)
             /\ \A q \in Placements : atVenue[q] # "none" => atVenue'[q] # "none"
  BY <1>3 DEF Trigger, Working, Withdraw, TypeOK
<1>4. CASE Crash
  BY <1>4 DEF Crash, facts, TypeOK
<1>5. CASE Safety
  <2>1. UNCHANGED venue
    BY <1>5 DEF Safety
  <2>2. halted => halted'
    BY <1>5 DEF Safety, TypeOK
  <2> QED
    BY <1>1, <2>1, <2>2
<1>6. ASSUME NEW o \in Orders, ChangeAuthority(o) \/ PostOrder(o) \/ QueryOrder(o)
      PROVE  (UNCHANGED venue \/ Execute(o)) /\ UNCHANGED halted
  BY <1>6 DEF ChangeAuthority, PostOrder, QueryOrder, Acknowledged, RefusedOrder, NotSent,
     UnknownOrder, facts
<1>7. CASE \/ PassDeadline \/ Commit \/ Submit \/ Recover \/ ProtectFirstFill \/ MoveStop
          \/ EmergencyClose \/ UNCHANGED vars
  <2>1. UNCHANGED venue /\ UNCHANGED halted
    BY <1>7 DEF PassDeadline, Commit, Submit, Recover, ProtectFirstFill, MoveStop,
       EmergencyClose, vars, facts
  <2> QED
    BY <1>1, <2>1
<1>8. ASSUME NEW p \in Placements,
             Trigger(p) \/ RecoverStop(p) \/ PostStop(p) \/ FindStop(p) \/ Withdraw(p)
      PROVE  /\ UNCHANGED venue \/ Trigger(p) \/ Working(p) \/ Withdraw(p)
             /\ UNCHANGED halted
  BY <1>8 DEF Trigger, RecoverStop, PostStop, FindStop, Withdraw, facts
<1> QED
  BY <1>1, <1>2, <1>3, <1>4, <1>5, <1>6, <1>7, <1>8 DEF Next

(* Until the entry is filled (algo_orders.py protects a fill) there is no      *)
(* position, no placement and no fail safe.                                    *)
LEMMA EntryFirstAlways == Spec => []EntryFirst
<1>1. Init => EntryFirst
  BY DEF Init, EntryFirst
<1>2. Typing /\ EntryFirst /\ [Next]_vars => EntryFirst'
  <2> SUFFICES ASSUME Typing, EntryFirst, [Next]_vars PROVE EntryFirst'
    OBVIOUS
  <2> USE Names
  <2>1. CASE executed[Entry] > 0
    <3>1. executed[Entry] \in Nat
      BY DEF Typing, TypeOK
    <3>2. executed'[Entry] > 0
      BY <2>1, <3>1, VenueRemembers
    <3> QED
      BY <3>2 DEF EntryFirst
  <2>2. CASE /\ executed[Entry] = 0 /\ ~open /\ guarding = Nothing
             /\ \A p \in Placements :
                  atVenue[p] = "none" /\ stops[p] = "NONE" /\ saved.stops[p] = "NONE"
    <3>1. ASSUME NEW o \in Orders, PostOrder(o) PROVE EntryFirst'
      <4>1. CASE Execute(o)
        <5>1. o = Entry
          BY <2>2, <4>1 DEF Execute, Orders
        <5>2. executed'[Entry] = 1
          BY <2>2, <4>1, <5>1 DEF Execute, Typing, TypeOK
        <5> QED
          BY <5>2 DEF EntryFirst
      <4>2. CASE UNCHANGED venue
        <5>1. UNCHANGED <<stops, saved, guarding, executed, atVenue, open>>
          BY <3>1, <4>2 DEF PostOrder, venue
        <5> QED
          BY <2>2, <5>1 DEF EntryFirst
      <4> QED
        BY <3>1, <4>1, <4>2 DEF PostOrder, Acknowledged, RefusedOrder, NotSent, UnknownOrder
    <3>2. CASE Commit
      <4>1. saved'.stops = stops /\ UNCHANGED <<stops, guarding, executed, atVenue, open>>
        BY <3>2 DEF Commit, tables, venue, process
      <4> QED
        BY <2>2, <4>1 DEF EntryFirst
    <3>3. CASE Crash
      <4>1. /\ stops' = saved.stops /\ guarding' = Nothing
            /\ UNCHANGED <<saved, executed, atVenue, open>>
        BY <3>3 DEF Crash
      <4> QED
        BY <2>2, <4>1 DEF EntryFirst
    <3>4. CASE \/ \E o \in Orders : ChangeAuthority(o) \/ QueryOrder(o)
               \/ PassDeadline \/ Submit \/ Recover \/ UNCHANGED vars
      <4>1. UNCHANGED <<stops, saved, guarding, executed, atVenue, open>>
        BY <3>4 DEF ChangeAuthority, QueryOrder, PassDeadline, Submit, Recover, vars, tables,
           venue, process
      <4> QED
        BY <2>2, <4>1 DEF EntryFirst
    <3>5. ~(ProtectFirstFill \/ MoveStop \/ EmergencyClose \/ Safety)
      <4>1. ~EntryFilled /\ ~WorkingStop
        BY <2>2 DEF EntryFilled, WorkingStop
      <4>2. pc \notin {"close", "safety"}
        BY <2>2 DEF Typing, AtWork
      <4> QED
        BY <4>1, <4>2 DEF ProtectFirstFill, MoveStop, EmergencyClose, Safety, FirstPlacement
    <3>6. ASSUME NEW p \in Placements
          PROVE  ~(Trigger(p) \/ RecoverStop(p) \/ PostStop(p) \/ FindStop(p) \/ Withdraw(p))
      BY <2>2 DEF Trigger, RecoverStop, PostStop, FindStop, Withdraw, Typing, AtWork
    <3> QED
      BY <3>1, <3>2, <3>3, <3>4, <3>5, <3>6 DEF Next
  <2> QED
    BY <2>1, <2>2 DEF EntryFirst, Typing, TypeOK
<1> QED
  BY <1>1, <1>2, TypingAlways, PTL DEF Spec

(* Where a step leaves a stop recorded as working, or as closed by the fail     *)
(* safe, it was recorded so before, or the step has the venue's word for it.    *)
LEMMA RecordsHaveReasons ==
    ASSUME Typing, [Next]_vars, NEW p \in Placements
    PROVE  /\ "ACTIVE" \in {stops'[p], saved'.stops[p]}
                => "ACTIVE" \in {stops[p], saved.stops[p]} \/ atVenue'[p] = "working"
           /\ "EMERGENCY_CLOSED" \in {stops'[p], saved'.stops[p]}
                => \/ "EMERGENCY_CLOSED" \in {stops[p], saved.stops[p]}
                   \/ ~open' /\ halted'
<1> USE Names DEF Typing
<1> DEFINE Reasons(old, new, oldSaved, newSaved) ==
             /\ "ACTIVE" \in {new, newSaved}
                  => "ACTIVE" \in {old, oldSaved} \/ atVenue'[p] = "working"
             /\ "EMERGENCY_CLOSED" \in {new, newSaved}
                  => "EMERGENCY_CLOSED" \in {old, oldSaved} \/ (~open' /\ halted')
<1> SUFFICES Reasons(stops[p], stops'[p], saved.stops[p], saved'.stops[p])
  OBVIOUS
<1>1. ASSUME UNCHANGED <<stops, saved>>
      PROVE  Reasons(stops[p], stops'[p], saved.stops[p], saved'.stops[p])
  BY <1>1
<1>2. ASSUME NEW o \in Orders, ChangeAuthority(o) \/ PostOrder(o) \/ QueryOrder(o)
      PROVE  UNCHANGED <<stops, saved>>
  BY <1>2 DEF ChangeAuthority, PostOrder, QueryOrder, tables
<1>3. CASE PassDeadline \/ Submit \/ Recover \/ EmergencyClose \/ UNCHANGED vars
  BY <1>1, <1>3 DEF PassDeadline, Submit, Recover, EmergencyClose, vars, tables
<1>4. CASE Commit
  <2>1. saved'.stops = stops /\ UNCHANGED stops
    BY <1>4 DEF Commit, tables
  <2> QED
    BY <2>1
<1>5. CASE Crash
  <2>1. stops' = saved.stops /\ UNCHANGED saved
    BY <1>5 DEF Crash
  <2> QED
    BY <2>1
<1>6. CASE ProtectFirstFill \/ MoveStop
  <2>1. UNCHANGED saved /\ (stops'[p] = stops[p] \/ stops'[p] = "PREPARED")
    BY <1>6 DEF ProtectFirstFill, MoveStop, Keep, TypeOK
  <2> QED
    BY <2>1
<1>7. CASE Safety
  <2>1. /\ UNCHANGED <<saved, open>>
        /\ \/ stops'[p] = stops[p] \/ stops'[p] = "UNKNOWN"
           \/ stops'[p] = "EMERGENCY_CLOSED" /\ ~open /\ halted'
    BY <1>7 DEF Safety, Keep, Flat, venue, TypeOK
  <2> QED
    BY <2>1
<1>8. ASSUME NEW q \in Placements, Trigger(q) \/ RecoverStop(q)
      PROVE  UNCHANGED <<stops, saved>>
  BY <1>8 DEF Trigger, RecoverStop, tables
<1>9. ASSUME NEW q \in Placements, PostStop(q) \/ FindStop(q) \/ Withdraw(q)
      PROVE  Reasons(stops[p], stops'[p], saved.stops[p], saved'.stops[p])
  <2>1. /\ UNCHANGED saved
        /\ \/ stops'[p] = stops[p]
           \/ stops'[p] \in {"AMBIGUOUS", "REJECTED", "SUPERSEDED"}
           \/ stops'[p] = "ACTIVE" /\ atVenue'[p] = "working"
    <3>1. CASE PostStop(q)
      <4>1. \/ stops' = stops
            \/ \E new \in {"AMBIGUOUS", "REJECTED"} : stops' = [stops EXCEPT ![q] = new]
            \/ stops' = [stops EXCEPT ![q] = "ACTIVE"] /\ Working(q)
        BY <3>1 DEF PostStop, Confirmed, Unreadable, Unknown, Refused, Keep
      <4> QED
        BY <3>1, <4>1 DEF PostStop, Working, TypeOK
    <3>2. CASE FindStop(q)
      <4>1. \/ stops' = stops
            \/ stops' = [stops EXCEPT ![q] = "ACTIVE"] /\ atVenue'[q] = "working"
        BY <3>2 DEF FindStop, Keep, venue
      <4> QED
        BY <3>2, <4>1 DEF FindStop, TypeOK
    <3>3. CASE Withdraw(q)
      BY <3>3 DEF Withdraw, Keep, TypeOK
    <3> QED
      BY <1>9, <3>1, <3>2, <3>3
  <2> QED
    BY <2>1
<1> HIDE DEF Reasons
<1> QED
  BY <1>1, <1>2, <1>3, <1>4, <1>5, <1>6, <1>7, <1>8, <1>9 DEF Next

(* A stop leaves the venue with the position, or the process withdraws the     *)
(* first one when it has recorded the second as working.                       *)
LEMMA StopsLeave ==
    ASSUME Typing, [Next]_vars, NEW p \in Placements, atVenue'[p] = "gone"
    PROVE  atVenue[p] = "gone" \/ ~open' \/ (p = First /\ stops[Move] = "ACTIVE")
<1> USE Names DEF Typing
<1>1. ASSUME UNCHANGED atVenue PROVE atVenue[p] = "gone"
  BY <1>1
<1>2. ASSUME NEW q \in Placements, Trigger(q) PROVE ~open'
  BY <1>2 DEF Trigger
<1>3. ASSUME NEW q \in Placements, Working(q) PROVE atVenue[p] = "gone"
  BY <1>3 DEF Working, TypeOK
<1>4. ASSUME NEW q \in Placements, Withdraw(q)
      PROVE  atVenue[p] = "gone" \/ (p = First /\ stops[Move] = "ACTIVE")
  <2>1. q = First /\ stops[Move] = "ACTIVE"
    BY <1>4 DEF Withdraw, AtWork
  <2>2. p # First => atVenue'[p] = atVenue[p]
    BY <1>4, <2>1 DEF Withdraw, TypeOK
  <2> QED
    BY <2>1, <2>2
<1>5. ASSUME NEW o \in Orders, ChangeAuthority(o) \/ PostOrder(o) \/ QueryOrder(o)
      PROVE  UNCHANGED atVenue
  BY <1>5 DEF ChangeAuthority, PostOrder, QueryOrder, Acknowledged, RefusedOrder, NotSent,
     UnknownOrder, Execute, venue
<1>6. CASE \/ PassDeadline \/ Commit \/ Crash \/ Submit \/ Recover \/ ProtectFirstFill \/ MoveStop
          \/ EmergencyClose \/ Safety \/ UNCHANGED vars
  <2>1. UNCHANGED atVenue
    BY <1>6 DEF PassDeadline, Commit, Crash, Submit, Recover, ProtectFirstFill, MoveStop,
       EmergencyClose, Safety, vars, venue
  <2> QED
    BY <1>1, <2>1
<1>7. ASSUME NEW q \in Placements, RecoverStop(q) \/ PostStop(q) \/ FindStop(q)
      PROVE  UNCHANGED atVenue \/ Working(q)
  BY <1>7 DEF RecoverStop, PostStop, FindStop, venue
<1> QED
  BY <1>1, <1>2, <1>3, <1>4, <1>5, <1>6, <1>7 DEF Next

LEMMA StopsPlacedAlways == Spec => []StopsPlaced
<1>1. Init => StopsPlaced
  BY DEF Init, StopsPlaced
<1>2. Typing /\ EntryFirst /\ StopsPlaced /\ [Next]_vars => StopsPlaced'
  <2> SUFFICES ASSUME Typing, EntryFirst, StopsPlaced, [Next]_vars PROVE StopsPlaced'
    OBVIOUS
  <2> USE Names
  <2>1. ASSUME NEW p \in Placements, "ACTIVE" \in {stops'[p], saved'.stops[p]}
        PROVE  atVenue'[p] # "none"
    <3>1. CASE atVenue'[p] = "working"
      BY <3>1
    <3>2. CASE "ACTIVE" \in {stops[p], saved.stops[p]}
      BY <3>2, VenueRemembers DEF StopsPlaced
    <3> QED
      BY <2>1, <3>1, <3>2, RecordsHaveReasons
  <2>2. ASSUME open', executed'[Entry] = 1, NEW p \in Placements, atVenue'[p] = "gone"
        PROVE  atVenue'[Move] = "working"
    <3>1. \/ executed[Entry] = 0
          \/ executed[Entry] = 1 /\ open
      <4>1. executed[Entry] \in Nat
        BY DEF Typing, TypeOK
      <4> QED
        BY <2>2, <4>1, VenueRemembers
    <3>2. atVenue[p] = "gone" \/ (p = First /\ stops[Move] = "ACTIVE")
      BY <2>2, StopsLeave
    <3>3. executed[Entry] # 0
      BY <3>2 DEF EntryFirst
    <3>4. atVenue[Move] = "working"
      <4>1. CASE atVenue[p] = "gone"
        BY <3>1, <3>3, <4>1 DEF StopsPlaced
      <4>2. CASE stops[Move] = "ACTIVE"
        <5>1. atVenue[Move] # "none"
          BY <4>2 DEF StopsPlaced
        <5>2. atVenue[Move] # "gone"
          BY <3>1, <3>3 DEF StopsPlaced
        <5> QED
          BY <5>1, <5>2 DEF Typing, TypeOK
      <4> QED
        BY <3>2, <4>1, <4>2
    <3>5. atVenue'[Move] # "none" /\ atVenue'[Move] # "gone"
      BY <2>2, <3>4, VenueRemembers, StopsLeave
    <3>6. Typing'
      BY OrderStepTypes, StopStepTypes, StartTypes, FailSafeTypes, WorldTypes DEF Next
    <3> QED
      BY <3>5, <3>6 DEF Typing, TypeOK
  <2> QED
    BY <2>1, <2>2 DEF StopsPlaced
<1> QED
  BY <1>1, <1>2, TypingAlways, EntryFirstAlways, PTL DEF Spec

(* A position behind which a stop is recorded as working (algo_orders.py) has a *)
(* working stop at the venue, through moves, failed withdrawals and deaths, for *)
(* any number of them: no record says ACTIVE of a stop that was never placed,   *)
(* and the first stop goes only where the second works.                         *)
THEOREM RecordedStopProtectsAlways == Spec => []RecordedStopProtects
<1>1. Typing /\ StopsPlaced => RecordedStopProtects
  <2> SUFFICES ASSUME Typing, StopsPlaced, open, executed[Entry] = 1,
                      NEW p \in Placements, stops[p] = "ACTIVE"
               PROVE  "working" \in {atVenue[q] : q \in Placements}
    BY DEF RecordedStopProtects
  <2>1. atVenue[p] # "none"
    BY DEF StopsPlaced
  <2>2. CASE atVenue[p] = "gone"
    BY <2>2, Names DEF StopsPlaced
  <2> QED
    BY <2>1, <2>2 DEF Typing, TypeOK
<1> QED
  BY <1>1, TypingAlways, StopsPlacedAlways, PTL

-----------------------------------------------------------------------------
LEMMA ClosedForGoodAlways == Spec => []ClosedForGood
<1>1. Init => ClosedForGood
  BY DEF Init, ClosedForGood
<1>2. Typing /\ EntryFirst /\ ClosedForGood /\ [Next]_vars => ClosedForGood'
  <2> SUFFICES ASSUME Typing, EntryFirst, ClosedForGood, [Next]_vars,
                      executed'[Entry] = 1, NEW p \in Placements,
                      "EMERGENCY_CLOSED" \in {stops'[p], saved'.stops[p]}
               PROVE  ~open' /\ halted'
    BY DEF ClosedForGood
  <2>1. CASE "EMERGENCY_CLOSED" \in {stops[p], saved.stops[p]}
    <3>1. executed[Entry] # 0
      BY <2>1 DEF EntryFirst
    <3>2. executed[Entry] = 1
      <4>1. executed[Entry] \in Nat
        BY Names DEF Typing, TypeOK
      <4> QED
        BY <3>1, <4>1, VenueRemembers
    <3>3. ~open /\ halted
      BY <2>1, <3>2 DEF ClosedForGood
    <3> QED
      BY <3>2, <3>3, VenueRemembers
  <2> QED
    BY <2>1, RecordsHaveReasons
<1> QED
  BY <1>1, <1>2, TypingAlways, EntryFirstAlways, PTL DEF Spec

(* An emergency close on record (algo_orders.py, _fail_safe) is of a position   *)
(* that is gone and of an account that is halted, and stays so, unless the      *)
(* entry itself is carried out again.                                           *)
THEOREM EmergencyLeavesNothingAlways == Spec => []EmergencyLeavesNothing
<1>1. ClosedForGood => EmergencyLeavesNothing
  BY DEF ClosedForGood, EmergencyLeavesNothing
<1> QED
  BY <1>1, ClosedForGoodAlways, PTL

=============================================================================
