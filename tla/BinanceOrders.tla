--------------------------- MODULE BinanceOrders ---------------------------
(* One Binance USD-M position: the entry, the stop behind it, the stop that    *)
(* replaces it and the emergency close that takes its place, each written to a *)
(* journal before it is posted.  The venue may carry out what it does not      *)
(* confirm, the deadline may pass, and the process may die at every await.     *)
EXTENDS Integers

CONSTANTS
    First, Move,   \* the two placements: the first stop, and the one that replaces it
    Entry, Close,  \* the two normal orders: the entry, and the emergency close
    Nothing,
    MaxPosts,      \* bound on the times an order is carried out
    MaxCrashes     \* bound on deaths of the process

Placements == {First, Move}
Orders == {Entry, Close}

ASSUME BinanceAssumption ==
    /\ First # Move /\ Entry # Close /\ Placements \cap Orders = {}
    /\ Nothing \notin Placements \cup Orders
    /\ MaxPosts \in Nat \ {0} /\ MaxCrashes \in Nat

OrderStates == {"NONE", "PREPARED", "NOT_SENT", "AMBIGUOUS", "ACKNOWLEDGED", "REJECTED"}
StopStates == {"NONE", "PREPARED", "AMBIGUOUS", "ACTIVE", "REJECTED",
               "EMERGENCY_CLOSED", "UNKNOWN", "SUPERSEDED"}

VARIABLES
    journal,   \* order |-> its record, as the process's session sees it
    stops,     \* placement |-> its record, as the process's session sees it
    saved,     \* both, as they were last committed
    authority, \* order |-> its write authority holds and is fresh
    executed,  \* order |-> how often the venue carried it out
    posted,    \* order |-> how often this process's posts were carried out
    atVenue,   \* placement |-> none, working or gone
    open,      \* the venue holds the position
    late,      \* the protection deadline has passed
    halted,    \* the safety actions stopped new exposure
    pc,        \* what the process is waiting for
    target,    \* the order or placement it is working on
    guarding,  \* the placement that needs the emergency close, if one does
    closedBy,  \* the placements whose failure led to an emergency close
    crashes

tables == <<journal, stops>>
venue == <<executed, posted, atVenue, open>>
process == <<pc, target, guarding>>
facts == <<authority, late, halted>>
vars == <<tables, saved, venue, process, facts, closedBy, crashes>>

Init ==
    /\ journal = [o \in Orders |-> "NONE"] /\ stops = [p \in Placements |-> "NONE"]
    /\ saved = [journal |-> journal, stops |-> stops]
    /\ authority \in [Orders -> BOOLEAN]
    /\ executed = [o \in Orders |-> 0] /\ posted = [o \in Orders |-> 0]
    /\ atVenue = [p \in Placements |-> "none"] /\ open = FALSE
    /\ late = FALSE /\ halted = FALSE
    /\ pc = "idle" /\ target = Nothing /\ guarding = Nothing
    /\ closedBy = {} /\ crashes = 0

-----------------------------------------------------------------------------
(* The world around the process. *)

(* The configuration, the filters and the binding are read again. *)
ChangeAuthority(o) ==
    /\ authority' = [authority EXCEPT ![o] = ~@]
    /\ UNCHANGED <<tables, saved, venue, process, late, halted, closedBy, crashes>>

(* What a submission asks of the authority, and what a placement is told: the *)
(* fill it protects, and the stop it replaces if the committed record of one  *)
(* says it is working.                                                        *)
Authorized(o) == authority[o]
EntryFilled == executed[Entry] > 0
WorkingStop == saved.stops[First] = "ACTIVE"
FirstPlacement == EntryFilled /\ ~WorkingStop

(* Thirty seconds after the first fill. *)
PassDeadline ==
    /\ EntryFilled /\ ~late /\ late' = TRUE
    /\ UNCHANGED <<tables, saved, venue, process, authority, halted, closedBy, crashes>>

(* A working stop is closePosition: whichever triggers first closes it all. *)
Trigger(p) ==
    /\ atVenue[p] = "working" /\ open
    /\ atVenue' = [atVenue EXCEPT ![p] = "gone"] /\ open' = FALSE
    /\ UNCHANGED <<tables, saved, executed, posted, process, facts, closedBy, crashes>>

(* Whoever owns the session commits it.  build_ports opens one for each        *)
(* journal and never does.                                                     *)
Commit ==
    /\ pc = "idle"
    /\ saved' = [journal |-> journal, stops |-> stops] /\ saved' # saved
    /\ UNCHANGED <<tables, venue, process, facts, closedBy, crashes>>

Crash ==
    /\ crashes < MaxCrashes /\ crashes' = crashes + 1
    /\ journal' = saved.journal /\ stops' = saved.stops
    /\ posted' = [o \in Orders |-> 0]
    /\ pc' = "idle" /\ target' = Nothing /\ guarding' = Nothing
    /\ UNCHANGED <<saved, executed, atVenue, open, facts, closedBy>>

-----------------------------------------------------------------------------
(* Normal orders: submit_locked and recover_by_client_id. *)

Wait(state, what) == pc' = state /\ target' = what
Done == pc' = "idle" /\ target' = Nothing

(* What follows an order's outcome: the caller of an entry is answered, the   *)
(* fail safe goes on to its safety actions.                                   *)
Answer == IF guarding = Nothing THEN Done ELSE Wait("safety", guarding)

(* finish and mark_not_sent: a record leaves PREPARED for one of its outcomes. *)
Finish(o, state) == journal' = [journal EXCEPT ![o] = state]

(* Plausible bug: a prepared record may be sent again, for nobody answered. *)
SendableBug(o) == journal[o] \in {"NONE", "NOT_SENT", "PREPARED", "AMBIGUOUS"}
(* prepare: a record may be claimed when it is new or proved unsent. *)
Sendable(o) == journal[o] \in {"NONE", "NOT_SENT"}

(* The claim is one statement: the row is inserted, or found and taken over. *)
Claim(o) == Finish(o, "PREPARED")

SubmitLocked(o) ==
    \/ /\ Sendable(o) /\ Authorized(o)
       /\ Claim(o) /\ Wait("post", o)
    \/ /\ ~Sendable(o) /\ journal[o] \in {"PREPARED", "AMBIGUOUS"}
       /\ Wait("query", o) /\ UNCHANGED journal

(* The dispatcher submits the entry.  A command whose authority is missing or *)
(* whose record is final changes nothing.                                     *)
Submit ==
    /\ pc = "idle" /\ SubmitLocked(Entry)
    /\ UNCHANGED <<stops, saved, venue, guarding, facts, closedBy, crashes>>

Recover ==
    /\ pc = "idle" /\ journal[Entry] \in {"PREPARED", "AMBIGUOUS"}
    /\ Wait("query", Entry)
    /\ UNCHANGED <<tables, saved, venue, guarding, facts, closedBy, crashes>>

(* The venue carries out a market order: the entry opens, the close is        *)
(* reduceOnly and finds a position to close.                                  *)
Execute(o) ==
    /\ executed[o] < MaxPosts /\ (o = Close => open)
    /\ executed' = [executed EXCEPT ![o] = @ + 1]
    /\ posted' = [posted EXCEPT ![o] = @ + 1]
    /\ open' = (o = Entry)
    /\ UNCHANGED atVenue

(* The answers to a post: confirmed, with fills that add up to the order; an   *)
(* authoritative refusal; a failure before the request left; anything else.    *)
Acknowledged(o) == Execute(o) /\ Finish(o, "ACKNOWLEDGED")
RefusedOrder(o) == UNCHANGED venue /\ Finish(o, "REJECTED")
NotSent(o) == UNCHANGED venue /\ Finish(o, "NOT_SENT")
UnknownOrder(o) == (Execute(o) \/ UNCHANGED venue) /\ Finish(o, "AMBIGUOUS")

PostOrder(o) ==
    /\ pc = "post" /\ target = o /\ o \in Orders
    /\ Acknowledged(o) \/ RefusedOrder(o) \/ NotSent(o) \/ UnknownOrder(o)
    /\ IF journal'[o] = "AMBIGUOUS" /\ guarding # Nothing THEN Wait("query", o) ELSE Answer
    /\ UNCHANGED <<stops, saved, guarding, facts, closedBy, crashes>>

(* Only an order the venue shows is acknowledged; "not found" proves nothing. *)
QueryOrder(o) ==
    /\ pc = "query" /\ target = o /\ o \in Orders
    /\ \/ executed[o] > 0 /\ Finish(o, "ACKNOWLEDGED")
       \/ UNCHANGED journal
    /\ Answer
    /\ UNCHANGED <<stops, saved, venue, guarding, facts, closedBy, crashes>>

-----------------------------------------------------------------------------
(* Protection: protect_first_fill, move_stop, recover_by_client_algo_id. *)

Keep(p, state) == stops' = [stops EXCEPT ![p] = state]
FailSafe(p) == pc' = "close" /\ target' = p /\ guarding' = p
Report == Done /\ UNCHANGED guarding

(* A filled entry is protected under the entry's own id. *)
ProtectFirstFill ==
    /\ pc = "idle" /\ FirstPlacement
    /\ \/ /\ stops[First] = "NONE" /\ Keep(First, "PREPARED")
          /\ IF late THEN FailSafe(First) ELSE Wait("place", First) /\ UNCHANGED guarding
       \/ /\ stops[First] \in {"PREPARED", "AMBIGUOUS", "REJECTED"}
          /\ Wait("find", First) /\ UNCHANGED <<stops, guarding>>
       \/ stops[First] = "UNKNOWN" /\ FailSafe(First) /\ UNCHANGED stops
    /\ UNCHANGED <<journal, saved, venue, facts, closedBy, crashes>>

(* The committed record says a stop is working: the new one is placed first. *)
MoveStop ==
    /\ pc = "idle" /\ WorkingStop /\ stops[First] = "ACTIVE"
    /\ \/ /\ stops[Move] = "NONE" /\ Keep(Move, "PREPARED") /\ Wait("place", Move)
          /\ UNCHANGED guarding
       \/ /\ stops[Move] \in {"PREPARED", "AMBIGUOUS", "REJECTED"}
          /\ Wait("find", Move) /\ UNCHANGED <<stops, guarding>>
       \/ stops[Move] = "UNKNOWN" /\ FailSafe(Move) /\ UNCHANGED stops
    /\ UNCHANGED <<journal, saved, venue, facts, closedBy, crashes>>

(* recover_submit asks about a placement by its id. *)
RecoverStop(p) ==
    /\ pc = "idle" /\ stops[p] \in {"PREPARED", "AMBIGUOUS", "REJECTED"}
    /\ Wait("find", p)
    /\ UNCHANGED <<tables, saved, venue, guarding, facts, closedBy, crashes>>

Working(p) ==
    /\ atVenue[p] = "none" /\ open
    /\ atVenue' = [atVenue EXCEPT ![p] = "working"]
    /\ UNCHANGED <<executed, posted, open>>

(* Plausible bug: the answer to a placement is taken as its confirmation. *)
UnknownBug(p) == Keep(p, "ACTIVE") /\ Report
(* An unknown outcome closes the position when the deadline has passed, for a *)
(* first stop; a move leaves the working stop alone.                          *)
Unknown(p) ==
    /\ Keep(p, "AMBIGUOUS")
    /\ IF late /\ p = First THEN FailSafe(p) ELSE Report

(* A confirmation that comes late closes the position, of a move as well. *)
Confirmed(p) ==
    \/ late /\ FailSafe(p) /\ UNCHANGED stops
    \/ ~late /\ p = First /\ Keep(p, "ACTIVE") /\ Report
    \/ ~late /\ p = Move /\ Keep(p, "ACTIVE") /\ Wait("withdraw", First) /\ UNCHANGED guarding

(* A 200 whose contents cannot be read falls through to the first stop's path. *)
Unreadable(p) == Keep(p, "AMBIGUOUS") /\ IF late THEN FailSafe(p) ELSE Report

Refused(p) ==
    /\ Keep(p, "REJECTED")
    /\ IF p = First THEN FailSafe(p) ELSE Report

PostStop(p) ==
    /\ pc = "place" /\ target = p
    /\ \/ Working(p) /\ (Confirmed(p) \/ Unreadable(p) \/ Unknown(p))
       \/ UNCHANGED venue /\ (Unknown(p) \/ Refused(p))
    /\ UNCHANGED <<journal, saved, facts, closedBy, crashes>>

(* The venue shows it as new, or does not: triggered stops no longer read so. *)
FindStop(p) ==
    /\ pc = "find" /\ target = p
    /\ \/ /\ atVenue[p] = "working"
          /\ IF late THEN FailSafe(p) /\ UNCHANGED stops ELSE Keep(p, "ACTIVE") /\ Report
       \/ UNCHANGED stops /\ IF late THEN FailSafe(p) ELSE Report
    /\ UNCHANGED <<journal, saved, venue, facts, closedBy, crashes>>

(* The replaced stop is cancelled, or nobody knows. *)
Withdraw(p) ==
    /\ pc = "withdraw" /\ target = p
    /\ \/ atVenue' = [atVenue EXCEPT ![p] = "gone"]
          /\ \E state \in {"SUPERSEDED", "AMBIGUOUS"} : Keep(p, state)
       \/ UNCHANGED atVenue /\ Keep(p, "AMBIGUOUS")
    /\ Report
    /\ UNCHANGED <<journal, saved, executed, posted, open, facts, closedBy, crashes>>

-----------------------------------------------------------------------------
(* _fail_safe: close the position, stop new exposure, ask the venue whether    *)
(* the position is gone, halt, and only then call it closed.                   *)

EmergencyClose ==
    /\ pc = "close" /\ closedBy' = closedBy \cup {guarding}
    /\ \/ SubmitLocked(Close)
       \/ /\ journal[Close] \in {"ACKNOWLEDGED", "REJECTED"} \/ ~Authorized(Close)
          /\ Wait("safety", guarding) /\ UNCHANGED journal
    /\ UNCHANGED <<stops, saved, venue, guarding, facts, crashes>>

(* confirm_zero_position reads the venue, and an incomplete answer is no proof. *)
Flat == ~open

(* Plausible bug: an emergency close nobody confirmed counts, and the account  *)
(* is halted afterwards.                                                       *)
SafetyBug ==
    /\ pc = "safety" /\ halted' \in {halted, TRUE}
    /\ Keep(guarding, "EMERGENCY_CLOSED")
    /\ Done /\ guarding' = Nothing
    /\ UNCHANGED <<journal, saved, venue, authority, late, closedBy, crashes>>
(* The end of the fail safe. *)
Safety ==
    /\ pc = "safety"
    /\ \/ /\ journal[Close] = "ACKNOWLEDGED" /\ Flat /\ halted' = TRUE
          /\ Keep(guarding, "EMERGENCY_CLOSED")
       \/ halted' \in {halted, TRUE} /\ Keep(guarding, "UNKNOWN")
    /\ Done /\ guarding' = Nothing
    /\ UNCHANGED <<journal, saved, venue, authority, late, closedBy, crashes>>

Next ==
    \/ \E o \in Orders : ChangeAuthority(o) \/ PostOrder(o) \/ QueryOrder(o)
    \/ PassDeadline \/ Commit \/ Crash
    \/ Submit \/ Recover \/ ProtectFirstFill \/ MoveStop \/ EmergencyClose \/ Safety
    \/ \E p \in Placements :
         Trigger(p) \/ RecoverStop(p) \/ PostStop(p) \/ FindStop(p) \/ Withdraw(p)

Spec == Init /\ [][Next]_vars

-----------------------------------------------------------------------------
(* Every record, venue fact and process has its type. *)
TypeOK ==
    /\ journal \in [Orders -> OrderStates] /\ stops \in [Placements -> StopStates]
    /\ saved \in [journal : [Orders -> OrderStates], stops : [Placements -> StopStates]]
    /\ authority \in [Orders -> BOOLEAN]
    /\ executed \in [Orders -> 0 .. MaxPosts] /\ posted \in [Orders -> 0 .. MaxPosts]
    /\ atVenue \in [Placements -> {"none", "working", "gone"}]
    /\ open \in BOOLEAN /\ late \in BOOLEAN /\ halted \in BOOLEAN
    /\ pc \in {"idle", "post", "query", "place", "find", "withdraw", "close", "safety"}
    /\ target \in Orders \cup Placements \cup {Nothing}
    /\ guarding \in Placements \cup {Nothing} /\ closedBy \subseteq Placements
    /\ crashes \in 0 .. MaxCrashes

(* While a process lives (orders.py) no order of it is carried out twice,      *)
(* whatever the venue left unanswered and however often it is submitted; and   *)
(* a record is final only for what the venue really did.                       *)
OncePerLife ==
    \A o \in Orders :
        /\ posted[o] <= 1
        /\ journal[o] = "ACKNOWLEDGED" => executed[o] > 0
        /\ journal[o] \in {"NOT_SENT", "REJECTED"} /\ saved.journal[o] = "NONE"
             => posted[o] = 0

(* A position behind which a stop is recorded as working (algo_orders.py) has  *)
(* a working stop at the venue, through a move, a failed withdrawal, a late    *)
(* answer and a restart.                                                       *)
RecordedStopProtects ==
    open /\ executed[Entry] = 1 /\ "ACTIVE" \in {stops[p] : p \in Placements} =>
        "working" \in {atVenue[p] : p \in Placements}

(* A stop that ended as EMERGENCY_CLOSED leaves no position and a halted       *)
(* account, unless the entry itself was carried out again.                     *)
EmergencyLeavesNothing ==
    executed[Entry] = 1 /\ "EMERGENCY_CLOSED" \in {stops[p] : p \in Placements} =>
        ~open /\ halted

(* "Nothing in here fail-safes" (algo_orders.py, move_stop): a move never      *)
(* closes the position it was to protect better.                               *)
MoveNeverCloses == Move \notin closedBy

(* "The normal order may exist and must never be blindly submitted again"      *)
(* (orders.py, BinanceUsdmOrderUnknown).                                       *)
NeverPostedAgain == \A o \in Orders : executed[o] <= 1
=============================================================================
