---------------------------- MODULE TradingLoop ----------------------------
(* The live trading loop of one account and one instrument: a process that   *)
(* settles the venue's trades, places a stop behind what filled, reconciles   *)
(* with the venue, checks that what is held is protected and only then        *)
(* decides.  The venue trades meanwhile, a person may trade by hand, an       *)
(* operator may clear the halt, and the process may die at any point and be   *)
(* started again with what the database holds.                                *)
EXTENDS Integers, FiniteSets, Sequences

CONSTANTS
    Entries,     \* the entry orders the strategy may decide on
    Stop,        \* the one structural stop the position can ever have
    Manual,      \* the order of a trade nobody here placed
    Assets,      \* what a commission may be charged in
    Settlement,  \* the one asset the ledger can record
    Size,        \* an entry's quantity; a trade is one unit
    HistoryLimit, \* the rows of a history list at which a capture is refused
    MaxManual,   \* bound on trades made by hand
    MaxAged,     \* bound on the trades that grow too old for a capture
    MaxCrashes,  \* bound on deaths of the process that no exception explains
    MaxClears    \* bound on halts cleared by the operator

ASSUME LoopAssumption ==
    /\ Stop \notin Entries
    /\ Manual \notin Entries \cup {Stop}
    /\ Settlement \in Assets
    /\ Size \in Nat \ {0} /\ HistoryLimit \in Nat
    /\ MaxManual \in Nat /\ MaxAged \in Nat /\ MaxCrashes \in Nat /\ MaxClears \in Nat

VARIABLES
    trades,    \* the venue's trades; the index is the trade id
    open,      \* the orders working at the venue
    horizon,   \* the trades up to this one are older than a capture goes back
    row,       \* order |-> what its command row says
    applied,   \* the trade ids stored in exec_fill
    level,     \* the kill switch
    incident,  \* a POSITION_WITHOUT_PROTECTION incident is open
    diffs,     \* a blocking reconciliation difference is open
    pc,        \* where the process is
    window,    \* the trade ids settlement still has to look at
    owed,      \* the fills settlement still has to put a stop behind
    target,    \* the order being dispatched
    answer,    \* what the broker answered
    seen,      \* what reconciliation read of the database
    crashes, clears

venue == <<trades, open, horizon>>
db == <<row, applied, level, incident, diffs>>
locals == <<window, owed, target, answer, seen>>
vars == <<venue, db, pc, locals, crashes, clears>>

Orders == Entries \cup {Stop}
Quantity(o) == IF o = Stop THEN 1 ELSE Size

(* Trades as the ledger and the venue add them up. *)
Of(T, o) == {t \in T : trades[t].order = o}
Net(T) == Cardinality({t \in T : trades[t].buy})
          - Cardinality({t \in T : ~trades[t].buy})
Position == Net(applied)
VenuePosition == Net(DOMAIN trades)
Filled(o) == Cardinality(Of(applied, o))
Traded(o) == Cardinality(Of(DOMAIN trades, o))

(* The link is written with the ACCEPTED result, and only then. *)
Linked(o) == o \in Orders /\ row[o] = "ACCEPTED"

(* An order with a link whose fills do not add up to its quantity is working. *)
InternalOpen == {o \in Orders : Linked(o) /\ Filled(o) < Quantity(o)}

(* What ProtectionRepository calls protected: a protective order that came *)
(* back ACCEPTED and is not used up.  Its quantity is not compared.        *)
StopWorking == Linked(Stop) /\ Filled(Stop) < Quantity(Stop)
Unprotected == Position # 0 /\ ~StopWorking

(* The cursor is the highest trade id stored. *)
Cursor == IF applied = {} THEN 0 ELSE CHOOSE t \in applied : \A u \in applied : u <= t

NoReading == [open |-> {}, position |-> 0]

Init ==
    /\ trades = <<>> /\ open = {} /\ horizon = 0
    /\ row = [o \in Orders |-> "absent"]
    /\ applied = {} /\ level = "NONE" /\ incident = FALSE /\ diffs = FALSE
    /\ pc = "sleep" /\ window = {} /\ owed = 0 /\ target = Stop
    /\ answer = "none" /\ seen = NoReading
    /\ crashes = 0 /\ clears = 0

-----------------------------------------------------------------------------
(* The venue and the people around it. *)

Trade(o, buy, asset) ==
    trades' = Append(trades, [order |-> o, buy |-> buy, asset |-> asset])

Fill(o, asset) ==
    /\ o \in open /\ Traded(o) < Quantity(o)
    /\ Trade(o, o # Stop, asset)
    /\ open' = IF Traded(o) + 1 = Quantity(o) THEN open \ {o} ELSE open
    /\ UNCHANGED <<horizon, db, pc, locals, crashes, clears>>

Expire(o) ==
    /\ o \in open
    /\ open' = open \ {o}
    /\ UNCHANGED <<trades, horizon, db, pc, locals, crashes, clears>>

TradeByHand(buy) ==
    /\ Traded(Manual) < MaxManual
    /\ Trade(Manual, buy, Settlement)
    /\ UNCHANGED <<open, horizon, db, pc, locals, crashes, clears>>

(* Seven days after it was made a trade is in no capture any more. *)
Age(t) ==
    /\ horizon < t /\ t <= MaxAged
    /\ horizon' = t
    /\ UNCHANGED <<trades, open, db, pc, locals, crashes, clears>>

ClearHalt ==
    /\ level # "NONE" /\ clears < MaxClears
    /\ level' = "NONE" /\ clears' = clears + 1
    /\ UNCHANGED <<venue, row, applied, incident, diffs, pc, locals, crashes>>

-----------------------------------------------------------------------------
(* The process.  An exception anywhere leaves run_forever and ends it. *)

Goto(label) == pc' = label
Raise == Goto("down")

Crash ==
    /\ pc # "down" /\ crashes < MaxCrashes
    /\ Raise /\ crashes' = crashes + 1
    /\ UNCHANGED <<venue, db, locals, clears>>

Restart ==
    /\ pc = "down"
    /\ Goto("sleep")
    /\ window' = {} /\ owed' = 0 /\ target' = Stop /\ answer' = "none"
    /\ seen' = NoReading
    /\ UNCHANGED <<venue, db, crashes, clears>>

(* A capture of the account: the trades of the last seven days, refused when *)
(* the history is as long as one answer, which may have been cut.            *)
Recent == {t \in DOMAIN trades : t > horizon}
Truncated == Cardinality(Recent) >= HistoryLimit

(* A pass begins: the cursor, then a capture.  The venue is not asked from    *)
(* the cursor on: what lies above it is picked out of the capture.            *)
FetchTrades ==
    /\ pc = "sleep"
    /\ IF Truncated
       THEN Raise /\ UNCHANGED <<window, owed>>
       ELSE /\ window' = {t \in Recent : t > Cursor}
            /\ owed' = 0
            /\ Goto("settle")
    /\ UNCHANGED <<venue, db, target, answer, seen, crashes, clears>>

(* Plausible bug: the facts are not sorted, and the newest comes first. *)
NewestFirst(T) == CHOOSE t \in T : \A u \in T : u <= t
OldestFirst(T) == CHOOSE t \in T : \A u \in T : t <= u

(* One trade in a transaction of its own.  A trade of no order of ours is    *)
(* counted and left; a commission in another asset is refused by raising.    *)
(* Plausible bug: a trade without a link is an error.                        *)
Supported(t) == trades[t].asset = Settlement
Recordable(t) == Linked(trades[t].order) /\ Supported(t)
SkippableBug(t) == FALSE
Skippable(t) == ~Linked(trades[t].order)
Opens(t) == trades[t].order \in Entries

ApplyTrade ==
    /\ pc = "settle" /\ window # {}
    /\ LET t == OldestFirst(window) IN
       \/ /\ Recordable(t)
          /\ applied' = applied \cup {t}
          /\ owed' = IF Opens(t) THEN owed + 1 ELSE owed
          /\ window' = window \ {t} /\ UNCHANGED pc
       \/ /\ Skippable(t)
          /\ window' = window \ {t} /\ UNCHANGED <<applied, owed, pc>>
       \/ /\ ~Recordable(t) /\ ~Skippable(t)
          /\ Raise /\ UNCHANGED <<applied, owed, window>>
    /\ UNCHANGED <<venue, row, level, incident, diffs, target, answer, seen,
                   crashes, clears>>

(* _protect, once per fill that opened something.  The stop's intent is named *)
(* by the position and the reason, and both outlive the trade, so a second    *)
(* one meets the first: another quantity collides, the same one is refused    *)
(* because the decision belongs to the stored intent.                         *)
IntentIsNew(o) == row[o] = "absent"
CreateOrder(o) ==
    /\ row' = [row EXCEPT ![o] = "created"]
    /\ target' = o /\ Goto("dispatch")

Protect ==
    /\ pc = "settle" /\ window = {} /\ owed > 0
    /\ owed' = owed - 1
    /\ IF IntentIsNew(Stop)
       THEN CreateOrder(Stop)
       ELSE Raise /\ UNCHANGED <<row, target>>
    /\ UNCHANGED <<venue, applied, level, incident, diffs, window, answer, seen,
                   crashes, clears>>

Settled ==
    /\ pc = "settle" /\ window = {} /\ owed = 0
    /\ Goto("reconcile")
    /\ UNCHANGED <<venue, db, locals, crashes, clears>>

(* The database is read before the venue is asked. *)
ReadInternal ==
    /\ pc = "reconcile"
    /\ seen' = [open |-> InternalOpen, position |-> Position]
    /\ Goto("compare")
    /\ UNCHANGED <<venue, db, window, owed, target, answer, crashes, clears>>

(* What the venue reports: its working orders and what the account holds. *)
Snapshot == [open |-> open, position |-> VenuePosition]

(* compare, orders in both directions by the venue's id; _position_diffs. *)
OrdersAgree(reading) == reading.open = Snapshot.open
PositionsAgree(reading) == reading.position = Snapshot.position
Agrees(reading) == OrdersAgree(reading) /\ PositionsAgree(reading)

(* persist_run: the differences and their incidents stay OPEN for good. *)
PersistRun == diffs' = (diffs \/ ~Agrees(seen))

(* Plausible bug: the level is written back as it was read. *)
BlockedBug == level
Blocked == IF level = "NONE" THEN "BLOCK_NEW_EXPOSURE" ELSE level

Compare ==
    /\ pc = "compare"
    /\ \/ /\ Truncated
          /\ Raise /\ UNCHANGED <<level, diffs>>
       \/ /\ ~Truncated /\ Agrees(seen)
          /\ PersistRun
          /\ Goto("guard") /\ UNCHANGED level
       \/ /\ ~Truncated /\ ~Agrees(seen)
          /\ PersistRun
          /\ Goto("sleep") /\ level' = Blocked
    /\ UNCHANGED <<venue, row, applied, incident, locals, crashes, clears>>

(* Plausible bug: a stop that was created counts as protection. *)
MissingBug == Position # 0 /\ row[Stop] = "absent"
Missing == Unprotected

Guard ==
    /\ pc = "guard"
    /\ IF Missing
       THEN Goto("sleep") /\ level' = Blocked /\ incident' = TRUE
       ELSE Goto("tick") /\ UNCHANGED <<level, incident>>
    /\ UNCHANGED <<venue, row, applied, diffs, locals, crashes, clears>>

IsArmed == level = "NONE"

(* No new bar, disarmed, or nothing worth trading. *)
Decline ==
    /\ pc = "tick"
    /\ Goto("sleep")
    /\ UNCHANGED <<venue, db, locals, crashes, clears>>

(* The order and its command are committed before they are dispatched. *)
Submit(e) ==
    /\ pc = "tick" /\ IsArmed
    /\ IntentIsNew(e)
    /\ CreateOrder(e)
    /\ UNCHANGED <<venue, applied, level, incident, diffs, window, owed, answer,
                   seen, crashes, clears>>

Unknowns == {o \in Orders : row[o] = "UNKNOWN"}

(* The two gates of a SUBMIT.  The first lets a closing order through; the    *)
(* second lets a REDUCE through only when it is a CANCEL, which a stop is not. *)
GateAllows(o) ==
    /\ o \in Entries
    /\ level = "NONE" /\ ~incident /\ ~diffs /\ Unknowns = {}

Resume(o) == IF o = Stop THEN "settle" ELSE "sleep"

Dispatch ==
    /\ pc = "dispatch"
    /\ Goto(IF GateAllows(target) THEN "send" ELSE Resume(target))
    /\ UNCHANGED <<venue, db, locals, crashes, clears>>

(* A failed call may have reached the venue. *)
Send(outcome, reached) ==
    /\ pc = "send"
    /\ outcome = "ACCEPTED" => reached
    /\ outcome = "REJECTED" => ~reached
    /\ open' = IF reached THEN open \cup {target} ELSE open
    /\ answer' = outcome
    /\ Goto("record")
    /\ UNCHANGED <<trades, horizon, db, window, owed, target, seen, crashes, clears>>

Record ==
    /\ pc = "record"
    /\ row' = [row EXCEPT ![target] = answer]
    /\ Goto(Resume(target))
    /\ UNCHANGED <<venue, applied, level, incident, diffs, locals, crashes, clears>>

-----------------------------------------------------------------------------

Outcomes == {"ACCEPTED", "REJECTED", "UNKNOWN"}

Process ==
    \/ FetchTrades \/ ApplyTrade \/ Protect \/ Settled
    \/ ReadInternal \/ Compare \/ Guard \/ Decline
    \/ \E e \in Entries : Submit(e)
    \/ Dispatch
    \/ \E outcome \in Outcomes, reached \in BOOLEAN : Send(outcome, reached)
    \/ Record

Environment ==
    \/ \E o \in Orders, asset \in Assets : Fill(o, asset)
    \/ \E o \in Orders : Expire(o)
    \/ \E buy \in BOOLEAN : TradeByHand(buy)
    \/ \E t \in DOMAIN trades : Age(t)
    \/ ClearHalt
    \/ Crash

Next == Process \/ Restart \/ Environment

(* run_forever starts pass after pass and the container is restarted unless it *)
(* was stopped, so the process's own steps are weakly fair.  Nothing is assumed *)
(* of the venue, of the operator or of the strategy.                           *)
Spec == Init /\ [][Next]_vars /\ WF_vars(Process) /\ WF_vars(Restart)

-----------------------------------------------------------------------------
(* Every piece of state has its type: the venue's log, the tables, the locals. *)
TypeOK ==
    /\ trades \in Seq([order : Orders \cup {Manual}, buy : BOOLEAN, asset : Assets])
    /\ open \subseteq Orders /\ horizon \in Nat
    /\ row \in [Orders -> {"absent", "created"} \cup Outcomes]
    /\ applied \subseteq DOMAIN trades
    /\ level \in {"NONE", "BLOCK_NEW_EXPOSURE"}
    /\ incident \in BOOLEAN /\ diffs \in BOOLEAN
    /\ pc \in {"down", "sleep", "settle", "reconcile", "compare", "guard",
               "tick", "dispatch", "send", "record"}
    /\ window \subseteq DOMAIN trades /\ owed \in Nat /\ target \in Orders
    /\ answer \in Outcomes \cup {"none"}
    /\ seen \in [open : SUBSET Orders, position : Int]
    /\ crashes \in 0..MaxCrashes /\ clears \in 0..MaxClears

(* The settlement cursor (live_settlement.py, _cursor) loses no fill of an     *)
(* order of ours that the capture still reports: whenever the highest stored   *)
(* trade id has passed a trade of a linked order, that trade is stored too or  *)
(* is older than seven days, whatever crash, refusal or late link came between. *)
NoRecentTradeLost ==
    \A t \in 1 .. Cursor : Linked(trades[t].order) => t \in applied \/ t <= horizon

(* The docstring of LiveTrades ("resuming from one cannot skip a fill that     *)
(* arrived late, which a time window can"): the cursor passes no trade of a    *)
(* linked order at all.  The capture behind it is a time window.               *)
NoLinkedTradeLost ==
    \A t \in 1 .. Cursor : Linked(trades[t].order) => t \in applied

(* An entry is sent (run_pass's order of checks, up to dispatch's broker call) *)
(* only while the ledger holds nothing unprotected.                            *)
NoEntryWhileUnprotected ==
    pc = "send" => ~Unprotected

(* A trade settlement must record and cannot: its commission is in another     *)
(* asset.  While the capture reports it every pass raises on it, and on a      *)
(* truncated capture too, so nothing behind settlement runs.                   *)
Poisoned ==
    \E t \in Recent : t > Cursor /\ Linked(trades[t].order) /\ ~Supported(t)
Stuck == Poisoned \/ Truncated

(* A position without a stop is noticed (MySqlProtectionGuard): unless         *)
(* settlement is stuck, the switch is thrown or the position is gone.          *)
UnprotectedIsStopped ==
    Unprotected ~> (level # "NONE" \/ ~Unprotected \/ Stuck)

(* Drift is noticed (MySqlReconciler): when the venue holds something other    *)
(* than the ledger, they come to agree or the switch is thrown.  So is a trade *)
(* that grew too old to be fetched.                                            *)
DriftIsStopped ==
    (VenuePosition # Position)
        ~> (level # "NONE" \/ VenuePosition = Position \/ Stuck)

(* Both: neither a missing stop nor drift goes unnoticed by a loop that is     *)
(* restarted whenever it dies.                                                 *)
TroubleIsStopped == UnprotectedIsStopped /\ DriftIsStopped

(* A restarted loop gets past settlement again (run_forever has no handler, so *)
(* whatever raises on what the database holds would raise for ever): only a    *)
(* commission in another asset or a truncated history keeps it from that, for  *)
(* as long as the capture reports it.                                          *)
SettlementCompletes == []<>(pc = "reconcile" \/ Stuck)

(* "And it reached the broker, so it is resting rather than pending": a filled *)
(* entry comes to have a stop the broker accepted.                             *)
StopReachesTheBroker ==
    (Position > 0) ~> (Linked(Stop) \/ Position <= 0)
=============================================================================
