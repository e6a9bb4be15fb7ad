----------------------------- MODULE CashOrders -----------------------------
(* Writing cash orders to KIS and to Toss: what is written down before a       *)
(* request leaves, what an unclear outcome may lead to, and who may send the   *)
(* request of a command again.                                                 *)
EXTENDS Integers, FiniteSets

CONSTANTS
    Orders,        \* the orders to be written, all of the same terms
    Vouched,       \* the orders the authority vouches for, to the last field
    Workers,       \* tasks that call a writer
    Deadlines,     \* from the dispatch of a command to its not_after: what callers may give
    Window,        \* for how long Toss remembers a client order id
    Transit,       \* the longest from a writer's reading of the clock to the provider
    MaxTime,       \* bound on the clock
    MaxManual,     \* bound on orders somebody places by hand
    MaxCalls,      \* bound on the calls of the writers
    MaxFaults      \* bound on deaths

ASSUME CashAssumption ==
    /\ Vouched \subseteq Orders /\ "manual" \notin Orders /\ "nobody" \notin Workers
    /\ Deadlines \subseteq Nat \ {0} /\ Window \in Nat \ {0} /\ Transit \in Nat /\ MaxTime \in Nat
    /\ MaxManual \in Nat /\ MaxCalls \in Nat /\ MaxFaults \in Nat

VARIABLES
    provider,      \* "KIS" or "TOSS"
    deadline,      \* the one the callers give
    process,       \* worker -> the process it belongs to, the lease_owner
    now,           \* the clock, in seconds
    attempted,     \* command -> its dispatch_attempted_at, or Never
    rec,           \* command -> its dispatch record or recovery lease
    call,          \* worker -> the call it is making
    wire,          \* requests on their way to the provider
    answers,       \* worker -> the answer that came back for it
    book,          \* the provider's orders
    told,          \* command -> the exact results its callers were given
    adopted,       \* command -> the order a recovery took for its own
    target,        \* order -> the number its cancel names, or 0: target_broker_order_id
    calls, faults

vars == <<provider, deadline, process, now, attempted, rec, call, wire, answers, book, told,
          adopted, target, calls, faults>>
ambient == <<provider, deadline, process, faults>>
writerVars == <<ambient, calls>>

Command == [type : {"SUBMIT", "CANCEL"}, of : Orders]
Never == -1
Manual == "manual"
Nobody == "nobody"

NoRecord == [state |-> "NONE", owner |-> "", replays |-> 0]
Idle == [at |-> "idle"]
NoAnswer == "none"
Result == {"ACKNOWLEDGED", "RECOVERED", "REJECTED", "NOT_SENT"}
NothingAdopted == [n |-> 0, seen |-> 0, until |-> Never]

not_after(c) == attempted[c] + deadline
(* A lease ends with the command, and never after Toss forgot the id. *)
Lease == IF deadline < Window THEN deadline ELSE Window
lease_expires_at(c) == attempted[c] + Lease

Init ==
    /\ provider \in {"KIS", "TOSS"} /\ deadline \in Deadlines
    /\ provider = "KIS" => \A d \in Deadlines : d <= deadline    \* only Toss's lease depends on it
    /\ process \in {p \in [Workers -> Workers] :
                      (\A w \in Workers : p[w] = w) \/ (\A v, w \in Workers : p[v] = p[w])}
    /\ now = 0
    /\ attempted = [c \in Command |-> Never]
    /\ rec = [c \in Command |-> NoRecord]
    /\ call = [w \in Workers |-> Idle]
    /\ wire = {} /\ answers = [w \in Workers |-> NoAnswer]
    /\ book = {}
    /\ told = [c \in Command |-> {}]
    /\ adopted = [c \in Command |-> NothingAdopted]
    /\ target = [of \in Orders |-> 0]
    /\ calls = 0 /\ faults = 0

Own(c) == {o \in book : o.of = c.of}

-----------------------------------------------------------------------------
(* The provider.  KIS makes an order of every request; Toss answers a request  *)
(* whose client order id it remembers with the order it made of it.            *)

Remembered(c) == {o \in Own(c) : provider = "TOSS" /\ now < o.at + Window}

Place(of) == book' = book \cup {[of |-> of, n |-> Cardinality(book) + 1, at |-> now, open |-> TRUE]}

Accept(c) ==
    IF c.type = "CANCEL"
    THEN /\ \E o \in book : o.n = target[c.of] /\ o.open
         /\ book' = {IF o.n = target[c.of] THEN [o EXCEPT !.open = FALSE] ELSE o : o \in book}
    ELSE IF Remembered(c) # {} THEN UNCHANGED book ELSE Place(c.of)

(* An answer reaches the call that waits for it, if it still does. *)
Reply(r, a) ==
    answers' = [w \in Workers |-> IF w = r.by THEN a ELSE answers[w]]

(* A request arrives and is carried out, or refused; its answer may be broken, *)
(* contradict its status or never come back.  Or the request never arrives.    *)
Arrive ==
    \E r \in wire :
        /\ wire' = wire \ {r}
        /\ \/ /\ Accept(r.of)
              /\ \E a \in {"ok", "unclear", NoAnswer} : Reply(r, a)
           \/ /\ Remembered(r.of) = {}
              /\ Reply(r, "refused") /\ UNCHANGED book
           \/ UNCHANGED <<answers, book>>
        /\ UNCHANGED <<writerVars, now, attempted, rec, call, told, adopted, target>>

(* Somebody places an order of the same terms by hand, which only KIS's        *)
(* recovery could take for its own. *)
ManualOrder ==
    /\ provider = "KIS"
    /\ Cardinality({o \in book : o.of = Manual}) < MaxManual
    /\ Place(Manual)
    /\ UNCHANGED <<writerVars, now, attempted, rec, call, wire, answers, told, adopted,
                   target>>

-----------------------------------------------------------------------------
(* What the writers verify before anything is written down.                    *)

(* The context is the command's, of its binding generation, locked, and the    *)
(* writer capability is there. *)
WriteContext(c) == c.of \in Vouched

KisContextMatches(c) == WriteContext(c) /\ attempted[c] < not_after(c)

TossContextMatches(c, at, first) ==
    /\ WriteContext(c) /\ c.type = "SUBMIT"
    /\ attempted[c] <= at /\ at < not_after(c)
    /\ first => at < attempted[c] + Window

(* The orders a result of the submission named: the order made of it, and the  *)
(* one a recovery took for that.                                               *)
Submission(of) == [type |-> "SUBMIT", of |-> of]
CancelTarget(of) ==
    LET s == Submission(of) IN
    {o.n : o \in {p \in Own(s) : "ACKNOWLEDGED" \in told[s]}}
    \cup {n \in {adopted[s].n} : "RECOVERED" \in told[s]}

Begin(w, c, op, at) ==
    /\ calls < MaxCalls /\ calls' = calls + 1
    /\ call' = [call EXCEPT ![w] = [at |-> at, of |-> c, op |-> op, clock |-> now]]
    /\ UNCHANGED <<ambient, now, rec, wire, answers, book, told, adopted>>

(* The dispatcher stamps a command once, before it first calls the writer. *)
Stamp(c) ==
    attempted' = IF attempted[c] = Never THEN [attempted EXCEPT ![c] = now] ELSE attempted

(* A cancel is written to one of them, and keeps to it. *)
Aim(c) ==
    IF c.type = "CANCEL" /\ target[c.of] = 0
    THEN \E n \in CancelTarget(c.of) : target' = [target EXCEPT ![c.of] = n]
    ELSE UNCHANGED target

(* submit_locked, cancel_locked: also what a restarted dispatcher calls again. *)
KisWrite(w, c) ==
    /\ provider = "KIS" /\ call[w] = Idle
    /\ WriteContext(c)
    /\ Aim(c)
    /\ Stamp(c)
    /\ Begin(w, c, "write", "claim")

KisRecoverSubmit(w, c) ==
    /\ provider = "KIS" /\ call[w] = Idle
    /\ c.type = "SUBMIT" /\ attempted[c] # Never
    /\ KisContextMatches(c) /\ now < not_after(c)
    /\ UNCHANGED <<attempted, target>>
    /\ Begin(w, c, "recover", "claim")

TossSubmit(w, c) ==
    /\ provider = "TOSS" /\ call[w] = Idle
    /\ Stamp(c)
    /\ attempted[c] # Never => TossContextMatches(c, now, TRUE)
    /\ WriteContext(c) /\ c.type = "SUBMIT" /\ UNCHANGED target
    /\ Begin(w, c, "write", "claim")

(* The lease is read before, and claimed after, the authority and the clock. *)
TossRecover(w, c) ==
    /\ provider = "TOSS" /\ call[w] = Idle
    /\ rec[c].state = "OPEN"
    /\ TossContextMatches(c, now, FALSE)
    /\ UNCHANGED <<attempted, target>>
    /\ Begin(w, c, "recover", "claim")

(* TossSubmitRecovery sends the same body again, and keeps no record. *)
TossResend(w, c) ==
    /\ provider = "TOSS" /\ call[w] = Idle
    /\ c.type = "SUBMIT" /\ attempted[c] # Never
    /\ now < not_after(c) /\ now < attempted[c] + Window
    /\ UNCHANGED <<attempted, target>>
    /\ Begin(w, c, "resend", "send")

-----------------------------------------------------------------------------
(* Claims: who may send.                                                       *)

Step(w, at) == call' = [call EXCEPT ![w] = [@ EXCEPT !.at = at]]
Return(w) == call' = [call EXCEPT ![w] = Idle]
Tell(c, result) == told' = [told EXCEPT ![c] = @ \cup {result}]

(* What is made of a record that another call, or an earlier one, left. *)
ExistingResult(c) ==
    IF rec[c].state \in {"ACKNOWLEDGED", "REJECTED"} THEN Tell(c, rec[c].state) ELSE UNCHANGED told

KisClaimBug(w) ==
    LET c == call[w].of IN
    \/ /\ rec[c].state \in {"NONE", "PREPARED"}
       /\ rec' = [rec EXCEPT ![c] = [state |-> "PREPARED", owner |-> process[w], replays |-> 0]]
       /\ Step(w, "send") /\ UNCHANGED told
    \/ /\ rec[c].state \notin {"NONE", "PREPARED"}
       /\ ExistingResult(c) /\ Return(w) /\ UNCHANGED rec

(* dispatch_once: the command's record is written once, and only its writer    *)
(* sends; an ambiguous one sends a recovery to the day's orders. *)
KisClaim(w) ==
    LET c == call[w].of IN
    \/ /\ rec[c].state = "NONE"
       /\ rec' = [rec EXCEPT ![c] = [state |-> "PREPARED", owner |-> process[w], replays |-> 0]]
       /\ Step(w, "send") /\ UNCHANGED told
    \/ /\ rec[c].state = "AMBIGUOUS" /\ call[w].op = "recover"
       /\ Step(w, "read") /\ UNCHANGED <<rec, told>>
    \/ /\ rec[c].state # "NONE" /\ ~(rec[c].state = "AMBIGUOUS" /\ call[w].op = "recover")
       /\ ExistingResult(c) /\ Return(w) /\ UNCHANGED rec

(* A binding has one open lease. *)
ActiveBinding(c) == \E d \in Command \ {c} : rec[d].state = "OPEN"

TossPrepare(w) ==
    LET c == call[w].of IN
    IF rec[c].state = "NONE" /\ ~ActiveBinding(c)
    THEN /\ rec' = [rec EXCEPT ![c] = [state |-> "OPEN", owner |-> process[w], replays |-> 0]]
         /\ Step(w, "send") /\ UNCHANGED told
    ELSE ExistingResult(c) /\ Return(w) /\ UNCHANGED rec

TossClaimReplay(w) ==
    LET c == call[w].of IN
    \/ /\ rec[c].state = "OPEN" /\ call[w].clock < lease_expires_at(c) /\ rec[c].replays = 0
       /\ rec' = [rec EXCEPT ![c] = [@ EXCEPT !.owner = process[w], !.replays = 1]]
       /\ Step(w, "send") /\ UNCHANGED told
    \/ /\ rec[c].state = "OPEN" /\ call[w].clock >= lease_expires_at(c)
       /\ rec' = [rec EXCEPT ![c].state = "UNKNOWN"]
       /\ Return(w) /\ UNCHANGED told
    \/ /\ rec[c].state # "OPEN" \/ (rec[c].replays > 0 /\ call[w].clock < lease_expires_at(c))
       /\ ExistingResult(c) /\ Return(w) /\ UNCHANGED rec

Claim(w) ==
    /\ call[w].at = "claim"
    /\ IF provider = "KIS" THEN KisClaim(w)
       ELSE IF call[w].op = "write" THEN TossPrepare(w) ELSE TossClaimReplay(w)
    /\ UNCHANGED <<writerVars, now, attempted, wire, answers, book, adopted, target>>

-----------------------------------------------------------------------------
(* Sending, and what is recorded of the outcome.                               *)

Send(w) ==
    /\ call[w].at = "send"
    /\ Step(w, "wait")
    /\ wire' = wire \cup {[of |-> call[w].of, by |-> w, since |-> call[w].clock]}
    /\ UNCHANGED <<writerVars, now, attempted, rec, answers, book, told, adopted, target>>

(* A Toss lease is finished while it is open and by the process that holds it. *)
TossFinish(w, c, state) ==
    IF rec[c].state = "OPEN" /\ rec[c].owner = process[w]
    THEN rec' = [rec EXCEPT ![c].state = state]
    ELSE UNCHANGED rec

KisFinish(c, state) == rec' = [rec EXCEPT ![c].state = state]

KisOutcomeBug(answer) ==
    CASE answer = "ok" -> "ACKNOWLEDGED"
      [] answer = "refused" -> "REJECTED"
      [] OTHER -> "NOT_SENT"

(* The class KIS's answer falls into; a status that contradicts it is unclear. *)
KisOutcome(answer) ==
    CASE answer = "ok" -> "ACKNOWLEDGED"
      [] answer = "refused" -> "REJECTED"
      [] OTHER -> "AMBIGUOUS"

KisAnswered(w, answer) ==
    LET c == call[w].of  state == KisOutcome(answer) IN
    /\ KisFinish(c, state)
    /\ IF state = "AMBIGUOUS" THEN UNCHANGED told ELSE Tell(c, state)
    (* a recovery that sent for itself looks at the day's orders, too *)
    /\ IF state = "AMBIGUOUS" /\ call[w].op = "recover" THEN Step(w, "read") ELSE Return(w)

(* Toss's answer is an acknowledgement of this client order id or it is        *)
(* nothing: a first submission leaves its lease open, a replay closes it. *)
TossAnswered(w, answer) ==
    LET c == call[w].of  ok == answer = "ok" IN
    /\ IF call[w].op = "resend" \/ (~ok /\ call[w].op = "write") THEN UNCHANGED rec
       ELSE TossFinish(w, c, IF ok THEN "ACKNOWLEDGED" ELSE "UNKNOWN")
    /\ IF ~ok THEN UNCHANGED told
       ELSE IF call[w].op = "resend" \/ rec'[c] # rec[c] THEN Tell(c, "ACKNOWLEDGED")
       ELSE UNCHANGED told
    /\ Return(w)

(* A request outlives the call that waited for its answer. *)
Abandon(ws) == wire' = {[r EXCEPT !.by = IF @ \in ws THEN Nobody ELSE @] : r \in wire}

Outcome(w, answer) ==
    /\ IF provider = "KIS" THEN KisAnswered(w, answer) ELSE TossAnswered(w, answer)
    /\ answers' = [answers EXCEPT ![w] = NoAnswer]
    /\ Abandon({w})
    /\ UNCHANGED <<writerVars, now, attempted, book, adopted, target>>

Answered(w) == call[w].at = "wait" /\ answers[w] # NoAnswer /\ Outcome(w, answers[w])

(* The connection broke, or nothing came in time: the request may have arrived. *)
PostSendFailure(w) == call[w].at = "wait" /\ answers[w] = NoAnswer /\ Outcome(w, "lost")

(* No byte left: KIS's record says so, a first Toss submission's lease stays open. *)
PreSendFailure(w) ==
    LET c == call[w].of IN
    /\ call[w].at = "send"
    /\ CASE provider = "KIS" -> KisFinish(c, "NOT_SENT")
         [] provider = "TOSS" /\ call[w].op = "recover" -> TossFinish(w, c, "UNKNOWN")
         [] OTHER -> UNCHANGED rec
    /\ IF provider = "KIS" THEN Tell(c, "NOT_SENT") ELSE UNCHANGED told
    /\ Return(w)
    /\ UNCHANGED <<writerVars, now, attempted, wire, answers, book, adopted, target>>

-----------------------------------------------------------------------------
(* Recovery of an ambiguous KIS order from the day's orders.                   *)

(* The orders of the command's terms the provider stamped inside the window. *)
Matches(c, until) == {o \in book : attempted[c] <= o.at /\ o.at <= until}

recover_ambiguous_cash_orderBug(c, exact, until) ==
    IF exact # {}
    THEN /\ \E o \in exact :
                adopted' = [adopted EXCEPT ![c] = [n |-> o.n, seen |-> Cardinality(book),
                                                  until |-> until]]
         /\ Tell(c, "RECOVERED")
    ELSE UNCHANGED <<adopted, told>>

recover_ambiguous_cash_order(c, exact, until) ==
    IF Cardinality(exact) = 1
    THEN /\ \E o \in exact :
                adopted' = [adopted EXCEPT ![c] = [n |-> o.n, seen |-> Cardinality(book),
                                                  until |-> until]]
         /\ Tell(c, "RECOVERED")
    ELSE UNCHANGED <<adopted, told>>

ReadDailyOrders(w) ==
    /\ call[w].at = "read"
    /\ \/ LET c == call[w].of  until == call[w].clock IN
          recover_ambiguous_cash_order(c, Matches(c, until), until)
       \/ UNCHANGED <<adopted, told>>    \* the day's orders cannot be read
    /\ Return(w)
    /\ UNCHANGED <<writerVars, now, attempted, rec, wire, answers, book, target>>

-----------------------------------------------------------------------------
(* A process dies: the calls of its tasks end where they are. *)
Die(p) ==
    /\ faults < MaxFaults /\ faults' = faults + 1
    /\ \E w \in Workers : process[w] = p /\ call[w] # Idle
    /\ call' = [w \in Workers |-> IF process[w] = p THEN Idle ELSE call[w]]
    /\ answers' = [w \in Workers |-> IF process[w] = p THEN NoAnswer ELSE answers[w]]
    /\ Abandon({w \in Workers : process[w] = p})
    /\ UNCHANGED <<provider, deadline, process, calls, now, attempted, rec, book, told, adopted,
                   target>>

Tick ==
    /\ now < MaxTime
    /\ \A r \in wire : now < r.since + Transit
    (* what was decided with the clock is sent within the transit time *)
    /\ \A w \in Workers : call[w].at \in {"claim", "send"} => now < call[w].clock + Transit
    /\ now' = now + 1
    /\ UNCHANGED <<writerVars, attempted, rec, call, wire, answers, book, told, adopted, target>>

Next ==
    \/ \E w \in Workers :
        \/ \E c \in Command :
            \/ KisWrite(w, c) \/ KisRecoverSubmit(w, c)
            \/ TossSubmit(w, c) \/ TossRecover(w, c) \/ TossResend(w, c)
        \/ Claim(w) \/ Send(w) \/ Answered(w) \/ PostSendFailure(w) \/ PreSendFailure(w)
        \/ ReadDailyOrders(w)
    \/ \E p \in Workers : Die(p)
    \/ Arrive \/ ManualOrder \/ Tick

Spec == Init /\ [][Next]_vars

-----------------------------------------------------------------------------
(* However often a command is submitted, recovered or sent again, by however   *)
(* many tasks, and wherever they die, the provider holds one order of it at    *)
(* most: dispatch_once and the replay lease.  At Toss, provided a lease ends   *)
(* early enough for what is sent under it to arrive while Toss remembers the   *)
(* id: commands have five minutes and Toss remembers for ten. *)
NeverTwice ==
    provider = "KIS" \/ Lease + Transit <= Window =>
        \A o \in Orders : Cardinality(Own(Submission(o))) <= 1

(* An acknowledged submission is an order of that command, and of one said to  *)
(* be refused or not sent nothing is at the provider or on its way. The order  *)
(* an acknowledged cancel names is closed: the command's own, and then it has  *)
(* no other open, or one that a recovery took for it: _finish_response,        *)
(* cancel_locked.                                                              *)
AnswerIsTrue ==
    \A c \in Command :
        /\ c.type = "SUBMIT" /\ "ACKNOWLEDGED" \in told[c] => Own(c) # {}
        /\ c.type = "SUBMIT" /\ told[c] \cap {"REJECTED", "NOT_SENT"} # {} =>
              Own(c) = {} /\ \A r \in wire : r.of # c
        /\ c.type = "CANCEL" /\ "ACKNOWLEDGED" \in told[c] =>
              \E o \in book :
                  /\ o.n = target[c.of] /\ ~o.open
                  /\ IF o.of = c.of THEN \A p \in Own(c) : ~p.open
                     ELSE "RECOVERED" \in told[Submission(c.of)]

(* What a caller would like to read in an acknowledged cancel: nothing of that *)
(* order is open.  The cancel of a recovered order refutes it, when that is a  *)
(* stranger's and the command's own arrives late.                              *)
NothingLeftOpen ==
    \A c \in Command :
        c.type = "CANCEL" /\ "ACKNOWLEDGED" \in told[c] => \A o \in Own(c) : ~o.open

(* A recovery takes a stranger's order for the command's only if the command's *)
(* own was not there when it looked, or came after the window it looked at:    *)
(* recover_ambiguous_cash_order wants a unique match. *)
AdoptsItsOwn ==
    \A c \in Command : \A o \in Own(c) :
        adopted[c].n # 0 /\ o.n <= adopted[c].seen /\ o.at <= adopted[c].until => o.n = adopted[c].n
=============================================================================
