-------------------------- MODULE CashOrdersProofs --------------------------
(***************************************************************************)
(* CashOrders holds for any orders, tasks and processes, any deadlines,    *)
(* any number of calls, deaths and orders placed by hand.                  *)
(***************************************************************************)
EXTENDS CashOrders, FiniteSetTheorems, TLAPS

Calls == [at : {"claim", "send", "wait", "read"}, of : Command,
          op : {"write", "recover", "resend"}, clock : Nat]
Records == [state : {"NONE", "PREPARED", "AMBIGUOUS", "ACKNOWLEDGED", "REJECTED", "NOT_SENT",
                     "OPEN", "UNKNOWN"},
            owner : Workers \cup {""}, replays : Nat]
Requests == [of : Command, by : Workers \cup {Nobody}, since : Nat]
BookRows == [of : Orders \cup {Manual}, n : Nat, at : Nat, open : BOOLEAN]
Adoptions == [n : Nat, seen : Nat, until : Nat \cup {Never}]

Typing ==
    /\ provider \in {"KIS", "TOSS"} /\ deadline \in Nat \ {0}
    /\ process \in [Workers -> Workers] /\ now \in Nat
    /\ attempted \in [Command -> Nat \cup {Never}]
    /\ rec \in [Command -> Records] /\ call \in [Workers -> Calls \cup {Idle}]
    /\ wire \subseteq Requests /\ answers \in [Workers -> {NoAnswer, "ok", "unclear", "refused"}]
    /\ book \subseteq BookRows /\ told \in [Command -> SUBSET Result]
    /\ adopted \in [Command -> Adoptions] /\ target \in [Orders -> Nat]

(* The provider numbers its orders. *)
Numbered ==
    /\ IsFiniteSet(book)
    /\ \A o \in book : o.n \in 1 .. Cardinality(book)
    /\ \A o, p \in book : o.n = p.n => o = p

(* What is called, sent or made of a command comes after the command's stamp, *)
(* and what was decided with the clock arrives within the transit time.        *)
Clocks ==
    /\ \A c \in Command : attempted[c] <= now
    /\ \A c \in Command : rec[c].state # "NONE" => attempted[c] # Never
    /\ \A w \in Workers : call[w] # Idle => attempted[call[w].of] # Never
    /\ \A w \in Workers : call[w].at \in {"claim", "send"} => now <= call[w].clock + Transit
    /\ \A r \in wire : attempted[r.of] # Never /\ now <= r.since + Transit
    /\ \A o \in book : o.of \in Orders => attempted[Submission(o.of)] \in 0 .. o.at

(* A recovery is of a submission, and only a recovery reads the day's orders. *)
Recovering ==
    \A w \in Workers : call[w] # Idle =>
        /\ call[w].op = "recover" => call[w].of.type = "SUBMIT"
        /\ call[w].at = "read" => call[w].op = "recover"

(* Toss is sent submissions only, each within the lease. *)
InTime ==
    provider = "TOSS" =>
        /\ \A w \in Workers : call[w] # Idle =>
             /\ call[w].of.type = "SUBMIT"
             /\ call[w].op # "recover" \/ call[w].at = "send" => call[w].clock < lease_expires_at(call[w].of)
        /\ \A r \in wire : r.of.type = "SUBMIT" /\ r.since < lease_expires_at(r.of)

Sending(w, c) == call[w].at \in {"send", "wait"} /\ call[w].of = c

(* A KIS command is sent once: by the task that made its record, and until its *)
(* request arrives there is no order of it.                                    *)
OnceOf(c) ==
    /\ rec[c].state = "NONE" => \A w \in Workers : ~Sending(w, c)
    /\ \A v, w \in Workers : Sending(v, c) /\ Sending(w, c) => v = w
    /\ \A w \in Workers : Sending(w, c) /\ call[w].at = "send" => \A r \in wire : r.of # c
    /\ \A r, s \in wire : r.of = c /\ s.of = c => r = s
    /\ rec[c].state = "NONE" => \A r \in wire : r.of # c
    /\ c.type = "SUBMIT" /\ Own(c) # {} =>
         /\ rec[c].state # "NONE"
         /\ \A r \in wire : r.of # c
         /\ \A w \in Workers : Sending(w, c) => call[w].at # "send"

SentOnce == provider = "KIS" => \A c \in Command : OnceOf(c)

(* There is one order of a command, as far as the provider can tell. *)
OneEach ==
    provider = "KIS" \/ Lease + Transit <= Window =>
        \A o, p \in book : o.of = p.of /\ o.of \in Orders => o = p

(* An answer is for the request its task waits for. *)
Waiting ==
    /\ \A r \in wire : r.by \in Workers =>
         call[r.by].at = "wait" /\ call[r.by].of = r.of /\ answers[r.by] = NoAnswer
    /\ \A r, s \in wire : r.by = s.by /\ r.by \in Workers => r = s
    /\ \A w \in Workers : answers[w] # NoAnswer => call[w].at = "wait"

Made(c) ==
    IF c.type = "CANCEL" THEN \E o \in book : o.n = target[c.of] /\ ~o.open ELSE Own(c) # {}
Unmade(c) == Own(c) = {} /\ \A r \in wire : r.of # c

(* An answer is about what was done with the request. *)
AnswerOf(w) ==
    /\ answers[w] = "ok" => Made(call[w].of)
    /\ provider = "KIS" /\ answers[w] = "refused" /\ call[w].of.type = "SUBMIT" => Unmade(call[w].of)

(* What the record of a command and its results say. *)
Acknowledged(c) == "ACKNOWLEDGED" \in told[c] \cup {rec[c].state}
Denied(c) == (told[c] \cup {rec[c].state}) \cap {"REJECTED", "NOT_SENT"} # {}

SaidOf(c) ==
    /\ Acknowledged(c) => Made(c)
    /\ c.type = "SUBMIT" /\ Denied(c) =>
         /\ provider = "KIS" /\ rec[c].state # "NONE"
         /\ Unmade(c) /\ \A w \in Workers : ~Sending(w, c)
    /\ provider = "TOSS" /\ c.type = "CANCEL" => told[c] = {} /\ rec[c].state = "NONE"

Truth == (\A w \in Workers : AnswerOf(w)) /\ (\A c \in Command : SaidOf(c))

(* What a recovery took for the command's own, with what it saw. *)
Adopting ==
    \A c \in Command : adopted[c].n # 0 =>
        /\ c.type = "SUBMIT" /\ adopted[c].seen <= Cardinality(book)
        /\ \A o \in Own(c) :
             o.n <= adopted[c].seen /\ o.at <= adopted[c].until => o.n = adopted[c].n

(* A cancel names an order of its own, or one that a recovery took for that.    *)
Aiming ==
    \A of \in Orders : target[of] # 0 =>
        \/ \E o \in book : o.n = target[of] /\ o.of = of
        \/ "RECOVERED" \in told[Submission(of)]

IInv == Typing /\ Numbered /\ Clocks /\ Recovering /\ InTime /\ SentOnce /\ OneEach /\ Waiting
        /\ Truth /\ Adopting /\ Aiming
-----------------------------------------------------------------------------
(* The names that are nobody's, and the numbers. *)
LEMMA Constants ==
    /\ Manual \notin Orders /\ Nobody \notin Workers /\ Window \in Nat \ {0} /\ Transit \in Nat
    /\ Deadlines \subseteq Nat \ {0}
BY CashAssumption DEF CashAssumption, Manual, Nobody

(* A lease lasts. *)
LEMMA LeaseIsPositive ==
    ASSUME Typing
    PROVE  Lease \in Nat \ {0}
BY Constants DEF Typing, Lease

(* An order is kept when at most its being open changes. *)
Kept(o, p) == p.of = o.of /\ p.n = o.n /\ p.at = o.at /\ (p.open => o.open)

(* The provider's book keeps its orders, and at most one is new. *)
BookGrows(of) ==
    /\ book' \subseteq BookRows /\ Numbered' /\ Cardinality(book) <= Cardinality(book')
    /\ \A o \in book : \E p \in book' : Kept(o, p)
    /\ \A p \in book' :
         \/ \E o \in book : Kept(o, p)
         \/ of # {} /\ p.of \in of /\ p.at = now /\ p.n = Cardinality(book) + 1

(* An order that is placed gets the next number. *)
LEMMA PlaceGrows ==
    ASSUME Typing, Numbered, NEW of \in Orders \cup {Manual}, Place(of)
    PROVE  /\ BookGrows({of}) /\ \E p \in book' : p.of = of
           /\ \A p \in book' : p \in book \/ p.of = of
<1> DEFINE new == [of |-> of, n |-> Cardinality(book) + 1, at |-> now, open |-> TRUE]
<1>1. IsFiniteSet(book) /\ Cardinality(book) \in Nat
  BY FS_CardinalityType DEF Numbered
<1>2. book' = book \cup {new}
  BY DEF Place
<1>3. /\ new.n = Cardinality(book) + 1 /\ new.of = of /\ new.at = now
      /\ new \in BookRows
  BY <1>1 DEF Typing, BookRows
<1> HIDE DEF new
<1>4. new \notin book
  BY <1>1, <1>3 DEF Numbered
<1>5. IsFiniteSet(book') /\ Cardinality(book') = Cardinality(book) + 1
  BY <1>1, <1>2, <1>4, FS_AddElement
<1>6. Numbered'
  <2>1. \A o \in book : o.n \in Nat /\ o.n >= 1 /\ o.n <= Cardinality(book)
    BY <1>1 DEF Numbered
  <2>2. \A o \in book' : o.n \in 1 .. Cardinality(book')
    BY <1>1, <1>2, <1>3, <1>5, <2>1
  <2>3. ASSUME NEW o \in book', NEW p \in book', o.n = p.n PROVE o = p
    <3>1. CASE o = new
      BY <1>1, <1>2, <1>3, <2>1, <2>3, <3>1
    <3>2. CASE p = new
      BY <1>1, <1>2, <1>3, <2>1, <2>3, <3>2
    <3>3. CASE o \in book /\ p \in book
      BY <2>3, <3>3 DEF Numbered
    <3> QED
      BY <1>2, <3>1, <3>2, <3>3
  <2> QED
    BY <1>5, <2>2, <2>3 DEF Numbered
<1>7. book' \subseteq BookRows
  BY <1>2, <1>3 DEF Typing
<1>8. Cardinality(book) <= Cardinality(book')
  BY <1>1, <1>5
<1>9. \A o \in book : o \in book' /\ Kept(o, o)
  BY <1>2 DEF Kept
<1>10. \A p \in book' : p \in book \/ p = new
  BY <1>2
<1> QED
  BY <1>2, <1>3, <1>6, <1>7, <1>8, <1>9, <1>10 DEF BookGrows

(* A cancel closes what it finds, and renumbers nothing. *)
LEMMA CancelGrows ==
    ASSUME Typing, Numbered, NEW c \in Command,
           book' = {IF o.n = target[c.of] THEN [o EXCEPT !.open = FALSE] ELSE o : o \in book}
    PROVE  BookGrows({}) /\ \A p \in book' : p.n = target[c.of] => ~p.open
<1> DEFINE f == [o \in book |-> IF o.n = target[c.of] THEN [o EXCEPT !.open = FALSE] ELSE o]
<1>1. ASSUME NEW o \in book
      PROVE  f[o] \in BookRows /\ Kept(o, f[o]) /\ (o.n = target[c.of] => ~f[o].open)
  <2>1. o \in BookRows
    BY DEF Typing
  <2>2. CASE o.n = target[c.of]
    BY <2>1, <2>2 DEF BookRows, Kept
  <2>3. CASE o.n # target[c.of]
    BY <2>1, <2>3 DEF BookRows, Kept
  <2> QED
    BY <2>2, <2>3
<1>2. book' = {f[o] : o \in book}
  OBVIOUS
<1>3. f \in [book -> book']
  BY <1>2
<1> HIDE DEF f
<1>4. ASSUME NEW o \in book, NEW p \in book, f[o] = f[p] PROVE o = p
  BY <1>1, <1>4 DEF Kept, Numbered
<1>5. IsFiniteSet(book') /\ Cardinality(book') = Cardinality(book)
  <2>1. f \in Injection(book, book')
    BY <1>3, <1>4 DEF Injection, IsInjective
  <2>2. f \in Surjection(book, book')
    BY <1>2, <1>3 DEF Surjection
  <2>3. ExistsBijection(book, book')
    BY <2>1, <2>2 DEF ExistsBijection, Bijection
  <2> QED
    BY <2>3, FS_Bijection DEF Numbered
<1>6. Numbered'
  <2>1. \A p \in book' : p.n \in 1 .. Cardinality(book')
    BY <1>1, <1>2, <1>5 DEF Kept, Numbered
  <2>2. ASSUME NEW p \in book', NEW q \in book', p.n = q.n PROVE p = q
    <3>1. PICK x \in book : p = f[x]
      BY <1>2
    <3>2. PICK y \in book : q = f[y]
      BY <1>2
    <3>3. x.n = y.n
      BY <1>1, <2>2, <3>1, <3>2 DEF Kept
    <3> QED
      BY <3>1, <3>2, <3>3 DEF Numbered
  <2> QED
    BY <1>5, <2>1, <2>2 DEF Numbered
<1>7. Cardinality(book) <= Cardinality(book')
  BY <1>5, FS_CardinalityType
<1>8. book' \subseteq BookRows
  BY <1>1, <1>2
<1>9. \A p \in book' : \E o \in book : Kept(o, p)
  BY <1>1, <1>2
<1>10. \A o \in book : \E p \in book' : Kept(o, p)
  BY <1>1, <1>2
<1>11. \A p \in book' : p.n = target[c.of] => ~p.open
  BY <1>1, <1>2 DEF Kept
<1> QED
  BY <1>6, <1>7, <1>8, <1>9, <1>10, <1>11 DEF BookGrows

(* Nothing placed and nothing closed is nothing new. *)
LEMMA SameBook ==
    ASSUME Typing, Numbered, book' = book
    PROVE  BookGrows({})
<1>1. Cardinality(book) <= Cardinality(book') /\ \A o \in book : Kept(o, o)
  BY FS_CardinalityType DEF Numbered, Kept
<1>2. Numbered'
  BY DEF Numbered
<1> QED
  BY <1>1, <1>2 DEF BookGrows, Typing

-----------------------------------------------------------------------------
(* What the steps of the writers come to. *)

Recorded(c, state) == rec' = [rec EXCEPT ![c].state = state]
Told(c, result) == told' = [told EXCEPT ![c] = @ \cup {result}]

(* What a cancel is written to is chosen once. *)
Aimed ==
    /\ target' \in [Orders -> Nat]
    /\ \A of \in Orders :
         \/ target'[of] = target[of]
         \/ target[of] = 0 /\ target'[of] \in CancelTarget(of)

(* Aim chooses so. *)
LEMMA Aims ==
    ASSUME Typing, NEW c \in Command, Aim(c)
    PROVE  Aimed
<1>1. CASE UNCHANGED target
  BY <1>1 DEF Aimed, Typing
<1>2. CASE c.type = "CANCEL" /\ target[c.of] = 0 /\ ~UNCHANGED target
  <2>1. c.of \in Orders /\ Submission(c.of) \in Command
    BY DEF Command, Submission
  <2>2. PICK n \in CancelTarget(c.of) : target' = [target EXCEPT ![c.of] = n]
    BY <1>2 DEF Aim
  <2>3. (\A o \in book : o.n \in Nat) /\ adopted[Submission(c.of)].n \in Nat
    BY <2>1 DEF Typing, BookRows, Adoptions
  <2>4. n \in Nat
    BY <2>2, <2>3 DEF CancelTarget, Own
  <2> QED
    BY <1>2, <2>1, <2>2, <2>4 DEF Aimed, Typing
<1> QED
  BY <1>1, <1>2 DEF Aim

(* A call begins: its command has its stamp, and at Toss, if it is to be sent  *)
(* without a look at the lease, the lease has not ended.                       *)
Started(w, c, op, at) ==
    /\ call[w] = Idle
    /\ \/ op \in {"write", "recover"} /\ at = "claim"
       \/ op = "resend" /\ at = "send" /\ provider = "TOSS"
    /\ call' = [call EXCEPT ![w] = [at |-> at, of |-> c, op |-> op, clock |-> now]]
    /\ attempted' = IF attempted[c] = Never THEN [attempted EXCEPT ![c] = now] ELSE attempted
    /\ op = "recover" => c.type = "SUBMIT"
    /\ provider = "TOSS" => c.type = "SUBMIT"
    /\ provider = "TOSS" /\ op # "recover" => now < attempted'[c] + Lease
    /\ Aimed
    /\ UNCHANGED <<provider, deadline, process, now, rec, wire, answers, book, told, adopted>>

(* Every call of a writer starts so. *)
LEMMA Starting ==
    ASSUME Typing, Clocks, NEW w \in Workers, NEW c \in Command,
           \/ KisWrite(w, c) \/ KisRecoverSubmit(w, c)
           \/ TossSubmit(w, c) \/ TossRecover(w, c) \/ TossResend(w, c)
    PROVE  \E op \in {"write", "recover", "resend"}, at \in {"claim", "send"} :
             Started(w, c, op, at)
<1> USE DEF Begin, ambient
<1>6. UNCHANGED target => Aimed
  BY DEF Aimed, Typing
<1>1. CASE KisWrite(w, c)
  <2>1. Started(w, c, "write", "claim")
    BY <1>1, Aims DEF KisWrite, Stamp, Started
  <2> QED
    BY <2>1
<1>2. CASE KisRecoverSubmit(w, c)
  <2>1. Started(w, c, "recover", "claim")
    BY <1>2, <1>6 DEF KisRecoverSubmit, Started
  <2> QED
    BY <2>1
<1>3. CASE TossSubmit(w, c)
  <2>1. attempted' = IF attempted[c] = Never THEN [attempted EXCEPT ![c] = now] ELSE attempted
    BY <1>3 DEF TossSubmit, Stamp
  <2>2. now < attempted'[c] + Lease
    <3>1. CASE attempted[c] = Never
      <4>1. attempted'[c] = now
        BY <2>1, <3>1 DEF Typing
      <4> QED
        BY <4>1, LeaseIsPositive DEF Typing
    <3>2. CASE attempted[c] # Never
      <4>1. attempted'[c] = attempted[c] /\ now < attempted[c] + deadline /\ now < attempted[c] + Window
        BY <1>3, <2>1, <3>2 DEF TossSubmit, TossContextMatches, not_after
      <4> QED
        BY <4>1 DEF Lease
    <3> QED
      BY <3>1, <3>2
  <2>3. Started(w, c, "write", "claim")
    BY <1>3, <1>6, <2>1, <2>2 DEF TossSubmit, Started
  <2> QED
    BY <2>3
<1>4. CASE TossRecover(w, c)
  <2>1. attempted[c] # Never /\ c.type = "SUBMIT"
    BY <1>4 DEF TossRecover, TossContextMatches, Clocks
  <2>2. Started(w, c, "recover", "claim")
    BY <1>4, <1>6, <2>1 DEF TossRecover, Started
  <2> QED
    BY <2>2
<1>5. CASE TossResend(w, c)
  <2>1. attempted[c] # Never /\ attempted' = attempted /\ now < attempted[c] + Lease
    BY <1>5 DEF TossResend, not_after, Lease
  <2>2. Started(w, c, "resend", "send")
    BY <1>5, <1>6, <2>1 DEF TossResend, Started
  <2> QED
    BY <2>2
<1> QED
  BY <1>1, <1>2, <1>3, <1>4, <1>5

(* A claim ends in the right to send, in a look at the day's orders, or in     *)
(* what the record says.                                                       *)
Claimed(w, c) ==
    \/ /\ Step(w, "send") /\ UNCHANGED told
       /\ \E x \in Records : /\ rec' = [rec EXCEPT ![c] = x]
                             /\ x.state = IF provider = "KIS" THEN "PREPARED" ELSE "OPEN"
       /\ provider = "KIS" => rec[c].state = "NONE"
       /\ provider = "TOSS" /\ call[w].op = "recover" => call[w].clock < lease_expires_at(c)
    \/ /\ Step(w, "read") /\ UNCHANGED <<rec, told>>
       /\ provider = "KIS" /\ call[w].op = "recover"
    \/ /\ Return(w)
       /\ \/ UNCHANGED rec
          \/ provider = "TOSS" /\ rec[c].state = "OPEN" /\ Recorded(c, "UNKNOWN")
       /\ \/ UNCHANGED told
          \/ rec[c].state \in {"ACKNOWLEDGED", "REJECTED"} /\ Told(c, rec[c].state)

(* A replay changes who holds the lease and how often it was replayed. *)
LEMMA ReplayRecord ==
    ASSUME NEW x \in Records, NEW owner \in Workers
    PROVE  LET y == [x EXCEPT !.owner = owner, !.replays = 1]
           IN  y \in Records /\ y.state = x.state
<1> DEFINE z == [x EXCEPT !.owner = owner]
<1>1. z \in Records /\ z.state = x.state
  BY DEF Records
<1> HIDE DEF z
<1>2. [z EXCEPT !.replays = 1] \in Records /\ [z EXCEPT !.replays = 1].state = z.state
  BY <1>1 DEF Records
<1> QED
  BY <1>1, <1>2 DEF z

(* KisClaim, TossPrepare and TossClaimReplay end so. *)
LEMMA Claiming ==
    ASSUME Typing, NEW w \in Workers, Claim(w)
    PROVE  /\ call[w].at = "claim" /\ Claimed(w, call[w].of)
           /\ UNCHANGED <<provider, deadline, process, now, attempted, wire, answers, book, adopted,
                          target>>
<1> DEFINE c == call[w].of
<1>1. /\ call[w].at = "claim" /\ provider \in {"KIS", "TOSS"}
      /\ UNCHANGED <<provider, deadline, process, now, attempted, wire, answers, book, adopted,
                          target>>
  BY DEF Claim, writerVars, ambient, Typing
<1>2. call[w] \in Calls /\ c \in Command /\ process[w] \in Workers /\ rec[c] \in Records
  BY <1>1 DEF Typing, Calls, Idle
<1>3. \/ UNCHANGED told
      \/ rec[c].state \in {"ACKNOWLEDGED", "REJECTED"} /\ Told(c, rec[c].state)
      \/ ~ExistingResult(c)
  BY DEF ExistingResult, Tell, Told
<1>4. CASE provider = "KIS"
  <2>1. KisClaim(w)
    BY <1>4 DEF Claim
  <2>2. [state |-> "PREPARED", owner |-> process[w], replays |-> 0] \in Records
    BY <1>2 DEF Records
  <2> QED
    BY <1>1, <1>3, <1>4, <2>1, <2>2 DEF KisClaim, Claimed
<1>5. CASE provider = "TOSS" /\ call[w].op = "write"
  <2>1. TossPrepare(w)
    BY <1>5 DEF Claim
  <2>2. [state |-> "OPEN", owner |-> process[w], replays |-> 0] \in Records
    BY <1>2 DEF Records
  <2> QED
    BY <1>1, <1>3, <1>5, <2>1, <2>2 DEF TossPrepare, Claimed
<1>6. CASE provider = "TOSS" /\ call[w].op # "write"
  <2>1. TossClaimReplay(w)
    BY <1>6 DEF Claim
  <2>2. CASE /\ rec[c].state = "OPEN" /\ call[w].clock < lease_expires_at(c)
             /\ rec' = [rec EXCEPT ![c] = [@ EXCEPT !.owner = process[w], !.replays = 1]]
             /\ Step(w, "send") /\ UNCHANGED told
    <3> DEFINE x == [rec[c] EXCEPT !.owner = process[w], !.replays = 1]
    <3>1. x \in Records /\ x.state = "OPEN"
      BY <1>2, <2>2, ReplayRecord
    <3>3. rec' = [rec EXCEPT ![c] = x]
      BY <2>2
    <3> HIDE DEF x
    <3> QED
      BY <1>1, <1>6, <2>2, <3>1, <3>3 DEF Claimed
  <2>3. CASE /\ rec[c].state = "OPEN" /\ rec' = [rec EXCEPT ![c].state = "UNKNOWN"]
             /\ Return(w) /\ UNCHANGED told
    BY <1>1, <1>6, <2>3 DEF Claimed, Recorded
  <2>4. CASE ExistingResult(c) /\ Return(w) /\ UNCHANGED rec
    BY <1>1, <1>3, <2>4 DEF Claimed
  <2> QED
    BY <2>1, <2>2, <2>3, <2>4 DEF TossClaimReplay
<1> QED
  BY <1>1, <1>4, <1>5, <1>6

(* A call ends with what its answer says, in the record and to its caller. *)
Ended(w, c) ==
    \E state \in {"ACKNOWLEDGED", "REJECTED", "AMBIGUOUS", "UNKNOWN"} :
        /\ UNCHANGED rec \/ Recorded(c, state)
        /\ UNCHANGED told \/ (state \in {"ACKNOWLEDGED", "REJECTED"} /\ Told(c, state))
        /\ state = "ACKNOWLEDGED" => answers[w] = "ok"
        /\ state = "REJECTED" => provider = "KIS" /\ answers[w] = "refused"

(* Every answer, and its absence, ends a call so. *)
LEMMA Ending ==
    ASSUME Typing, NEW w \in Workers, Answered(w) \/ PostSendFailure(w)
    PROVE  /\ call[w].at = "wait" /\ Ended(w, call[w].of) /\ Abandon({w})
           /\ \/ Return(w)
              \/ Step(w, "read") /\ provider = "KIS" /\ call[w].op = "recover"
           /\ answers' = [answers EXCEPT ![w] = NoAnswer]
           /\ UNCHANGED <<provider, deadline, process, now, attempted, book, adopted, target>>
<1> DEFINE c == call[w].of
<1>1. PICK a : /\ Outcome(w, a) /\ call[w].at = "wait"
               /\ (a = "ok" => answers[w] = "ok") /\ (a = "refused" => answers[w] = "refused")
  <2>1. CASE Answered(w)
    BY <2>1 DEF Answered
  <2>2. CASE PostSendFailure(w)
    <3>1. Outcome(w, "lost") /\ call[w].at = "wait"
      BY <2>2 DEF PostSendFailure
    <3> QED
      BY <3>1
  <2> QED
    BY <2>1, <2>2
<1>2. /\ Abandon({w}) /\ answers' = [answers EXCEPT ![w] = NoAnswer]
      /\ UNCHANGED <<provider, deadline, process, now, attempted, book, adopted, target>>
  BY <1>1 DEF Outcome, writerVars, ambient
<1>4. Return(w) \/ (Step(w, "read") /\ provider = "KIS" /\ call[w].op = "recover")
  BY <1>1 DEF Outcome, KisAnswered, TossAnswered
<1>3. Ended(w, c)
  <2>1. CASE provider = "KIS"
    <3>1. KisAnswered(w, a)
      BY <1>1, <2>1 DEF Outcome
    <3>2. CASE a = "ok"
      <4>1. Recorded(c, "ACKNOWLEDGED") /\ Told(c, "ACKNOWLEDGED")
        BY <3>1, <3>2 DEF KisAnswered, KisOutcome, KisFinish, Recorded, Tell, Told
      <4> QED
        BY <1>1, <3>2, <4>1 DEF Ended
    <3>3. CASE a = "refused"
      <4>1. Recorded(c, "REJECTED") /\ Told(c, "REJECTED")
        BY <3>1, <3>3 DEF KisAnswered, KisOutcome, KisFinish, Recorded, Tell, Told
      <4> QED
        BY <1>1, <2>1, <3>3, <4>1 DEF Ended
    <3>4. CASE a # "ok" /\ a # "refused"
      <4>1. Recorded(c, "AMBIGUOUS") /\ UNCHANGED told
        BY <3>1, <3>4 DEF KisAnswered, KisOutcome, KisFinish, Recorded
      <4> QED
        BY <4>1 DEF Ended
    <3> QED
      BY <3>2, <3>3, <3>4
  <2>2. CASE provider # "KIS"
    <3>1. TossAnswered(w, a)
      BY <1>1, <2>2 DEF Outcome
    <3>2. CASE a = "ok"
      <4>1. UNCHANGED rec \/ Recorded(c, "ACKNOWLEDGED")
        BY <3>1, <3>2 DEF TossAnswered, TossFinish, Recorded
      <4>2. UNCHANGED told \/ Told(c, "ACKNOWLEDGED")
        BY <3>1, <3>2 DEF TossAnswered, Tell, Told
      <4> QED
        BY <1>1, <3>2, <4>1, <4>2 DEF Ended
    <3>3. CASE a # "ok"
      <4>1. (UNCHANGED rec \/ Recorded(c, "UNKNOWN")) /\ UNCHANGED told
        BY <3>1, <3>3 DEF TossAnswered, TossFinish, Recorded
      <4> QED
        BY <4>1 DEF Ended
    <3> QED
      BY <3>2, <3>3
  <2> QED
    BY <2>1, <2>2
<1> QED
  BY <1>1, <1>2, <1>3, <1>4

(* A call that could not send says so at KIS, and closes the lease of a replay. *)
LEMMA Failing ==
    ASSUME Typing, NEW w \in Workers, PreSendFailure(w)
    PROVE  /\ call[w].at = "send" /\ Return(w)
           /\ \/ provider = "KIS" /\ Recorded(call[w].of, "NOT_SENT") /\ Told(call[w].of, "NOT_SENT")
              \/ /\ provider = "TOSS" /\ UNCHANGED told
                 /\ UNCHANGED rec \/ Recorded(call[w].of, "UNKNOWN")
           /\ UNCHANGED <<provider, deadline, process, now, attempted, wire, answers, book, adopted,
                          target>>
<1>1. /\ call[w].at = "send" /\ Return(w)
      /\ UNCHANGED <<provider, deadline, process, now, attempted, wire, answers, book, adopted,
                          target>>
  BY DEF PreSendFailure, writerVars, ambient
<1>2. CASE provider = "KIS"
  BY <1>1, <1>2 DEF PreSendFailure, KisFinish, Recorded, Tell, Told
<1>3. CASE provider = "TOSS"
  BY <1>1, <1>3 DEF PreSendFailure, TossFinish, Recorded
<1> QED
  BY <1>1, <1>2, <1>3 DEF Typing

-----------------------------------------------------------------------------
(* What a call becomes, and what the others stay. *)
LEMMA Returned ==
    ASSUME Typing, NEW w \in Workers, Return(w)
    PROVE  /\ call' \in [Workers -> Calls \cup {Idle}] /\ call'[w] = Idle
           /\ \A v \in Workers : v # w => call'[v] = call[v]
BY DEF Typing, Return

(* A call goes on to its next await. *)
LEMMA Stepped ==
    ASSUME Typing, NEW w \in Workers, NEW at \in {"claim", "send", "wait", "read"},
           call[w].at # "idle", Step(w, at)
    PROVE  /\ call' \in [Workers -> Calls \cup {Idle}]
           /\ call[w] \in Calls /\ call'[w] \in Calls /\ call'[w].at = at
           /\ call'[w].of = call[w].of /\ call'[w].op = call[w].op /\ call'[w].clock = call[w].clock
           /\ \A v \in Workers : v # w => call'[v] = call[v]
<1>1. call[w] \in Calls
  BY DEF Typing, Idle
<1> DEFINE x == [call[w] EXCEPT !.at = at]
<1>2. /\ x \in Calls /\ x.at = at /\ x.of = call[w].of /\ x.op = call[w].op
      /\ x.clock = call[w].clock
  BY <1>1 DEF Calls
<1>3. call' = [call EXCEPT ![w] = x]
  BY DEF Step
<1> HIDE DEF x
<1> QED
  BY <1>1, <1>2, <1>3 DEF Typing

(* A call that begins, and the stamp of its command. *)
LEMMA BegunCall ==
    ASSUME Typing, NEW w \in Workers, NEW c \in Command,
           NEW op \in {"write", "recover", "resend"}, NEW at \in {"claim", "send"},
           Started(w, c, op, at)
    PROVE  /\ call' \in [Workers -> Calls \cup {Idle}] /\ call'[w] \in Calls
           /\ call'[w].at = at /\ call'[w].of = c /\ call'[w].op = op /\ call'[w].clock = now
           /\ \A v \in Workers : v # w => call'[v] = call[v]
           /\ attempted' \in [Command -> Nat \cup {Never}] /\ attempted'[c] # Never
           /\ \A d \in Command : attempted[d] # Never => attempted'[d] = attempted[d]
           /\ \A d \in Command : attempted'[d] = attempted[d] \/ attempted'[d] = now
<1> DEFINE x == [at |-> at, of |-> c, op |-> op, clock |-> now]
<1>1. x \in Calls /\ x.at = at /\ x.of = c /\ x.op = op /\ x.clock = now
  BY DEF Calls, Typing
<1>2. call' = [call EXCEPT ![w] = x]
  BY DEF Started
<1>3. /\ attempted' \in [Command -> Nat \cup {Never}] /\ attempted'[c] # Never
      /\ \A d \in Command : attempted[d] # Never => attempted'[d] = attempted[d]
      /\ \A d \in Command : attempted'[d] = attempted[d] \/ attempted'[d] = now
  <2>1. CASE attempted[c] = Never
    BY <2>1 DEF Started, Typing, Never
  <2>2. CASE attempted[c] # Never
    BY <2>2 DEF Started, Typing
  <2> QED
    BY <2>1, <2>2
<1> HIDE DEF x
<1> QED
  BY <1>1, <1>2, <1>3 DEF Typing

(* A record changes its state, a command its results. *)
LEMMA RecordMoves ==
    ASSUME Typing, NEW c \in Command,
           NEW state \in {"ACKNOWLEDGED", "REJECTED", "AMBIGUOUS", "UNKNOWN", "NOT_SENT"},
           Recorded(c, state)
    PROVE  /\ rec' \in [Command -> Records] /\ rec'[c].state = state
           /\ \A d \in Command : d # c => rec'[d] = rec[d]
<1> DEFINE x == [rec[c] EXCEPT !.state = state]
<1>1. x \in Records /\ x.state = state
  BY DEF Typing, Records
<1>2. rec' = [rec EXCEPT ![c] = x]
  BY DEF Recorded
<1> HIDE DEF x
<1> QED
  BY <1>1, <1>2 DEF Typing

(* A result is added to what the callers were told. *)
LEMMA ToldMore ==
    ASSUME Typing, NEW c \in Command, NEW result \in Result, Told(c, result)
    PROVE  /\ told' \in [Command -> SUBSET Result] /\ told'[c] = told[c] \cup {result}
           /\ \A d \in Command : d # c => told'[d] = told[d]
BY DEF Typing, Told

(* The request as it is once the tasks ws no longer wait. *)
Relabeled(r, s, ws) ==
    /\ s.of = r.of /\ s.since = r.since
    /\ s.by = IF r.by \in ws THEN Nobody ELSE r.by
    /\ s = [r EXCEPT !.by = IF r.by \in ws THEN Nobody ELSE r.by]

(* The requests of a call that ends are nobody's. *)
LEMMA Abandoned ==
    ASSUME Typing, NEW ws \in SUBSET Workers, Abandon(ws)
    PROVE  /\ wire' \subseteq Requests
           /\ \A r \in wire : \E s \in wire' : Relabeled(r, s, ws)
           /\ \A s \in wire' : \E r \in wire : Relabeled(r, s, ws)
<1> DEFINE f == [r \in wire |-> [r EXCEPT !.by = IF @ \in ws THEN Nobody ELSE @]]
<1>1. ASSUME NEW r \in wire
      PROVE  f[r] \in Requests /\ Relabeled(r, f[r], ws)
  <2>1. r \in Requests
    BY DEF Typing
  <2>2. CASE r.by \in ws
    BY <2>1, <2>2 DEF Requests, Relabeled
  <2>3. CASE r.by \notin ws
    BY <2>1, <2>3 DEF Requests, Relabeled
  <2> QED
    BY <2>2, <2>3
<1>2. wire' = {f[r] : r \in wire}
  BY DEF Abandon
<1> HIDE DEF f
<1>3. \A s \in wire' : \E r \in wire : s = f[r]
  BY <1>2
<1>4. \A r \in wire : f[r] \in wire'
  BY <1>2
<1> QED
  BY <1>1, <1>3, <1>4

(* A request names its command, its task and the clock it was decided with. *)
LEMMA SentRequest ==
    ASSUME Typing, NEW w \in Workers, Send(w)
    PROVE  LET r == [of |-> call[w].of, by |-> w, since |-> call[w].clock] IN
           /\ wire' = wire \cup {r} /\ r \in Requests
           /\ r.of = call[w].of /\ r.by = w /\ r.since = call[w].clock
           /\ call[w].at = "send" /\ Step(w, "wait")
           /\ UNCHANGED <<provider, deadline, process, now, attempted, rec, answers, book, told,
                          adopted, target>>
<1>1. call[w] \in Calls
  BY DEF Typing, Send, Idle
<1> QED
  BY <1>1 DEF Send, Requests, Calls, writerVars, ambient

-----------------------------------------------------------------------------
(* Each step keeps the invariant. *)

(* A call that begins has a stamped command and holds nothing yet. *)
LEMMA StartKeeps ==
    ASSUME IInv, NEW w \in Workers, NEW c \in Command,
           NEW op \in {"write", "recover", "resend"}, NEW at \in {"claim", "send"},
           Started(w, c, op, at)
    PROVE  IInv'
<1>1. /\ Typing /\ Numbered /\ Clocks /\ Recovering /\ InTime /\ SentOnce /\ OneEach /\ Waiting
      /\ Truth /\ Adopting /\ Aiming
  BY DEF IInv
<1>2. /\ call' \in [Workers -> Calls \cup {Idle}] /\ call'[w] \in Calls
      /\ call'[w].at = at /\ call'[w].of = c /\ call'[w].op = op /\ call'[w].clock = now
      /\ \A v \in Workers : v # w => call'[v] = call[v]
      /\ attempted' \in [Command -> Nat \cup {Never}] /\ attempted'[c] # Never
      /\ \A d \in Command : attempted[d] # Never => attempted'[d] = attempted[d]
      /\ \A d \in Command : attempted'[d] = attempted[d] \/ attempted'[d] = now
  BY <1>1, BegunCall
<1>3. /\ call[w] = Idle /\ call[w].at = "idle"
      /\ UNCHANGED <<provider, deadline, process, now, rec, wire, answers, book, told, adopted>>
      /\ Aimed
      /\ \A d \in Command : Own(d)' = Own(d)
      /\ Lease' = Lease
  BY DEF Started, Idle, Own, Lease
<1>4. /\ answers[w] = NoAnswer /\ \A r \in wire : r.by # w
  BY <1>1, <1>3 DEF Waiting
<1>5. provider = "KIS" => \A v \in Workers, d \in Command : Sending(v, d)' <=> Sending(v, d)
  <2>1. provider = "KIS" => at = "claim"
    BY DEF Started
  <2> QED
    BY <1>2, <1>3, <2>1 DEF Sending
<1>6. Typing'
  BY <1>1, <1>2, <1>3 DEF Typing, Aimed
<1>7. Numbered'
  BY <1>1, <1>3 DEF Numbered
<1>8. Clocks'
  <2>1. \A d \in Command : attempted'[d] <= now'
    BY <1>1, <1>2, <1>3 DEF Clocks, Typing
  <2>2. \A v \in Workers : call'[v] # Idle => attempted'[call'[v].of] # Never
    <3> SUFFICES ASSUME NEW v \in Workers, call'[v] # Idle PROVE attempted'[call'[v].of] # Never
      OBVIOUS
    <3>1. CASE v = w
      BY <1>2, <3>1
    <3>2. CASE v # w
      <4>1. call[v] \in Calls /\ call[v].of \in Command
        BY <1>1, <1>2, <3>2 DEF Typing, Calls
      <4> QED
        BY <1>1, <1>2, <3>2, <4>1 DEF Clocks
    <3> QED
      BY <3>1, <3>2
  <2>3. \A v \in Workers : call'[v].at \in {"claim", "send"} => now' <= call'[v].clock + Transit
    BY <1>1, <1>2, <1>3, Constants DEF Clocks, Typing
  <2>4. \A r \in wire' : attempted'[r.of] # Never /\ now' <= r.since + Transit
    BY <1>1, <1>2, <1>3 DEF Clocks, Typing, Requests
  <2>5. ASSUME NEW o \in book, o.of \in Orders
        PROVE  attempted'[Submission(o.of)] \in 0 .. o.at
    <3>1. Submission(o.of) \in Command
      BY <2>5 DEF Submission, Command
    <3>2. attempted[Submission(o.of)] \in 0 .. o.at /\ attempted[Submission(o.of)] # Never
      BY <1>1, <2>5 DEF Clocks, Never
    <3> QED
      BY <1>2, <3>1, <3>2
  <2>6. \A d \in Command : rec'[d].state # "NONE" => attempted'[d] # Never
    BY <1>1, <1>2, <1>3 DEF Clocks
  <2> QED
    BY <1>3, <2>1, <2>2, <2>3, <2>4, <2>5, <2>6 DEF Clocks
<1>9. Recovering'
  BY <1>1, <1>2 DEF Recovering, Started
<1>10. InTime'
  <2> SUFFICES ASSUME provider = "TOSS" PROVE InTime'
    BY <1>3 DEF InTime
  <2>1. ASSUME NEW v \in Workers, call'[v] # Idle
        PROVE  /\ call'[v].of.type = "SUBMIT"
               /\ call'[v].op # "recover" \/ call'[v].at = "send" =>
                    call'[v].clock < attempted'[call'[v].of] + Lease'
    <3>1. CASE v = w
      BY <1>2, <1>3, <3>1 DEF Started
    <3>2. CASE v # w
      <4>1. call[v] \in Calls /\ call[v].of \in Command /\ call[v] # Idle /\ call'[v] = call[v]
        BY <1>1, <1>2, <2>1, <3>2 DEF Typing, Calls
      <4>2. attempted'[call[v].of] = attempted[call[v].of]
        BY <1>1, <1>2, <4>1 DEF Clocks
      <4> QED
        BY <1>1, <1>3, <4>1, <4>2 DEF InTime, lease_expires_at
    <3> QED
      BY <3>1, <3>2
  <2>2. ASSUME NEW r \in wire
        PROVE  r.of.type = "SUBMIT" /\ r.since < attempted'[r.of] + Lease'
    <3>1. r.of \in Command /\ attempted'[r.of] = attempted[r.of]
      BY <1>1, <1>2 DEF Clocks, Typing, Requests
    <3> QED
      BY <1>1, <1>3, <3>1 DEF InTime, lease_expires_at
  <2> QED
    BY <1>3, <2>1, <2>2 DEF InTime, lease_expires_at
<1>11. SentOnce'
  <2> SUFFICES ASSUME provider = "KIS", NEW d \in Command PROVE OnceOf(d)'
    BY <1>3 DEF SentOnce
  <2> QED
    BY <1>1, <1>2, <1>3, <1>5 DEF SentOnce, OnceOf, Sending
<1>12. OneEach'
  BY <1>1, <1>3 DEF OneEach
<1>13. Waiting'
  BY <1>1, <1>2, <1>3, <1>4 DEF Waiting
<1>16. \A d \in Command : Made(d) => Made(d)'
  <2>1. ASSUME NEW d \in Command, d.type = "CANCEL", Made(d) PROVE Made(d)'
    <3>1. PICK o \in book : o.n = target[d.of] /\ ~o.open
      BY <2>1 DEF Made
    <3>2. d.of \in Orders /\ target[d.of] # 0
      BY <1>1, <3>1 DEF Numbered, Command
    <3> QED
      BY <1>3, <2>1, <3>1, <3>2 DEF Made, Aimed
  <2> QED
    BY <1>3, <2>1 DEF Made
<1>17. Aiming'
  <2> SUFFICES ASSUME NEW of \in Orders, target'[of] # 0
               PROVE  \/ \E o \in book : o.n = target'[of] /\ o.of = of
                      \/ "RECOVERED" \in told[Submission(of)]
    BY <1>3 DEF Aiming
  <2>1. CASE target'[of] = target[of]
    BY <1>1, <2>1 DEF Aiming
  <2>2. CASE target'[of] \in CancelTarget(of)
    <3>1. Submission(of).of = of
      BY DEF Submission
    <3> QED
      BY <2>2, <3>1 DEF CancelTarget, Own
  <2> QED
    BY <1>3, <2>1, <2>2 DEF Aimed
<1>14. Truth'
  <2>1. ASSUME NEW v \in Workers PROVE AnswerOf(v)'
    <3>1. CASE v = w
      BY <1>3, <1>4, <3>1 DEF AnswerOf, NoAnswer
    <3>2. CASE v # w
      <4>1. AnswerOf(v) /\ call'[v] = call[v]
        BY <1>1, <1>2, <3>2 DEF Truth
      <4>2. CASE answers[v] \in {"ok", "refused"}
        <5>1. call[v].of \in Command
          BY <1>1, <4>2 DEF Waiting, Typing, Calls, Idle, NoAnswer
        <5>2. PICK d \in Command : d = call[v].of
          BY <5>1
        <5>3. (Made(d) => Made(d)') /\ (Unmade(d)' <=> Unmade(d))
          BY <1>3, <1>16 DEF Unmade
        <5> QED
          BY <1>3, <4>1, <5>2, <5>3 DEF AnswerOf
      <4> QED
        BY <1>3, <4>1, <4>2 DEF AnswerOf
    <3> QED
      BY <3>1, <3>2
  <2>2. ASSUME NEW d \in Command PROVE SaidOf(d)'
    <3>1. SaidOf(d)
      BY <1>1 DEF Truth
    <3>2. (Made(d) => Made(d)') /\ (Unmade(d)' <=> Unmade(d))
      BY <1>3, <1>16 DEF Unmade
    <3>3. (Acknowledged(d)' <=> Acknowledged(d)) /\ (Denied(d)' <=> Denied(d))
      BY <1>3 DEF Acknowledged, Denied
    <3> QED
      BY <1>3, <1>5, <3>1, <3>2, <3>3 DEF SaidOf
  <2> QED
    BY <2>1, <2>2 DEF Truth
<1>15. Adopting'
  BY <1>1, <1>3 DEF Adopting
<1> QED
  BY <1>6, <1>7, <1>8, <1>9, <1>10, <1>11, <1>12, <1>13, <1>14, <1>15, <1>17 DEF IInv

(* One task goes on or returns, with nothing sent and nothing arriving. *)
Quiet(w) ==
    /\ call[w] \in Calls /\ call' \in [Workers -> Calls \cup {Idle}]
    /\ \A v \in Workers : v # w => call'[v] = call[v]
    /\ \/ call'[w] = Idle
       \/ /\ call'[w] \in Calls /\ call'[w].of = call[w].of /\ call'[w].op = call[w].op
          /\ call'[w].clock = call[w].clock
          /\ \/ call'[w].at = "send" /\ call[w].at = "claim"
             \/ call'[w].at = "read" /\ call[w].op = "recover" /\ provider = "KIS"
    /\ call[w].at # "wait"
    /\ provider = "TOSS" /\ call'[w].at = "send" => call[w].clock < lease_expires_at(call[w].of)
    /\ rec' \in [Command -> Records] /\ told' \in [Command -> SUBSET Result]
    /\ adopted' \in [Command -> Adoptions]
    /\ \A d \in Command : d # call[w].of => rec'[d] = rec[d]
    /\ UNCHANGED <<provider, deadline, process, now, attempted, wire, answers, book, target>>
    /\ \A d \in Command : told[d] \subseteq told'[d]

(* Nothing sent, nothing arriving: only the record and the results can err. *)
LEMMA QuietKeeps ==
    ASSUME IInv, NEW w \in Workers, Quiet(w)
    PROVE  /\ Typing' /\ Numbered' /\ Clocks' /\ Recovering' /\ InTime' /\ OneEach' /\ Waiting'
           /\ Aiming'
           /\ \A v \in Workers : AnswerOf(v)'
           /\ answers[w] = NoAnswer
<1>1. /\ Typing /\ Numbered /\ Clocks /\ Recovering /\ InTime /\ OneEach /\ Waiting /\ Truth
      /\ Aiming
  BY DEF IInv
<1>2. UNCHANGED <<provider, deadline, process, now, attempted, wire, answers, book, target>>
  BY DEF Quiet
<1>3. /\ call[w] \in Calls /\ call[w] # Idle /\ call[w].of \in Command /\ call[w].at # "wait"
      /\ \A v \in Workers : v # w => call'[v] = call[v]
  BY <1>1 DEF Quiet, Calls, Idle
<1>4. answers[w] = NoAnswer /\ \A r \in wire : r.by # w
  BY <1>1, <1>3 DEF Waiting
<1>5. Typing'
  BY <1>1, <1>2 DEF Typing, Quiet
<1>6. Numbered'
  BY <1>1, <1>2 DEF Numbered
<1>7. Clocks'
  <2>1. \A d \in Command : rec'[d].state # "NONE" => attempted[d] # Never
    BY <1>1, <1>3 DEF Clocks, Quiet
  <2>2. \A v \in Workers : call'[v] # Idle => attempted[call'[v].of] # Never
    BY <1>1, <1>3 DEF Clocks, Quiet
  <2>3. \A v \in Workers : call'[v].at \in {"claim", "send"} => now <= call'[v].clock + Transit
    <3>1. call'[w].at \in {"claim", "send"} => now <= call'[w].clock + Transit
      BY <1>1, <1>3 DEF Clocks, Quiet, Idle
    <3> QED
      BY <1>1, <1>3, <3>1 DEF Clocks
  <2> QED
    BY <1>1, <1>2, <2>1, <2>2, <2>3 DEF Clocks
<1>8. Recovering'
  BY <1>1, <1>3 DEF Recovering, Quiet
<1>9. InTime'
  <2> SUFFICES ASSUME provider = "TOSS" PROVE InTime'
    BY <1>2 DEF InTime
  <2>1. Lease' = Lease
    BY <1>2 DEF Lease
  <2>2. ASSUME NEW v \in Workers, call'[v] # Idle
        PROVE  /\ call'[v].of.type = "SUBMIT"
               /\ call'[v].op # "recover" \/ call'[v].at = "send" =>
                    call'[v].clock < attempted[call'[v].of] + Lease
    <3>1. CASE v = w
      BY <1>1, <1>3, <2>2, <3>1 DEF InTime, Quiet, lease_expires_at
    <3>2. CASE v # w
      BY <1>1, <1>3, <2>2, <3>2 DEF InTime, lease_expires_at
    <3> QED
      BY <3>1, <3>2
  <2>3. \A r \in wire : r.of.type = "SUBMIT" /\ r.since < attempted[r.of] + Lease
    BY <1>1 DEF InTime, lease_expires_at
  <2> QED
    BY <1>2, <2>1, <2>2, <2>3 DEF InTime, lease_expires_at
<1>10. OneEach'
  BY <1>1, <1>2 DEF OneEach, Lease
<1>11. Waiting'
  BY <1>1, <1>2, <1>3, <1>4 DEF Waiting
<1>13. Aiming'
  BY <1>1, <1>2 DEF Aiming, Quiet, Submission, Command
<1>12. ASSUME NEW v \in Workers PROVE AnswerOf(v)'
  <2>1. CASE v = w
    BY <1>2, <1>4, <2>1 DEF AnswerOf, NoAnswer
  <2>2. CASE v # w
    <3>1. AnswerOf(v) /\ call'[v] = call[v]
      BY <1>1, <1>3, <2>2 DEF Truth
    <3> QED
      BY <1>2, <3>1 DEF AnswerOf, Made, Unmade, Own
  <2> QED
    BY <2>1, <2>2
<1> QED
  BY <1>4, <1>5, <1>6, <1>7, <1>8, <1>9, <1>10, <1>11, <1>12, <1>13

(* Who is granted the right to send is the only one. *)
LEMMA ClaimKeeps ==
    ASSUME IInv, NEW w \in Workers, Claim(w)
    PROVE  IInv'
<1> DEFINE c == call[w].of
<1>1. /\ Typing /\ Clocks /\ InTime /\ SentOnce /\ Truth /\ Adopting /\ Aiming
  BY DEF IInv
<1>2. /\ call[w].at = "claim" /\ Claimed(w, c)
      /\ UNCHANGED <<provider, deadline, process, now, attempted, wire, answers, book, adopted,
                          target>>
  BY <1>1, Claiming
<1>3. call[w] \in Calls /\ c \in Command /\ rec[c] \in Records /\ call[w] # Idle
  BY <1>1, <1>2 DEF Typing, Calls, Idle
<1>4. provider = "TOSS" => c.type = "SUBMIT"
  BY <1>1, <1>3 DEF InTime
<1>5. \A d \in Command : ~Sending(w, d)
  BY <1>2 DEF Sending
<1>6. adopted' \in [Command -> Adoptions]
  BY <1>1, <1>2 DEF Typing
<1>7. CASE /\ Step(w, "send") /\ UNCHANGED told
           /\ \E x \in Records : /\ rec' = [rec EXCEPT ![c] = x]
                                 /\ x.state = IF provider = "KIS" THEN "PREPARED" ELSE "OPEN"
           /\ provider = "KIS" => rec[c].state = "NONE"
           /\ provider = "TOSS" /\ call[w].op = "recover" => call[w].clock < lease_expires_at(c)
  <2>1. /\ call' \in [Workers -> Calls \cup {Idle}]
        /\ call'[w] \in Calls /\ call'[w].at = "send"
        /\ call'[w].of = c /\ call'[w].op = call[w].op /\ call'[w].clock = call[w].clock
        /\ \A v \in Workers : v # w => call'[v] = call[v]
    BY <1>1, <1>2, <1>7, Stepped
  <2>2. /\ rec' \in [Command -> Records] /\ \A d \in Command : d # c => rec'[d] = rec[d]
        /\ rec'[c].state = IF provider = "KIS" THEN "PREPARED" ELSE "OPEN"
    BY <1>1, <1>3, <1>7 DEF Typing
  <2>3. provider = "TOSS" => call[w].clock < lease_expires_at(c)
    BY <1>1, <1>3, <1>7 DEF InTime
  <2>4. Quiet(w)
    BY <1>1, <1>2, <1>3, <1>6, <1>7, <2>1, <2>2, <2>3 DEF Quiet, Typing
  <2>5. \A v \in Workers, d \in Command : Sending(v, d)' <=> Sending(v, d) \/ (v = w /\ d = c)
    BY <1>5, <2>1 DEF Sending
  <2>6. SentOnce'
    <3> SUFFICES ASSUME provider = "KIS", NEW d \in Command PROVE OnceOf(d)'
      BY <1>2 DEF SentOnce
    <3>1. \A v \in Workers : v # w => call'[v].at = call[v].at
      BY <2>1
    <3>2. CASE d = c
      <4>1. /\ \A v \in Workers : ~Sending(v, d)
            /\ \A r \in wire : r.of # d
            /\ d.type = "SUBMIT" => Own(d) = {}
        BY <1>1, <1>7, <3>2 DEF SentOnce, OnceOf
      <4>2. Own(d)' = Own(d) /\ wire' = wire /\ rec'[d].state # "NONE"
        BY <1>2, <2>2, <3>2 DEF Own
      <4>3. \A v \in Workers : Sending(v, d)' <=> v = w
        BY <2>5, <3>2, <4>1
      <4> QED
        BY <4>1, <4>2, <4>3 DEF OnceOf
    <3>3. CASE d # c
      <4>1. \A v \in Workers : Sending(v, d)' <=> Sending(v, d)
        BY <2>5, <3>3
      <4>2. OnceOf(d)
        BY <1>1 DEF SentOnce
      <4>3. Own(d)' = Own(d) /\ rec'[d] = rec[d] /\ wire' = wire
        BY <1>2, <2>2, <3>3 DEF Own
      <4>4. \A v \in Workers : Sending(v, d) => v # w
        BY <1>5
      <4> QED
        BY <3>1, <4>1, <4>2, <4>3, <4>4 DEF OnceOf
    <3> QED
      BY <3>2, <3>3
  <2>7. ASSUME NEW d \in Command PROVE SaidOf(d)'
    <3>1. SaidOf(d) /\ told'[d] = told[d]
      BY <1>1, <1>7 DEF Truth
    <3>2. (Made(d)' <=> Made(d)) /\ (Unmade(d)' <=> Unmade(d))
      BY <1>2 DEF Made, Unmade, Own
    <3>3. CASE d = c
      <4>1. rec'[c].state \in {"PREPARED", "OPEN"}
        BY <2>2
      <4>2. (Acknowledged(d)' => Acknowledged(d)) /\ (Denied(d)' => Denied(d))
        BY <3>1, <3>3, <4>1 DEF Acknowledged, Denied
      <4>3. c.type = "SUBMIT" => ~Denied(c)
        BY <1>7, <3>1, <3>3 DEF SaidOf
      <4> QED
        BY <1>2, <1>4, <3>1, <3>2, <3>3, <4>2, <4>3 DEF SaidOf
    <3>4. CASE d # c
      <4>1. rec'[d] = rec[d] /\ \A v \in Workers : Sending(v, d)' <=> Sending(v, d)
        BY <2>2, <2>5, <3>4
      <4>2. (Acknowledged(d)' <=> Acknowledged(d)) /\ (Denied(d)' <=> Denied(d))
        BY <3>1, <4>1 DEF Acknowledged, Denied
      <4> QED
        BY <1>2, <3>1, <3>2, <4>1, <4>2 DEF SaidOf
    <3> QED
      BY <3>3, <3>4
  <2>8. Adopting'
    BY <1>1, <1>2 DEF Adopting, Own
  <2> QED
    BY <2>4, <2>6, <2>7, <2>8, QuietKeeps DEF IInv, Truth
<1>8. CASE /\ \/ /\ Step(w, "read") /\ UNCHANGED <<rec, told>>
                 /\ provider = "KIS" /\ call[w].op = "recover"
              \/ /\ Return(w)
                 /\ \/ UNCHANGED rec
                    \/ provider = "TOSS" /\ rec[c].state = "OPEN" /\ Recorded(c, "UNKNOWN")
                 /\ \/ UNCHANGED told
                    \/ rec[c].state \in {"ACKNOWLEDGED", "REJECTED"} /\ Told(c, rec[c].state)
  <2>1. /\ call' \in [Workers -> Calls \cup {Idle}] /\ call'[w].at \in {"idle", "read"}
        /\ \/ call'[w] = Idle
           \/ /\ call'[w] \in Calls /\ call'[w].at = "read"
              /\ call'[w].of = c /\ call'[w].op = call[w].op /\ call'[w].clock = call[w].clock
              /\ provider = "KIS" /\ call[w].op = "recover"
        /\ \A v \in Workers : v # w => call'[v] = call[v]
    <3>1. CASE Step(w, "read") /\ provider = "KIS" /\ call[w].op = "recover"
      BY <1>1, <1>2, <3>1, Stepped
    <3>2. CASE Return(w)
      BY <1>1, <3>2, Returned DEF Idle
    <3> QED
      BY <1>8, <3>1, <3>2
  <2>2. /\ rec' \in [Command -> Records] /\ \A d \in Command : d # c => rec'[d] = rec[d]
        /\ rec'[c] = rec[c] \/ (provider = "TOSS" /\ rec[c].state = "OPEN" /\ rec'[c].state = "UNKNOWN")
    <3>1. CASE UNCHANGED rec
      BY <1>1, <3>1 DEF Typing
    <3>2. CASE provider = "TOSS" /\ rec[c].state = "OPEN" /\ Recorded(c, "UNKNOWN")
      BY <1>1, <1>3, <3>2, RecordMoves
    <3> QED
      BY <1>8, <3>1, <3>2
  <2>3. /\ told' \in [Command -> SUBSET Result] /\ \A d \in Command : d # c => told'[d] = told[d]
        /\ told'[c] = told[c] \/ (rec[c].state \in {"ACKNOWLEDGED", "REJECTED"} /\ told'[c] = told[c] \cup {rec[c].state})
    <3>1. CASE UNCHANGED told
      BY <1>1, <3>1 DEF Typing
    <3>2. CASE rec[c].state \in {"ACKNOWLEDGED", "REJECTED"} /\ Told(c, rec[c].state)
      <4>1. rec[c].state \in Result
        BY <3>2 DEF Result
      <4> QED
        BY <1>1, <1>3, <3>2, <4>1, ToldMore
    <3> QED
      BY <1>8, <3>1, <3>2
  <2>4. Quiet(w)
    BY <1>1, <1>2, <1>3, <1>6, <2>1, <2>2, <2>3 DEF Quiet
  <2>5. \A v \in Workers, d \in Command : Sending(v, d)' <=> Sending(v, d)
    BY <1>5, <2>1 DEF Sending
  <2>6. SentOnce'
    <3> SUFFICES ASSUME provider = "KIS", NEW d \in Command PROVE OnceOf(d)'
      BY <1>2 DEF SentOnce
    <3>1. \A v \in Workers : Sending(v, d) => call'[v].at = call[v].at
      BY <1>5, <2>1
    <3>2. OnceOf(d)
      BY <1>1 DEF SentOnce
    <3>3. Own(d)' = Own(d) /\ rec'[d] = rec[d] /\ wire' = wire
      BY <1>2, <2>2 DEF Own
    <3> QED
      BY <2>5, <3>1, <3>2, <3>3 DEF OnceOf
  <2>7. ASSUME NEW d \in Command PROVE SaidOf(d)'
    <3>1. SaidOf(d)
      BY <1>1 DEF Truth
    <3>2. (Made(d)' <=> Made(d)) /\ (Unmade(d)' <=> Unmade(d))
      BY <1>2 DEF Made, Unmade, Own
    <3>3. (Acknowledged(d)' => Acknowledged(d)) /\ (Denied(d)' => Denied(d))
      BY <2>2, <2>3 DEF Acknowledged, Denied
    <3>4. provider = "KIS" => rec'[d] = rec[d]
      BY <2>2
    <3>5. provider = "TOSS" /\ d.type = "CANCEL" => told'[d] = told[d] /\ rec'[d] = rec[d]
      BY <1>4, <2>2, <2>3
    <3> QED
      BY <1>2, <2>5, <3>1, <3>2, <3>3, <3>4, <3>5 DEF SaidOf
  <2>8. Adopting'
    BY <1>1, <1>2 DEF Adopting, Own
  <2> QED
    BY <2>4, <2>6, <2>7, <2>8, QuietKeeps DEF IInv, Truth
<1> QED
  BY <1>2, <1>7, <1>8 DEF Claimed

(* A task that could not send leaves a command of which nothing is anywhere. *)
LEMMA FailKeeps ==
    ASSUME IInv, NEW w \in Workers, PreSendFailure(w)
    PROVE  IInv'
<1> DEFINE c == call[w].of
<1>1. /\ Typing /\ Clocks /\ InTime /\ SentOnce /\ Truth /\ Adopting /\ Aiming
  BY DEF IInv
<1>2. /\ call[w].at = "send" /\ Return(w)
      /\ \/ provider = "KIS" /\ Recorded(c, "NOT_SENT") /\ Told(c, "NOT_SENT")
         \/ /\ provider = "TOSS" /\ UNCHANGED told
            /\ UNCHANGED rec \/ Recorded(c, "UNKNOWN")
      /\ UNCHANGED <<provider, deadline, process, now, attempted, wire, answers, book, adopted,
                          target>>
  BY <1>1, Failing
<1>3. call[w] \in Calls /\ c \in Command /\ rec[c] \in Records /\ call[w] # Idle
  BY <1>1, <1>2 DEF Typing, Calls, Idle
<1>4. provider = "TOSS" => c.type = "SUBMIT"
  BY <1>1, <1>3 DEF InTime
<1>5. /\ call' \in [Workers -> Calls \cup {Idle}] /\ call'[w] = Idle /\ call'[w].at = "idle"
      /\ \A v \in Workers : v # w => call'[v] = call[v]
  BY <1>1, <1>2, Returned DEF Idle
<1>6. /\ \A v \in Workers : ~Sending(v, c)' \/ v # w
      /\ \A v \in Workers, d \in Command : Sending(v, d)' <=> Sending(v, d) /\ v # w
  BY <1>5 DEF Sending
<1>7. /\ rec' \in [Command -> Records] /\ \A d \in Command : d # c => rec'[d] = rec[d]
      /\ \/ rec'[c] = rec[c] /\ provider = "TOSS"
         \/ rec'[c].state = "UNKNOWN" /\ provider = "TOSS"
         \/ rec'[c].state = "NOT_SENT" /\ provider = "KIS"
  <2>1. CASE UNCHANGED rec /\ provider = "TOSS"
    BY <1>1, <2>1 DEF Typing
  <2>2. CASE provider = "TOSS" /\ Recorded(c, "UNKNOWN")
    BY <1>1, <1>3, <2>2, RecordMoves
  <2>3. CASE provider = "KIS" /\ Recorded(c, "NOT_SENT")
    BY <1>1, <1>3, <2>3, RecordMoves
  <2> QED
    BY <1>2, <2>1, <2>2, <2>3
<1>8. /\ told' \in [Command -> SUBSET Result] /\ \A d \in Command : d # c => told'[d] = told[d]
      /\ \/ told'[c] = told[c] /\ provider = "TOSS"
         \/ told'[c] = told[c] \cup {"NOT_SENT"} /\ provider = "KIS"
  <2>1. CASE UNCHANGED told /\ provider = "TOSS"
    BY <1>1, <2>1 DEF Typing
  <2>2. CASE provider = "KIS" /\ Told(c, "NOT_SENT")
    <3>1. "NOT_SENT" \in Result
      BY DEF Result
    <3> QED
      BY <1>1, <1>3, <2>2, <3>1, ToldMore
  <2> QED
    BY <1>2, <2>1, <2>2
<1>9. Quiet(w)
  BY <1>1, <1>2, <1>3, <1>5, <1>7, <1>8 DEF Quiet, Typing
<1>10. SentOnce'
  <2> SUFFICES ASSUME provider = "KIS", NEW d \in Command PROVE OnceOf(d)'
    BY <1>2 DEF SentOnce
  <2>1. \A v \in Workers : v # w => call'[v].at = call[v].at
    BY <1>5
  <2>2. OnceOf(d)
    BY <1>1 DEF SentOnce
  <2>3. Own(d)' = Own(d) /\ wire' = wire
    BY <1>2 DEF Own
  <2>4. rec'[d].state = "NONE" => rec[d].state = "NONE"
    BY <1>7
  <2>5. rec[d].state # "NONE" => rec'[d].state # "NONE"
    BY <1>7
  <2> QED
    BY <1>6, <2>1, <2>2, <2>3, <2>4, <2>5 DEF OnceOf
<1>11. ASSUME NEW d \in Command PROVE SaidOf(d)'
  <2>1. SaidOf(d)
    BY <1>1 DEF Truth
  <2>2. (Made(d)' <=> Made(d)) /\ (Unmade(d)' <=> Unmade(d))
    BY <1>2 DEF Made, Unmade, Own
  <2>3. Acknowledged(d)' => Acknowledged(d)
    BY <1>7, <1>8 DEF Acknowledged
  <2>4. CASE d = c /\ provider = "KIS"
    <3>1. Sending(w, d) /\ d.type = "SUBMIT" => Unmade(d)
      BY <1>1, <1>2, <2>4 DEF SentOnce, OnceOf, Unmade
    <3>2. \A v \in Workers : ~Sending(v, d)'
      BY <1>1, <1>2, <1>6, <2>4 DEF SentOnce, OnceOf, Sending
    <3>3. Sending(w, d) /\ rec'[d].state # "NONE"
      BY <1>2, <1>7, <2>4 DEF Sending
    <3> QED
      BY <1>2, <2>1, <2>2, <2>3, <2>4, <3>1, <3>2, <3>3 DEF SaidOf
  <2>5. CASE d # c \/ provider = "TOSS"
    <3>1. Denied(d)' => Denied(d)
      BY <1>7, <1>8, <2>5 DEF Denied
    <3>2. /\ provider = "KIS" => rec'[d] = rec[d]
          /\ provider = "TOSS" /\ d.type = "CANCEL" => told'[d] = told[d] /\ rec'[d] = rec[d]
      BY <1>4, <1>7, <1>8, <2>5
    <3> QED
      BY <1>2, <1>6, <2>1, <2>2, <2>3, <3>1, <3>2 DEF SaidOf
  <2> QED
    BY <1>1, <2>4, <2>5 DEF Typing
<1>12. Adopting'
  BY <1>1, <1>2 DEF Adopting, Own
<1> QED
  BY <1>9, <1>10, <1>11, <1>12, QuietKeeps DEF IInv, Truth

(* A recovery takes the one order of its window, so its own if that is there. *)
LEMMA ReadKeeps ==
    ASSUME IInv, NEW w \in Workers, ReadDailyOrders(w)
    PROVE  IInv'
<1> DEFINE c == call[w].of
           until == call[w].clock
<1>1. /\ Typing /\ Numbered /\ Clocks /\ Recovering /\ InTime /\ SentOnce /\ Truth /\ Adopting /\ Aiming
  BY DEF IInv
<1>2. /\ call[w].at = "read" /\ Return(w)
      /\ UNCHANGED <<provider, deadline, process, now, attempted, rec, wire, answers, book,
                     target>>
  BY DEF ReadDailyOrders, writerVars, ambient
<1>3. call[w] \in Calls /\ c \in Command /\ until \in Nat /\ call[w] # Idle
  BY <1>1, <1>2 DEF Typing, Calls, Idle
<1>4. c.type = "SUBMIT"
  BY <1>1, <1>2, <1>3 DEF Recovering
<1>5. /\ call' \in [Workers -> Calls \cup {Idle}] /\ call'[w] = Idle /\ call'[w].at = "idle"
      /\ \A v \in Workers : v # w => call'[v] = call[v]
  BY <1>1, <1>2, Returned DEF Idle
<1>6. \A v \in Workers, d \in Command : Sending(v, d)' <=> Sending(v, d)
  BY <1>2, <1>5 DEF Sending
<1>7. \/ UNCHANGED <<adopted, told>>
      \/ /\ Cardinality(Matches(c, until)) = 1 /\ Told(c, "RECOVERED")
         /\ \E o \in Matches(c, until) :
              adopted' = [adopted EXCEPT ![c] = [n |-> o.n, seen |-> Cardinality(book), until |-> until]]
  BY DEF ReadDailyOrders, recover_ambiguous_cash_order, Tell, Told
<1>8. /\ told' \in [Command -> SUBSET Result]
      /\ \A d \in Command : told'[d] = told[d] \/ told'[d] = told[d] \cup {"RECOVERED"}
      /\ \A d \in Command : d.type = "CANCEL" => told'[d] = told[d]
  <2>1. CASE UNCHANGED told
    BY <1>1, <2>1 DEF Typing
  <2>2. CASE Told(c, "RECOVERED")
    <3>1. "RECOVERED" \in Result
      BY DEF Result
    <3> QED
      BY <1>1, <1>3, <1>4, <2>2, <3>1, ToldMore
  <2> QED
    BY <1>7, <2>1, <2>2
<1>9. adopted' \in [Command -> Adoptions] /\ Adopting'
  <2>1. CASE UNCHANGED adopted
    BY <1>1, <1>2, <2>1 DEF Typing, Adopting, Own
  <2>2. CASE /\ Cardinality(Matches(c, until)) = 1
             /\ \E o \in Matches(c, until) :
                  adopted' = [adopted EXCEPT ![c] = [n |-> o.n, seen |-> Cardinality(book), until |-> until]]
    <3>1. PICK o \in Matches(c, until) :
            adopted' = [adopted EXCEPT ![c] = [n |-> o.n, seen |-> Cardinality(book), until |-> until]]
      BY <2>2
    <3>2. IsFiniteSet(Matches(c, until))
      BY <1>1, FS_Subset DEF Matches, Numbered
    <3>3. \A p \in Matches(c, until) : p = o
      BY <2>2, <3>1, <3>2, FS_Singleton
    <3>4. o \in BookRows /\ Cardinality(book) \in Nat
      BY <1>1, <3>1, FS_CardinalityType DEF Matches, Typing, Numbered
    <3> DEFINE x == [n |-> o.n, seen |-> Cardinality(book), until |-> until]
    <3>5. x \in Adoptions /\ x.n = o.n /\ x.seen = Cardinality(book) /\ x.until = until
      BY <1>3, <3>4 DEF Adoptions, BookRows
    <3>6. /\ adopted' \in [Command -> Adoptions] /\ adopted'[c] = x
          /\ \A d \in Command : d # c => adopted'[d] = adopted[d]
      <4> HIDE DEF x
      <4> QED
        BY <1>1, <1>3, <3>1, <3>5 DEF Typing, x
    <3>7. ASSUME NEW p \in Own(c), p.at <= until PROVE p.n = o.n
      <4>1. p \in book /\ p.of \in Orders /\ Submission(p.of) = c
        BY <1>3, <1>4, <3>7 DEF Own, Submission, Command
      <4>2. p \in BookRows /\ attempted[c] \in 0 .. p.at
        BY <1>1, <4>1 DEF Clocks, Typing
      <4>3. p \in Matches(c, until)
        BY <3>7, <4>1, <4>2 DEF Matches, BookRows
      <4> QED
        BY <3>3, <4>3
    <3> HIDE DEF x
    <3>8. ASSUME NEW d \in Command, adopted'[d].n # 0
          PROVE  /\ d.type = "SUBMIT" /\ adopted'[d].seen <= Cardinality(book)
                 /\ \A p \in Own(d) :
                      p.n <= adopted'[d].seen /\ p.at <= adopted'[d].until => p.n = adopted'[d].n
      <4>1. CASE d = c
        BY <1>4, <3>4, <3>5, <3>6, <3>7, <4>1
      <4>2. CASE d # c
        BY <1>1, <3>6, <3>8, <4>2 DEF Adopting
      <4> QED
        BY <4>1, <4>2
    <3>9. \A d \in Command : Own(d)' = Own(d) /\ Cardinality(book') = Cardinality(book)
      BY <1>2 DEF Own
    <3> QED
      BY <3>6, <3>8, <3>9 DEF Adopting
  <2> QED
    BY <1>7, <2>1, <2>2
<1>10. Quiet(w)
  BY <1>1, <1>2, <1>3, <1>5, <1>8, <1>9 DEF Quiet, Typing
<1>11. SentOnce'
  <2> SUFFICES ASSUME provider = "KIS", NEW d \in Command PROVE OnceOf(d)'
    BY <1>2 DEF SentOnce
  <2>1. \A v \in Workers : Sending(v, d) => call'[v].at = call[v].at
    BY <1>2, <1>5 DEF Sending
  <2>2. OnceOf(d)
    BY <1>1 DEF SentOnce
  <2>3. Own(d)' = Own(d) /\ wire' = wire /\ rec' = rec
    BY <1>2 DEF Own
  <2> QED
    BY <1>6, <2>1, <2>2, <2>3 DEF OnceOf
<1>12. ASSUME NEW d \in Command PROVE SaidOf(d)'
  <2>1. SaidOf(d)
    BY <1>1 DEF Truth
  <2>2. (Made(d)' <=> Made(d)) /\ (Unmade(d)' <=> Unmade(d))
    BY <1>2 DEF Made, Unmade, Own
  <2>3. (Acknowledged(d)' => Acknowledged(d)) /\ (Denied(d)' => Denied(d))
    BY <1>2, <1>8 DEF Acknowledged, Denied
  <2> QED
    BY <1>2, <1>6, <1>8, <2>1, <2>2, <2>3 DEF SaidOf
<1> QED
  BY <1>9, <1>10, <1>11, <1>12, QuietKeeps DEF IInv, Truth

(* A request leaves: the only one of its command at KIS, in time at Toss. *)
LEMMA SendKeeps ==
    ASSUME IInv, NEW w \in Workers, Send(w)
    PROVE  IInv'
<1> DEFINE c == call[w].of
           new == [of |-> call[w].of, by |-> w, since |-> call[w].clock]
<1>1. /\ Typing /\ Numbered /\ Clocks /\ Recovering /\ InTime /\ SentOnce /\ OneEach /\ Waiting
      /\ Truth /\ Adopting /\ Aiming
  BY DEF IInv
<1>2. /\ wire' = wire \cup {new} /\ new \in Requests
      /\ new.of = c /\ new.by = w /\ new.since = call[w].clock
      /\ call[w].at = "send" /\ Step(w, "wait")
      /\ UNCHANGED <<provider, deadline, process, now, attempted, rec, answers, book, told, adopted,
                     target>>
  BY <1>1, SentRequest
<1> HIDE DEF new
<1>3. /\ call' \in [Workers -> Calls \cup {Idle}]
      /\ call[w] \in Calls /\ call'[w] \in Calls /\ call'[w].at = "wait"
      /\ call'[w].of = c /\ call'[w].op = call[w].op /\ call'[w].clock = call[w].clock
      /\ \A v \in Workers : v # w => call'[v] = call[v]
  BY <1>1, <1>2, Stepped
<1>4. c \in Command /\ call[w] # Idle /\ answers[w] = NoAnswer /\ \A r \in wire : r.by # w
  BY <1>1, <1>2, <1>3 DEF Calls, Idle, Waiting
<1>5. \A v \in Workers, d \in Command : Sending(v, d)' <=> Sending(v, d)
  BY <1>2, <1>3 DEF Sending
<1>6. Sending(w, c)
  BY <1>2 DEF Sending
<1>7. Typing'
  BY <1>1, <1>2, <1>3 DEF Typing
<1>8. Numbered' /\ OneEach' /\ Adopting' /\ Aiming'
  BY <1>1, <1>2 DEF Numbered, OneEach, Lease, Adopting, Aiming, Own
<1>9. Clocks'
  <2>1. \A v \in Workers : call'[v] # Idle => attempted[call'[v].of] # Never
    BY <1>1, <1>3, <1>4 DEF Clocks
  <2>2. \A v \in Workers : call'[v].at \in {"claim", "send"} => now <= call'[v].clock + Transit
    BY <1>1, <1>3 DEF Clocks
  <2>3. \A r \in wire' : attempted[r.of] # Never /\ now <= r.since + Transit
    BY <1>1, <1>2, <1>4 DEF Clocks
  <2> QED
    BY <1>1, <1>2, <2>1, <2>2, <2>3 DEF Clocks
<1>10. Recovering'
  BY <1>1, <1>3, <1>4 DEF Recovering
<1>11. InTime'
  <2> SUFFICES ASSUME provider = "TOSS" PROVE InTime'
    BY <1>2 DEF InTime
  <2>1. Lease' = Lease
    BY <1>2 DEF Lease
  <2>2. ASSUME NEW v \in Workers, call'[v] # Idle
        PROVE  /\ call'[v].of.type = "SUBMIT"
               /\ call'[v].op # "recover" \/ call'[v].at = "send" =>
                    call'[v].clock < attempted[call'[v].of] + Lease
    <3>1. CASE v = w
      BY <1>1, <1>2, <1>3, <1>4, <3>1 DEF InTime, lease_expires_at
    <3>2. CASE v # w
      BY <1>1, <1>3, <2>2, <3>2 DEF InTime, lease_expires_at
    <3> QED
      BY <3>1, <3>2
  <2>3. \A r \in wire' : r.of.type = "SUBMIT" /\ r.since < attempted[r.of] + Lease
    BY <1>1, <1>2, <1>4 DEF InTime, lease_expires_at
  <2> QED
    BY <1>2, <2>1, <2>2, <2>3 DEF InTime, lease_expires_at
<1>12. SentOnce'
  <2> SUFFICES ASSUME provider = "KIS", NEW d \in Command PROVE OnceOf(d)'
    BY <1>2 DEF SentOnce
  <2>1. OnceOf(d)
    BY <1>1 DEF SentOnce
  <2>2. \A v \in Workers : call'[v].at = "send" => v # w /\ call[v].at = "send"
    BY <1>3
  <2>3. Own(d)' = Own(d) /\ rec' = rec
    BY <1>2 DEF Own
  <2>4. CASE d = c
    <3>1. /\ \A r \in wire : r.of # d
          /\ \A v \in Workers : Sending(v, d) => v = w
          /\ rec[d].state # "NONE"
          /\ d.type = "SUBMIT" => Own(d) = {}
      BY <1>2, <1>6, <2>1, <2>4 DEF OnceOf
    <3>2. \A r \in wire' : r.of = d => r = new
      BY <1>2, <3>1
    <3> QED
      BY <1>5, <2>2, <2>3, <3>1, <3>2 DEF OnceOf
  <2>5. CASE d # c
    <3>1. \A r \in wire' : r.of = d => r \in wire
      BY <1>2, <2>5
    <3> QED
      BY <1>5, <2>1, <2>2, <2>3, <3>1 DEF OnceOf
  <2> QED
    BY <2>4, <2>5
<1>13. Waiting'
  <2>1. \A r \in wire' : r.by \in Workers =>
          call'[r.by].at = "wait" /\ call'[r.by].of = r.of /\ answers'[r.by] = NoAnswer
    BY <1>1, <1>2, <1>3, <1>4 DEF Waiting
  <2>2. \A r, s \in wire' : r.by = s.by /\ r.by \in Workers => r = s
    BY <1>1, <1>2, <1>4 DEF Waiting
  <2>3. \A v \in Workers : answers'[v] # NoAnswer => call'[v].at = "wait"
    BY <1>1, <1>2, <1>3 DEF Waiting
  <2> QED
    BY <2>1, <2>2, <2>3 DEF Waiting
<1>14. Truth'
  <2>1. ASSUME NEW v \in Workers PROVE AnswerOf(v)'
    <3>1. CASE v = w
      BY <1>2, <1>4, <3>1 DEF AnswerOf, NoAnswer
    <3>2. CASE v # w
      <4>1. AnswerOf(v) /\ call'[v] = call[v]
        BY <1>1, <1>3, <3>2 DEF Truth
      <4>2. provider = "KIS" /\ answers[v] = "refused" => call[v].of # c
        <5>1. answers[v] = "refused" => call[v].at = "wait"
          BY <1>1 DEF Waiting, NoAnswer
        <5>2. answers[v] = "refused" /\ call[v].of = c => Sending(v, c)
          BY <5>1 DEF Sending
        <5> QED
          BY <1>1, <1>4, <1>6, <3>2, <5>2 DEF SentOnce, OnceOf
      <4>3. \A d : (\A r \in wire : r.of # d) /\ d # c => \A r \in wire' : r.of # d
        BY <1>2
      <4> QED
        BY <1>2, <4>1, <4>2, <4>3 DEF AnswerOf, Made, Unmade, Own
    <3> QED
      BY <3>1, <3>2
  <2>2. ASSUME NEW d \in Command PROVE SaidOf(d)'
    <3>1. SaidOf(d)
      BY <1>1 DEF Truth
    <3>2. (Made(d)' <=> Made(d)) /\ (d # c /\ Unmade(d) => Unmade(d)')
      BY <1>2 DEF Made, Unmade, Own
    <3>3. (Acknowledged(d)' <=> Acknowledged(d)) /\ (Denied(d)' <=> Denied(d))
      BY <1>2 DEF Acknowledged, Denied
    <3>4. d.type = "SUBMIT" /\ Denied(d) => d # c
      BY <1>6, <3>1 DEF SaidOf
    <3> QED
      BY <1>2, <1>5, <3>1, <3>2, <3>3, <3>4 DEF SaidOf
  <2> QED
    BY <2>1, <2>2 DEF Truth
<1> QED
  BY <1>7, <1>8, <1>9, <1>10, <1>11, <1>12, <1>13, <1>14 DEF IInv

(* A recovery that sent and got no clear answer looks at the day's orders.      *)
Looks(v) ==
    /\ provider = "KIS" /\ call[v] # Idle /\ call[v].op = "recover"
    /\ call'[v] \in Calls /\ call'[v].at = "read" /\ call'[v].of = call[v].of
    /\ call'[v].op = call[v].op

(* The tasks ws stop waiting, or stop altogether. *)
Stop(ws) ==
    /\ call' \in [Workers -> Calls \cup {Idle}]
    /\ \A v \in ws : answers'[v] = NoAnswer /\ (call'[v] = Idle \/ Looks(v))
    /\ \A d \in Command : told[d] \subseteq told'[d]
    /\ \A v \in Workers \ ws : call'[v] = call[v] /\ answers'[v] = answers[v]
    /\ answers' \in [Workers -> {NoAnswer, "ok", "unclear", "refused"}]
    /\ Abandon(ws)
    /\ rec' \in [Command -> Records] /\ told' \in [Command -> SUBSET Result]
    /\ \A d \in Command : rec'[d] # rec[d] => attempted[d] # Never
    /\ provider = "KIS" => \A d \in Command : rec'[d].state = "NONE" <=> rec[d].state = "NONE"
    /\ UNCHANGED <<provider, deadline, process, now, attempted, book, adopted, target>>

(* A request outlives its task, and nothing else changes with it. *)
LEMMA StopKeeps ==
    ASSUME IInv, NEW ws \in SUBSET Workers, Stop(ws)
    PROVE  /\ Typing' /\ Numbered' /\ Clocks' /\ Recovering' /\ InTime' /\ SentOnce' /\ OneEach'
           /\ Waiting' /\ Adopting' /\ Aiming'
           /\ \A v \in Workers : AnswerOf(v)'
           /\ \A d \in Command : (Made(d) => Made(d)') /\ (Unmade(d) => Unmade(d)')
           /\ \A v \in Workers, d \in Command : Sending(v, d)' <=> Sending(v, d) /\ v \notin ws
<1>1. /\ Typing /\ Numbered /\ Clocks /\ Recovering /\ InTime /\ SentOnce /\ OneEach /\ Waiting
      /\ Truth /\ Adopting /\ Aiming
  BY DEF IInv
<1>2. UNCHANGED <<provider, deadline, process, now, attempted, book, adopted, target>>
  BY DEF Stop
<1>3. /\ \A v \in ws : /\ answers'[v] = NoAnswer /\ call'[v].at \in {"idle", "read"}
                       /\ call'[v] = Idle \/ Looks(v)
      /\ \A v \in Workers : v \notin ws => call'[v] = call[v] /\ answers'[v] = answers[v]
  BY DEF Stop, Idle, Looks
<1>4. /\ wire' \subseteq Requests
      /\ \A s \in wire' : \E r \in wire : Relabeled(r, s, ws)
  BY <1>1, Abandoned DEF Stop
<1>5. \A v \in Workers, d \in Command : Sending(v, d)' <=> Sending(v, d) /\ v \notin ws
  BY <1>3 DEF Sending
<1>6. Typing'
  BY <1>1, <1>2, <1>4 DEF Typing, Stop
<1>7. Numbered' /\ OneEach' /\ Adopting'
  BY <1>1, <1>2 DEF Numbered, OneEach, Lease, Adopting, Own
<1>8. Clocks'
  <2>1. \A v \in Workers : call'[v] # Idle => attempted[call'[v].of] # Never
    BY <1>1, <1>3 DEF Clocks, Looks
  <2>2. \A v \in Workers : call'[v].at \in {"claim", "send"} => now <= call'[v].clock + Transit
    BY <1>1, <1>3 DEF Clocks
  <2>3. \A s \in wire' : attempted[s.of] # Never /\ now <= s.since + Transit
    BY <1>1, <1>4 DEF Clocks, Relabeled
  <2>4. \A d \in Command : rec'[d].state # "NONE" => attempted[d] # Never
    BY <1>1 DEF Clocks, Stop
  <2> QED
    BY <1>1, <1>2, <2>1, <2>2, <2>3, <2>4 DEF Clocks
<1>9. Recovering'
  BY <1>1, <1>3 DEF Recovering, Looks
<1>10. InTime'
  <2> SUFFICES ASSUME provider = "TOSS" PROVE InTime'
    BY <1>2 DEF InTime
  <2>1. Lease' = Lease
    BY <1>2 DEF Lease
  <2>2. \A v \in Workers : call'[v] # Idle =>
          /\ call'[v].of.type = "SUBMIT"
          /\ call'[v].op # "recover" \/ call'[v].at = "send" =>
                    call'[v].clock < attempted[call'[v].of] + Lease
    BY <1>1, <1>3 DEF InTime, lease_expires_at, Looks
  <2>3. \A s \in wire' : s.of.type = "SUBMIT" /\ s.since < attempted[s.of] + Lease
    BY <1>1, <1>4 DEF InTime, lease_expires_at, Relabeled
  <2> QED
    BY <1>2, <2>1, <2>2, <2>3 DEF InTime, lease_expires_at
<1>11. SentOnce'
  <2> SUFFICES ASSUME provider = "KIS", NEW d \in Command PROVE OnceOf(d)'
    BY <1>2 DEF SentOnce
  <2>1. OnceOf(d)
    BY <1>1 DEF SentOnce
  <2>2. \A v \in Workers : Sending(v, d)' => call'[v] = call[v] /\ Sending(v, d)
    BY <1>3, <1>5
  <2>3. Own(d)' = Own(d) /\ (rec'[d].state = "NONE" <=> rec[d].state = "NONE")
    BY <1>2 DEF Own, Stop
  <2>4. ASSUME NEW r \in wire', NEW s \in wire', r.of = d, s.of = d PROVE r = s
    <3>1. PICK x \in wire : Relabeled(x, r, ws)
      BY <1>4
    <3>2. PICK y \in wire : Relabeled(y, s, ws)
      BY <1>4
    <3>3. x = y
      BY <2>1, <2>4, <3>1, <3>2 DEF OnceOf, Relabeled
    <3> QED
      BY <3>1, <3>2, <3>3 DEF Relabeled
  <2>5. (\A r \in wire : r.of # d) => \A s \in wire' : s.of # d
    BY <1>4 DEF Relabeled
  <2> QED
    BY <2>1, <2>2, <2>3, <2>4, <2>5 DEF OnceOf
<1>12. Waiting'
  <2>1. ASSUME NEW s \in wire', s.by \in Workers
        PROVE  \E r \in wire : Relabeled(r, s, ws) /\ r.by = s.by /\ s.by \notin ws
    BY <1>4, <2>1, Constants DEF Relabeled
  <2>2. \A s \in wire' : s.by \in Workers =>
          call'[s.by].at = "wait" /\ call'[s.by].of = s.of /\ answers'[s.by] = NoAnswer
    BY <1>1, <1>3, <2>1 DEF Waiting, Relabeled
  <2>3. ASSUME NEW r \in wire', NEW s \in wire', r.by = s.by, r.by \in Workers PROVE r = s
    <3>1. PICK x \in wire : Relabeled(x, r, ws) /\ x.by = r.by
      BY <2>1, <2>3
    <3>2. PICK y \in wire : Relabeled(y, s, ws) /\ y.by = s.by
      BY <2>1, <2>3
    <3>3. x = y
      BY <1>1, <2>3, <3>1, <3>2 DEF Waiting
    <3> QED
      BY <3>1, <3>2, <3>3 DEF Relabeled
  <2>4. \A v \in Workers : answers'[v] # NoAnswer => call'[v].at = "wait"
    BY <1>1, <1>3 DEF Waiting
  <2> QED
    BY <2>2, <2>3, <2>4 DEF Waiting
<1>16. Aiming'
  BY <1>1, <1>2 DEF Aiming, Stop, Submission, Command
<1>13. \A d : (\A r \in wire : r.of # d) => \A s \in wire' : s.of # d
  BY <1>4 DEF Relabeled
<1>14. ASSUME NEW v \in Workers PROVE AnswerOf(v)'
  <2>1. CASE v \in ws
    BY <1>3, <2>1 DEF AnswerOf, NoAnswer
  <2>2. CASE v \notin ws
    <3>1. AnswerOf(v) /\ call'[v] = call[v] /\ answers'[v] = answers[v]
      BY <1>1, <1>3, <2>2 DEF Truth
    <3> QED
      BY <1>2, <1>13, <3>1 DEF AnswerOf, Made, Unmade, Own
  <2> QED
    BY <2>1, <2>2
<1>15. \A d \in Command : (Made(d) => Made(d)') /\ (Unmade(d) => Unmade(d)')
  BY <1>2, <1>13 DEF Made, Unmade, Own
<1> QED
  BY <1>5, <1>6, <1>7, <1>8, <1>9, <1>10, <1>11, <1>12, <1>14, <1>15, <1>16

(* A task ends, and its record and its caller are given what the answer says. *)
LEMMA EndKeeps ==
    ASSUME IInv, NEW w \in Workers, Answered(w) \/ PostSendFailure(w)
    PROVE  IInv'
<1> DEFINE c == call[w].of
<1>1. /\ Typing /\ InTime /\ SentOnce /\ Truth
  BY DEF IInv
<1>2. /\ call[w].at = "wait" /\ Ended(w, c) /\ Abandon({w})
      /\ \/ Return(w)
         \/ Step(w, "read") /\ provider = "KIS" /\ call[w].op = "recover"
      /\ answers' = [answers EXCEPT ![w] = NoAnswer]
      /\ UNCHANGED <<provider, deadline, process, now, attempted, book, adopted, target>>
  BY <1>1, Ending
<1>3. call[w] \in Calls /\ c \in Command /\ call[w] # Idle /\ Sending(w, c)
  BY <1>1, <1>2 DEF Typing, Calls, Idle, Sending
<1>4. /\ provider = "TOSS" => c.type = "SUBMIT"
      /\ provider = "KIS" => rec[c].state # "NONE"
  BY <1>1, <1>3 DEF InTime, SentOnce, OnceOf
<1>5. /\ call' \in [Workers -> Calls \cup {Idle}] /\ (call'[w] = Idle \/ Looks(w))
      /\ \A v \in Workers : v # w => call'[v] = call[v]
  <2>1. CASE Return(w)
    BY <1>1, <2>1, Returned
  <2>2. CASE Step(w, "read") /\ provider = "KIS" /\ call[w].op = "recover"
    <3>1. call[w].at # "idle"
      BY <1>2
    <3>2. /\ call' \in [Workers -> Calls \cup {Idle}]
          /\ call'[w] \in Calls /\ call'[w].at = "read"
          /\ call'[w].of = call[w].of /\ call'[w].op = call[w].op
          /\ \A v \in Workers : v # w => call'[v] = call[v]
      BY <1>1, <2>2, <3>1, Stepped
    <3> QED
      BY <1>3, <2>2, <3>2 DEF Looks
  <2> QED
    BY <1>2, <2>1, <2>2
<1>6. PICK state \in {"ACKNOWLEDGED", "REJECTED", "AMBIGUOUS", "UNKNOWN"} :
        /\ UNCHANGED rec \/ Recorded(c, state)
        /\ UNCHANGED told \/ (state \in {"ACKNOWLEDGED", "REJECTED"} /\ Told(c, state))
        /\ state = "ACKNOWLEDGED" => answers[w] = "ok"
        /\ state = "REJECTED" => provider = "KIS" /\ answers[w] = "refused"
  BY <1>2 DEF Ended
<1>7. /\ rec' \in [Command -> Records] /\ \A d \in Command : d # c => rec'[d] = rec[d]
      /\ rec'[c] = rec[c] \/ rec'[c].state = state
  <2>1. CASE UNCHANGED rec
    BY <1>1, <2>1 DEF Typing
  <2>2. CASE Recorded(c, state)
    BY <1>1, <1>3, <2>2, RecordMoves
  <2> QED
    BY <1>6, <2>1, <2>2
<1>8. /\ told' \in [Command -> SUBSET Result] /\ \A d \in Command : d # c => told'[d] = told[d]
      /\ told'[c] = told[c] \/ told'[c] = told[c] \cup {state}
  <2>1. CASE UNCHANGED told
    BY <1>1, <2>1 DEF Typing
  <2>2. CASE state \in {"ACKNOWLEDGED", "REJECTED"} /\ Told(c, state)
    <3>1. state \in Result
      BY <2>2 DEF Result
    <3> QED
      BY <1>1, <1>3, <2>2, <3>1, ToldMore
  <2> QED
    BY <1>6, <2>1, <2>2
<1>9. Stop({w})
  <2>1. /\ answers'[w] = NoAnswer /\ \A v \in Workers : v # w => answers'[v] = answers[v]
        /\ answers' \in [Workers -> {NoAnswer, "ok", "unclear", "refused"}]
    BY <1>1, <1>2 DEF Typing
  <2>2. attempted[c] # Never
    BY <1>3 DEF IInv, Clocks
  <2>3. provider = "KIS" => \A d \in Command : rec'[d].state = "NONE" <=> rec[d].state = "NONE"
    BY <1>4, <1>6, <1>7
  <2>4. \A d \in Command : told[d] \subseteq told'[d]
    BY <1>8
  <2> QED
    BY <1>2, <1>5, <1>7, <1>8, <2>1, <2>2, <2>3, <2>4 DEF Stop
<1>10. ASSUME NEW d \in Command PROVE SaidOf(d)'
  <2>1. SaidOf(d)
    BY <1>1 DEF Truth
  <2>2. /\ (Made(d) => Made(d)') /\ (Unmade(d) => Unmade(d)')
        /\ \A v \in Workers : Sending(v, d)' <=> Sending(v, d) /\ v # w
    BY <1>9, StopKeeps
  <2>3. CASE d # c
    <3>1. rec'[d] = rec[d] /\ told'[d] = told[d]
      BY <1>7, <1>8, <2>3
    <3>2. (Acknowledged(d)' <=> Acknowledged(d)) /\ (Denied(d)' <=> Denied(d))
      BY <3>1 DEF Acknowledged, Denied
    <3> QED
      BY <1>2, <2>1, <2>2, <3>1, <3>2 DEF SaidOf
  <2>4. CASE d = c
    <3>1. Acknowledged(d)' => Acknowledged(d) \/ state = "ACKNOWLEDGED"
      BY <1>7, <1>8, <2>4 DEF Acknowledged
    <3>2. Denied(d)' => Denied(d) \/ state = "REJECTED"
      BY <1>7, <1>8, <2>4 DEF Denied
    <3>3. state = "ACKNOWLEDGED" => Made(d)
      BY <1>1, <1>6, <2>4 DEF Truth, AnswerOf
    <3>4. state = "REJECTED" /\ d.type = "SUBMIT" => provider = "KIS" /\ Unmade(d)
      BY <1>1, <1>6, <2>4 DEF Truth, AnswerOf
    <3>5. provider = "KIS" => \A v \in Workers : ~Sending(v, d)'
      BY <1>1, <1>3, <2>2, <2>4 DEF SentOnce, OnceOf
    <3>6. provider = "KIS" => rec'[d].state # "NONE"
      BY <1>4, <1>7, <2>4
    <3>7. Acknowledged(d)' => Made(d)'
      BY <2>1, <2>2, <3>1, <3>3 DEF SaidOf
    <3>8. d.type = "SUBMIT" /\ Denied(d)' => provider = "KIS" /\ Unmade(d)'
      BY <2>1, <2>2, <3>2, <3>4 DEF SaidOf
    <3> QED
      BY <1>2, <1>4, <2>4, <3>5, <3>6, <3>7, <3>8 DEF SaidOf
  <2> QED
    BY <2>3, <2>4
<1> QED
  BY <1>9, <1>10, StopKeeps DEF IInv, Truth

(* A process dies with the calls of its tasks. *)
LEMMA DieKeeps ==
    ASSUME IInv, NEW p \in Workers, Die(p)
    PROVE  IInv'
<1> DEFINE ws == {w \in Workers : process[w] = p}
<1>1. /\ Typing /\ Truth /\ Abandon(ws)
      /\ call' = [w \in Workers |-> IF process[w] = p THEN Idle ELSE call[w]]
      /\ answers' = [w \in Workers |-> IF process[w] = p THEN NoAnswer ELSE answers[w]]
      /\ UNCHANGED <<provider, deadline, process, now, attempted, rec, book, told, adopted, target>>
  BY DEF IInv, Die
<1>2. Stop(ws)
  <2>1. /\ call' \in [Workers -> Calls \cup {Idle}]
        /\ answers' \in [Workers -> {NoAnswer, "ok", "unclear", "refused"}]
    BY <1>1 DEF Typing
  <2>2. /\ \A v \in ws : call'[v] = Idle /\ answers'[v] = NoAnswer
        /\ \A v \in Workers \ ws : call'[v] = call[v] /\ answers'[v] = answers[v]
    BY <1>1
  <2> HIDE DEF ws
  <2> QED
    BY <1>1, <2>1, <2>2 DEF Stop, Typing
<1>3. ws \in SUBSET Workers
  OBVIOUS
<1> HIDE DEF ws
<1>4. ASSUME NEW d \in Command PROVE SaidOf(d)'
  <2>1. SaidOf(d)
    BY <1>1 DEF Truth
  <2>2. /\ (Made(d) => Made(d)') /\ (Unmade(d) => Unmade(d)')
        /\ \A v \in Workers : Sending(v, d)' => Sending(v, d)
    BY <1>2, <1>3, StopKeeps
  <2>3. (Acknowledged(d)' <=> Acknowledged(d)) /\ (Denied(d)' <=> Denied(d))
    BY <1>1 DEF Acknowledged, Denied
  <2> QED
    BY <1>1, <2>1, <2>2, <2>3 DEF SaidOf
<1> QED
  BY <1>2, <1>3, <1>4, StopKeeps DEF IInv, Truth

-----------------------------------------------------------------------------
(* What a book that grows keeps: what there is of a command stays, what there  *)
(* is not is not made of anything else, and what a recovery saw stays what it  *)
(* saw, because a new order has a higher number.                               *)
LEMMA Growing ==
    ASSUME Typing, Numbered, Adopting, NEW of, BookGrows(of),
           UNCHANGED <<adopted, target, told>>
    PROVE  /\ Adopting' /\ (Aiming => Aiming')
           /\ \A d \in Command : Own(d) # {} => Own(d)' # {}
           /\ \A d \in Command : d.of \notin of /\ Own(d) = {} => Own(d)' = {}
           /\ \A d \in Command : Made(d) => Made(d)'
           /\ \A p, q \in book' :
                p.of = q.of /\ (p.of \in of => \A o \in book : o.of # p.of)
                /\ (\A x, y \in book : x.of = p.of /\ y.of = p.of => x = y) => p = q
<1>1. /\ Numbered' /\ Cardinality(book) <= Cardinality(book')
      /\ \A o \in book : \E p \in book' : Kept(o, p)
      /\ \A p \in book' :
           \/ \E o \in book : Kept(o, p)
           \/ p.of \in of /\ p.n = Cardinality(book) + 1
  BY DEF BookGrows
<1>2. Cardinality(book) \in Nat /\ Cardinality(book') \in Nat
  BY <1>1, FS_CardinalityType DEF Numbered
<1>3. ASSUME NEW d \in Command, Own(d) # {} PROVE Own(d)' # {}
  <2>1. PICK o \in book : o.of = d.of
    BY <1>3 DEF Own
  <2>2. PICK p \in book' : Kept(o, p)
    BY <1>1
  <2> QED
    BY <2>1, <2>2 DEF Own, Kept
<1>4. ASSUME NEW d \in Command, d.of \notin of, NEW p \in Own(d)'
      PROVE  \E o \in Own(d) : Kept(o, p)
  <2>1. p \in book' /\ p.of = d.of
    BY <1>4 DEF Own
  <2>2. PICK o \in book : Kept(o, p)
    BY <1>1, <1>4, <2>1
  <2> QED
    BY <2>1, <2>2 DEF Own, Kept
<1>5. \A d \in Command : d.of \notin of /\ Own(d) = {} => Own(d)' = {}
  BY <1>4
<1>6. ASSUME NEW d \in Command, Made(d) PROVE Made(d)'
  <2>1. CASE d.type = "CANCEL"
    <3>1. PICK o \in book : o.n = target[d.of] /\ ~o.open
      BY <1>6, <2>1 DEF Made
    <3>2. PICK p \in book' : Kept(o, p)
      BY <1>1
    <3> QED
      BY <2>1, <3>1, <3>2 DEF Made, Kept
  <2>2. CASE d.type # "CANCEL"
    BY <1>3, <1>6, <2>2 DEF Made
  <2> QED
    BY <2>1, <2>2
<1>9. ASSUME Aiming PROVE Aiming'
  <2> SUFFICES ASSUME NEW x \in Orders, target[x] # 0, "RECOVERED" \notin told[Submission(x)]
               PROVE  \E p \in book' : p.n = target[x] /\ p.of = x
    BY DEF Aiming
  <2>1. PICK o \in book : o.n = target[x] /\ o.of = x
    BY <1>9 DEF Aiming
  <2>2. PICK p \in book' : Kept(o, p)
    BY <1>1
  <2> QED
    BY <2>1, <2>2 DEF Kept
<1>7. ASSUME NEW p \in book', NEW q \in book', p.of = q.of,
             p.of \in of => \A o \in book : o.of # p.of,
             \A x, y \in book : x.of = p.of /\ y.of = p.of => x = y
      PROVE  p = q
  <2>1. CASE p.of \in of
    <3>1. \A o \in book : ~Kept(o, p) /\ ~Kept(o, q)
      BY <1>7, <2>1 DEF Kept
    <3>2. p.n = q.n
      BY <1>1, <3>1
    <3> QED
      BY <1>1, <3>2 DEF Numbered
  <2>2. CASE p.of \notin of
    <3>1. PICK x \in book : Kept(x, p)
      BY <1>1, <2>2
    <3>2. PICK y \in book : Kept(y, q)
      BY <1>1, <1>7, <2>2
    <3>3. p.n = q.n
      BY <1>7, <3>1, <3>2 DEF Kept
    <3> QED
      BY <1>1, <3>3 DEF Numbered
  <2> QED
    BY <2>1, <2>2
<1>8. Adopting'
  <2> SUFFICES ASSUME NEW d \in Command, adopted[d].n # 0
               PROVE  /\ d.type = "SUBMIT" /\ adopted[d].seen <= Cardinality(book')
                      /\ \A p \in Own(d)' :
                           p.n <= adopted[d].seen /\ p.at <= adopted[d].until => p.n = adopted[d].n
    BY DEF Adopting
  <2>1. adopted[d].seen \in Nat
    BY DEF Typing, Adoptions
  <2>2. d.type = "SUBMIT" /\ adopted[d].seen <= Cardinality(book)
    BY DEF Adopting
  <2>3. adopted[d].seen <= Cardinality(book')
    BY <1>1, <1>2, <2>1, <2>2
  <2>4. ASSUME NEW p \in Own(d)', p.n <= adopted[d].seen, p.at <= adopted[d].until
        PROVE  p.n = adopted[d].n
    <3>1. p \in book' /\ p.of = d.of
      BY <2>4 DEF Own
    <3>2. p.n # Cardinality(book) + 1
      BY <1>2, <2>1, <2>2, <2>4
    <3>3. PICK o \in book : Kept(o, p)
      BY <1>1, <3>1, <3>2
    <3>4. o \in Own(d) /\ o.n = p.n /\ o.at = p.at
      BY <3>1, <3>3 DEF Own, Kept
    <3> QED
      BY <2>4, <3>4 DEF Adopting
  <2> QED
    BY <2>2, <2>3, <2>4
<1> QED
  BY <1>3, <1>5, <1>6, <1>7, <1>8, <1>9

(* An order is made of a request only if there is none of its command yet: at  *)
(* KIS because the command is sent once, at Toss because the request arrives   *)
(* while Toss remembers the order.                                             *)
LEMMA FirstOfItsCommand ==
    ASSUME IInv, NEW r \in wire, r.of.type = "SUBMIT", Remembered(r.of) = {},
           provider = "KIS" \/ Lease + Transit <= Window
    PROVE  \A o \in book : o.of # r.of.of
<1>1. Typing /\ Clocks /\ InTime /\ SentOnce
  BY DEF IInv
<1>2. r.of \in Command /\ r.since \in Nat /\ r.of = Submission(r.of.of) /\ r.of.of \in Orders
  BY <1>1 DEF Typing, Requests, Command, Submission
<1>3. CASE provider = "KIS"
  <2>1. Own(r.of) = {}
    BY <1>1, <1>2, <1>3 DEF SentOnce, OnceOf
  <2> QED
    BY <2>1 DEF Own
<1>4. CASE provider = "TOSS" /\ Lease + Transit <= Window
  <2> SUFFICES ASSUME NEW o \in book, o.of = r.of.of PROVE FALSE
    OBVIOUS
  <2>1. o \in BookRows /\ attempted[r.of] \in 0 .. o.at
    BY <1>1, <1>2 DEF Clocks, Typing
  <2>2. now <= r.since + Transit /\ r.since < attempted[r.of] + Lease
    BY <1>1, <1>4 DEF Clocks, InTime, lease_expires_at
  <2>3. o.at \in Nat /\ now \in Nat /\ Lease \in Nat /\ Transit \in Nat /\ Window \in Nat
    BY <1>1, <2>1, Constants, LeaseIsPositive DEF Typing, BookRows
  <2>4. now < o.at + Window
    BY <1>2, <1>4, <2>1, <2>2, <2>3
  <2>5. o \in Remembered(r.of)
    BY <1>4, <2>4 DEF Remembered, Own
  <2> QED
    BY <2>5
<1> QED
  BY <1>1, <1>3, <1>4 DEF Typing

(* What the provider's books are when a request has arrived. *)
LEMMA ArrivedBook ==
    ASSUME IInv, NEW r \in wire, wire' = wire \ {r}, UNCHANGED book \/ Accept(r.of),
           UNCHANGED <<provider, deadline, now, attempted, adopted, target, told>>
    PROVE  /\ book' \subseteq BookRows /\ Numbered' /\ OneEach' /\ Adopting' /\ Aiming'
           /\ \A o \in book' : o.of \in Orders => attempted[Submission(o.of)] \in 0 .. o.at
           /\ Accept(r.of) => Made(r.of)'
           /\ \A d \in Command : Made(d) => Made(d)'
           /\ provider = "KIS" => \A d \in Command :
                d.type = "SUBMIT" /\ d # r.of => (Own(d)' = {} <=> Own(d) = {})
<1>1. /\ Typing /\ Numbered /\ Clocks /\ InTime /\ SentOnce /\ OneEach /\ Adopting
      /\ Aiming
  BY DEF IInv
<1>2. /\ r.of \in Command /\ r.of.of \in Orders /\ r.of.type \in {"SUBMIT", "CANCEL"}
      /\ attempted[r.of] # Never /\ attempted[r.of] <= now
  BY <1>1 DEF Typing, Requests, Command, Clocks
<1>3. Lease' = Lease
  BY DEF Lease
<1>4. CASE BookGrows({})
  <2>1. /\ book' \subseteq BookRows /\ Numbered' /\ \A p \in book' : \E o \in book : Kept(o, p)
    BY <1>4 DEF BookGrows
  <2>2. /\ Adopting' /\ Aiming'
        /\ \A d \in Command : Own(d) # {} => Own(d)' # {}
        /\ \A d \in Command : Own(d) = {} => Own(d)' = {}
        /\ \A d \in Command : Made(d) => Made(d)'
        /\ \A p, q \in book' :
             p.of = q.of /\ (\A x, y \in book : x.of = p.of /\ y.of = p.of => x = y) => p = q
    BY <1>1, <1>4, Growing
  <2>3. OneEach'
    BY <1>1, <1>3, <2>2 DEF OneEach
  <2>4. \A o \in book' : o.of \in Orders => attempted[Submission(o.of)] \in 0 .. o.at
    BY <1>1, <2>1 DEF Clocks, Kept
  <2>5. Accept(r.of) => Made(r.of)'
    <3>1. CASE r.of.type = "CANCEL" /\ Accept(r.of)
      <4>1. PICK o \in book :
              /\ o.n = target[r.of.of]
              /\ book' = {IF q.n = target[r.of.of] THEN [q EXCEPT !.open = FALSE] ELSE q : q \in book}
        BY <3>1 DEF Accept
      <4>2. \A p \in book' : p.n = target[r.of.of] => ~p.open
        BY <1>1, <1>2, <4>1, CancelGrows
      <4>3. PICK p \in book' : Kept(o, p)
        BY <1>4 DEF BookGrows
      <4> QED
        BY <3>1, <4>1, <4>2, <4>3 DEF Made, Kept
    <3>2. CASE r.of.type = "SUBMIT" /\ Accept(r.of) /\ Remembered(r.of) # {}
      <4>1. Own(r.of) # {}
        BY <3>2 DEF Remembered
      <4> QED
        BY <1>2, <2>2, <3>2, <4>1 DEF Made
    <3>3. CASE r.of.type = "SUBMIT" /\ Accept(r.of) /\ Remembered(r.of) = {}
      <4>1. Place(r.of.of)
        BY <3>3 DEF Accept
      <4>2. \E p \in book' : p.of = r.of.of
        BY <1>1, <1>2, <4>1, PlaceGrows
      <4> QED
        BY <3>3, <4>2 DEF Made, Own
    <3> QED
      BY <1>2, <3>1, <3>2, <3>3
  <2> QED
    BY <2>1, <2>2, <2>3, <2>4, <2>5
<1>5. CASE r.of.type = "SUBMIT" /\ Remembered(r.of) = {} /\ Place(r.of.of)
  <2>1. BookGrows({r.of.of}) /\ \E p \in book' : p.of = r.of.of
    BY <1>1, <1>2, <1>5, PlaceGrows
  <2>2. /\ book' \subseteq BookRows /\ Numbered'
        /\ \A p \in book' : (\E o \in book : Kept(o, p)) \/ (p.of = r.of.of /\ p.at = now)
    BY <2>1 DEF BookGrows
  <2>3. /\ Adopting' /\ Aiming'
        /\ \A d \in Command : Own(d) # {} => Own(d)' # {}
        /\ \A d \in Command : d.of # r.of.of /\ Own(d) = {} => Own(d)' = {}
        /\ \A d \in Command : Made(d) => Made(d)'
        /\ \A p, q \in book' :
             p.of = q.of /\ (p.of = r.of.of => \A o \in book : o.of # p.of)
             /\ (\A x, y \in book : x.of = p.of /\ y.of = p.of => x = y) => p = q
    BY <1>1, <2>1, Growing
  <2>4. provider = "KIS" \/ Lease + Transit <= Window => \A o \in book : o.of # r.of.of
    BY <1>5, FirstOfItsCommand
  <2>5. OneEach'
    <3> SUFFICES ASSUME provider = "KIS" \/ Lease + Transit <= Window,
                        NEW p \in book', NEW q \in book', p.of = q.of, p.of \in Orders
                 PROVE  p = q
      BY <1>3 DEF OneEach
    <3>1. \A x, y \in book : x.of = p.of /\ y.of = p.of => x = y
      BY <1>1 DEF OneEach
    <3> QED
      BY <2>3, <2>4, <3>1
  <2>6. r.of = Submission(r.of.of)
    BY <1>2, <1>5 DEF Submission, Command
  <2>7. ASSUME NEW o \in book', o.of \in Orders PROVE attempted[Submission(o.of)] \in 0 .. o.at
    <3>1. CASE \E x \in book : Kept(x, o)
      BY <1>1, <2>7, <3>1 DEF Clocks, Kept
    <3>2. CASE o.of = r.of.of /\ o.at = now
      <4>1. attempted[r.of] \in Nat /\ now \in Nat
        BY <1>1, <1>2 DEF Typing
      <4> QED
        BY <1>2, <2>6, <3>2, <4>1
    <3> QED
      BY <2>2, <2>7, <3>1, <3>2
  <2>8. Made(r.of)'
    BY <1>5, <2>1 DEF Made, Own
  <2>10. \A d \in Command : d.type = "SUBMIT" /\ d # r.of => d.of # r.of.of
    BY <1>2, <1>5 DEF Command
  <2> QED
    BY <2>2, <2>3, <2>5, <2>7, <2>8, <2>10
<1>6. BookGrows({}) \/ (r.of.type = "SUBMIT" /\ Remembered(r.of) = {} /\ Place(r.of.of))
  <2>1. CASE UNCHANGED book
    BY <1>1, <2>1, SameBook
  <2>2. CASE r.of.type = "CANCEL" /\ Accept(r.of)
    <3>1. book' = {IF o.n = target[r.of.of] THEN [o EXCEPT !.open = FALSE] ELSE o : o \in book}
      BY <2>2 DEF Accept
    <3> QED
      BY <1>1, <1>2, <3>1, CancelGrows
  <2>3. CASE r.of.type = "SUBMIT" /\ Accept(r.of)
    BY <1>1, <2>3, SameBook DEF Accept
  <2> QED
    BY <1>2, <2>1, <2>2, <2>3
<1> QED
  BY <1>4, <1>5, <1>6

(* A request arrives, is lost, or is refused. *)
LEMMA ArriveKeeps ==
    ASSUME IInv, Arrive
    PROVE  IInv'
<1>1. /\ Typing /\ Clocks /\ Recovering /\ InTime /\ SentOnce /\ Waiting /\ Truth
  BY DEF IInv
<1>2. PICK r \in wire :
        /\ wire' = wire \ {r}
        /\ \/ Accept(r.of) /\ \E a \in {"ok", "unclear", NoAnswer} : Reply(r, a)
           \/ Remembered(r.of) = {} /\ Reply(r, "refused") /\ UNCHANGED book
           \/ UNCHANGED <<answers, book>>
        /\ UNCHANGED <<provider, deadline, process, now, attempted, rec, call, told, adopted,
                       target>>
  BY DEF Arrive, writerVars, ambient
<1>3. /\ book' \subseteq BookRows /\ Numbered' /\ OneEach' /\ Adopting' /\ Aiming'
      /\ \A o \in book' : o.of \in Orders => attempted[Submission(o.of)] \in 0 .. o.at
      /\ Accept(r.of) => Made(r.of)'
      /\ \A d \in Command : Made(d) => Made(d)'
      /\ provider = "KIS" => \A d \in Command :
           d.type = "SUBMIT" /\ d # r.of => (Own(d)' = {} <=> Own(d) = {})
  BY <1>2, ArrivedBook
<1>4. r.of \in Command /\ r \in Requests
  BY <1>1 DEF Typing, Requests
<1>5. PICK a \in {"ok", "unclear", "refused", NoAnswer} :
        /\ answers' = answers \/ Reply(r, a)
        /\ answers' = answers \/ a # "ok" \/ Accept(r.of)
        /\ answers' = answers \/ a # "refused" \/ UNCHANGED book
  <2>1. CASE Accept(r.of) /\ \E a \in {"ok", "unclear", NoAnswer} : Reply(r, a)
    BY <2>1 DEF NoAnswer
  <2>2. CASE Reply(r, "refused") /\ UNCHANGED book
    BY <2>2
  <2>3. CASE answers' = answers
    BY <2>3
  <2> QED
    BY <1>2, <2>1, <2>2, <2>3
<1>6. /\ answers' \in [Workers -> {NoAnswer, "ok", "unclear", "refused"}]
      /\ \A v \in Workers : answers'[v] = answers[v] \/ (v = r.by /\ Reply(r, a) /\ answers'[v] = a)
  <2>1. CASE answers' = answers
    BY <1>1, <2>1 DEF Typing
  <2>2. CASE Reply(r, a)
    BY <1>1, <2>2 DEF Typing, Reply
  <2> QED
    BY <1>5, <2>1, <2>2
<1>7. \A v \in Workers, d \in Command : Sending(v, d)' <=> Sending(v, d)
  BY <1>2 DEF Sending
<1>8. Typing'
  BY <1>1, <1>2, <1>3, <1>6 DEF Typing
<1>9. Clocks'
  BY <1>1, <1>2, <1>3 DEF Clocks
<1>10. Recovering'
  BY <1>1, <1>2 DEF Recovering
<1>11. InTime'
  BY <1>1, <1>2 DEF InTime, lease_expires_at, Lease
<1>12. provider = "KIS" => \A s \in wire' : s.of # r.of
  BY <1>1, <1>2, <1>4 DEF SentOnce, OnceOf
<1>13. SentOnce'
  <2> SUFFICES ASSUME provider = "KIS", NEW d \in Command PROVE OnceOf(d)'
    BY <1>2 DEF SentOnce
  <2>1. OnceOf(d)
    BY <1>1 DEF SentOnce
  <2>2. wire' \subseteq wire /\ rec' = rec /\ call' = call
    BY <1>2
  <2>3. CASE d = r.of
    <3>1. /\ rec[d].state # "NONE" /\ \A s \in wire' : s.of # d
          /\ \A v \in Workers : Sending(v, d) => call[v].at # "send"
      BY <1>2, <1>12, <2>1, <2>3 DEF OnceOf
    <3> QED
      BY <1>7, <2>1, <2>2, <3>1 DEF OnceOf
  <2>4. CASE d # r.of
    <3>1. d.type = "SUBMIT" /\ Own(d)' # {} => Own(d) # {}
      BY <1>3, <2>4
    <3> QED
      BY <1>7, <2>1, <2>2, <3>1 DEF OnceOf
  <2> QED
    BY <2>3, <2>4
<1>14. Waiting'
  <2>1. \A s \in wire' : s \in wire /\ s # r
    BY <1>2
  <2>2. \A s \in wire' : s.by \in Workers => s.by # r.by
    BY <1>1, <2>1 DEF Waiting
  <2>3. \A s \in wire' : s.by \in Workers => answers'[s.by] = answers[s.by]
    BY <1>6, <2>2
  <2>4. \A s \in wire' : s.by \in Workers =>
          call'[s.by].at = "wait" /\ call'[s.by].of = s.of /\ answers'[s.by] = NoAnswer
    BY <1>1, <1>2, <2>1, <2>3 DEF Waiting
  <2>5. \A s, t \in wire' : s.by = t.by /\ s.by \in Workers => s = t
    BY <1>1, <2>1 DEF Waiting
  <2>6. \A v \in Workers : answers'[v] # NoAnswer => call'[v].at = "wait"
    BY <1>1, <1>2, <1>6 DEF Waiting
  <2> QED
    BY <2>4, <2>5, <2>6 DEF Waiting
<1>15. ASSUME NEW d \in Command, provider = "KIS", d.type = "SUBMIT", Unmade(d) PROVE Unmade(d)'
  BY <1>2, <1>3, <1>15 DEF Unmade
<1>16. ASSUME NEW v \in Workers PROVE AnswerOf(v)'
  <2>1. CASE answers'[v] = answers[v]
    <3>1. CASE answers[v] \in {"ok", "refused"}
      <4>1. call[v] \in Calls /\ call[v] # Idle /\ call[v].of \in Command
        BY <1>1, <3>1 DEF Waiting, Typing, Calls, Idle, NoAnswer
      <4> DEFINE d == call[v].of
      <4>2. PICK e \in Command : e = d
        BY <4>1
      <4>4. answers[v] = "ok" => Made(e)'
        BY <1>1, <1>3, <4>2 DEF Truth, AnswerOf
      <4>5. provider = "KIS" /\ answers[v] = "refused" /\ e.type = "SUBMIT" => Unmade(e)'
        BY <1>1, <1>15, <4>2 DEF Truth, AnswerOf
      <4>6. call'[v].of = e
        BY <1>2, <4>2
      <4> QED
        BY <1>2, <2>1, <4>4, <4>5, <4>6 DEF AnswerOf, Made, Unmade, Own
    <3>2. CASE answers[v] \notin {"ok", "refused"}
      BY <2>1, <3>2 DEF AnswerOf
    <3> QED
      BY <3>1, <3>2
  <2>2. CASE v = r.by /\ Reply(r, a) /\ answers'[v] = a /\ answers'[v] # answers[v]
    <3>1. call'[v].of = r.of
      BY <1>1, <1>2, <2>2 DEF Waiting
    <3>2. a = "ok" => Made(r.of)'
      BY <1>3, <1>5, <2>2
    <3>3. provider = "KIS" /\ a = "refused" /\ r.of.type = "SUBMIT" => Unmade(r.of)'
      <4> SUFFICES ASSUME provider = "KIS", a = "refused", r.of.type = "SUBMIT" PROVE Unmade(r.of)'
        OBVIOUS
      <4>1. UNCHANGED book
        BY <1>5, <2>2
      <4>2. Own(r.of) = {}
        BY <1>1, <1>4 DEF SentOnce, OnceOf
      <4> QED
        BY <1>12, <4>1, <4>2 DEF Unmade, Own
    <3> QED
      BY <1>2, <2>2, <3>1, <3>2, <3>3 DEF AnswerOf, Made, Unmade, Own
  <2> QED
    BY <1>6, <2>1, <2>2
<1>17. ASSUME NEW d \in Command PROVE SaidOf(d)'
  <2>1. SaidOf(d)
    BY <1>1 DEF Truth
  <2>2. (Acknowledged(d)' <=> Acknowledged(d)) /\ (Denied(d)' <=> Denied(d))
    BY <1>2 DEF Acknowledged, Denied
  <2>3. Acknowledged(d) => Made(d)'
    BY <1>3, <2>1 DEF SaidOf
  <2>4. d.type = "SUBMIT" /\ Denied(d) => Unmade(d)'
    BY <1>15, <2>1 DEF SaidOf
  <2> QED
    BY <1>2, <1>7, <2>1, <2>2, <2>3, <2>4 DEF SaidOf
<1>18. Truth'
  BY <1>16, <1>17 DEF Truth
<1> QED
  BY <1>3, <1>8, <1>9, <1>10, <1>11, <1>13, <1>14, <1>18 DEF IInv

(* An order placed by hand is no order of a command. *)
LEMMA ManualKeeps ==
    ASSUME IInv, ManualOrder
    PROVE  IInv'
<1>1. /\ Typing /\ Numbered /\ Clocks /\ Recovering /\ InTime /\ SentOnce /\ OneEach /\ Waiting
      /\ Truth /\ Adopting /\ Aiming
  BY DEF IInv
<1>2. /\ Place(Manual)
      /\ UNCHANGED <<provider, deadline, process, now, attempted, rec, call, wire, answers, told,
                     adopted, target>>
  BY DEF ManualOrder, writerVars, ambient
<1>3. BookGrows({Manual}) /\ \A p \in book' : p \in book \/ p.of = Manual
  BY <1>1, <1>2, PlaceGrows
<1>4. book \subseteq book'
  BY <1>2 DEF Place
<1>5. \A p \in book' : p.of \in Orders => p \in book
  BY <1>3, Constants
<1>6. ASSUME NEW d \in Command PROVE Own(d)' = Own(d)
  <2>1. d.of \in Orders
    BY DEF Command
  <2> QED
    BY <1>4, <1>5, <2>1 DEF Own
<1>7. Typing' /\ Numbered'
  BY <1>1, <1>2, <1>3 DEF Typing, BookGrows
<1>8. Clocks'
  BY <1>1, <1>2, <1>5 DEF Clocks
<1>9. Recovering' /\ Waiting'
  BY <1>1, <1>2 DEF Recovering, Waiting
<1>10. InTime'
  BY <1>1, <1>2 DEF InTime, lease_expires_at, Lease
<1>11. SentOnce'
  BY <1>1, <1>2, <1>6 DEF SentOnce, OnceOf, Sending
<1>12. OneEach'
  BY <1>1, <1>2, <1>5 DEF OneEach, Lease
<1>13. Adopting' /\ Aiming' /\ \A d \in Command : Made(d) => Made(d)'
  BY <1>1, <1>2, <1>3, Growing
<1>14. ASSUME NEW d \in Command
       PROVE (Made(d) => Made(d)') /\ (Unmade(d)' <=> Unmade(d))
  BY <1>2, <1>6, <1>13 DEF Unmade
<1>15. ASSUME NEW v \in Workers PROVE AnswerOf(v)'
  <2>1. CASE answers[v] \in {"ok", "refused"}
    <3>1. call[v].of \in Command
      BY <1>1, <2>1 DEF Waiting, Typing, Calls, Idle, NoAnswer
    <3>2. PICK e \in Command : e = call[v].of
      BY <3>1
    <3>3. AnswerOf(v) /\ call'[v].of = e
      BY <1>1, <1>2, <3>2 DEF Truth
    <3>4. (Made(e) => Made(e)') /\ (Unmade(e)' <=> Unmade(e))
      BY <1>14
    <3> QED
      BY <1>2, <3>2, <3>3, <3>4 DEF AnswerOf, Made, Unmade, Own
  <2>2. CASE answers[v] \notin {"ok", "refused"}
    BY <1>2, <2>2 DEF AnswerOf
  <2> QED
    BY <2>1, <2>2
<1>16. ASSUME NEW d \in Command PROVE SaidOf(d)'
  <2>1. SaidOf(d)
    BY <1>1 DEF Truth
  <2>2. (Acknowledged(d)' <=> Acknowledged(d)) /\ (Denied(d)' <=> Denied(d))
    BY <1>2 DEF Acknowledged, Denied
  <2>3. \A v \in Workers : Sending(v, d)' <=> Sending(v, d)
    BY <1>2 DEF Sending
  <2> QED
    BY <1>2, <1>14, <2>1, <2>2, <2>3 DEF SaidOf
<1> QED
  BY <1>7, <1>8, <1>9, <1>10, <1>11, <1>12, <1>13, <1>15, <1>16 DEF IInv, Truth

(* Time passes, and not past what is on its way. *)
LEMMA TickKeeps ==
    ASSUME IInv, Tick
    PROVE  IInv'
<1>1. /\ Typing /\ Numbered /\ Clocks /\ Recovering /\ InTime /\ SentOnce /\ OneEach /\ Waiting
      /\ Truth /\ Adopting /\ Aiming
  BY DEF IInv
<1>2. /\ now' = now + 1
      /\ \A r \in wire : now < r.since + Transit
      /\ \A w \in Workers : call[w].at \in {"claim", "send"} => now < call[w].clock + Transit
      /\ UNCHANGED <<provider, deadline, process, attempted, rec, call, wire, answers, book, told,
                     adopted, target>>
  BY DEF Tick, writerVars, ambient
<1>3. Typing' /\ Numbered' /\ Recovering' /\ Waiting' /\ Adopting' /\ Aiming'
  <2>1. Typing'
    BY <1>1, <1>2 DEF Typing
  <2>2. Numbered' /\ Recovering' /\ Waiting' /\ Adopting' /\ Aiming'
    BY <1>1, <1>2 DEF Numbered, Recovering, Waiting, Adopting, Aiming, Own
  <2> QED
    BY <2>1, <2>2
<1>4. InTime' /\ OneEach'
  BY <1>1, <1>2 DEF InTime, lease_expires_at, Lease, OneEach
<1>5. SentOnce'
  BY <1>1, <1>2 DEF SentOnce, OnceOf, Sending, Own
<1>6. Truth'
  BY <1>1, <1>2 DEF Truth, AnswerOf, SaidOf, Made, Unmade, Own, Sending, Acknowledged, Denied
<1>7. Clocks'
  <2>1. \A d \in Command : attempted[d] <= now + 1
    BY <1>1 DEF Clocks, Typing, Never
  <2>2. \A w \in Workers : call[w].at \in {"claim", "send"} => now + 1 <= call[w].clock + Transit
    BY <1>1, <1>2, Constants DEF Typing, Calls, Idle
  <2>3. \A r \in wire : now + 1 <= r.since + Transit
    BY <1>1, <1>2, Constants DEF Typing, Requests
  <2> QED
    BY <1>1, <1>2, <2>1, <2>2, <2>3 DEF Clocks
<1> QED
  BY <1>3, <1>4, <1>5, <1>6, <1>7 DEF IInv

-----------------------------------------------------------------------------
(* It holds at first: nothing was ever sent. *)
LEMMA InitKeeps ==
    ASSUME Init
    PROVE  IInv
<1> USE DEF Init
<1>1. Typing
  <2>1. NoRecord \in Records /\ NothingAdopted \in Adoptions
    BY DEF NoRecord, Records, NothingAdopted, Adoptions, Never
  <2> QED
    BY <2>1, Constants DEF Typing
<1>2. Numbered
  BY FS_EmptySet DEF Numbered
<1>3. /\ \A w \in Workers : call[w] = Idle /\ call[w].at = "idle"
      /\ \A c \in Command : rec[c].state = "NONE" /\ told[c] = {} /\ adopted[c].n = 0
  BY DEF Idle, NoRecord, NothingAdopted
<1>4. Clocks
  BY <1>3 DEF Clocks, Never
<1>5. Recovering /\ InTime /\ OneEach /\ Waiting /\ Adopting /\ Aiming
  BY <1>3 DEF Recovering, InTime, OneEach, Waiting, Adopting, Aiming
<1>6. SentOnce
  BY <1>3 DEF SentOnce, OnceOf, Sending, Own
<1>7. Truth
  BY <1>3 DEF Truth, AnswerOf, SaidOf, Acknowledged, Denied, NoAnswer
<1> QED
  BY <1>1, <1>2, <1>4, <1>5, <1>6, <1>7 DEF IInv

(* It is about these variables only. *)
LEMMA StutterKeeps ==
    ASSUME IInv, UNCHANGED vars
    PROVE  IInv'
<1> USE DEF vars
<1>1. Typing' /\ Numbered' /\ Recovering' /\ Waiting' /\ Adopting' /\ Aiming'
  BY DEF IInv, Typing, Numbered, Recovering, Waiting, Adopting, Aiming, Own
<1>2. Clocks' /\ InTime' /\ OneEach'
  BY DEF IInv, Clocks, InTime, lease_expires_at, Lease, OneEach
<1>3. SentOnce'
  BY DEF IInv, SentOnce, OnceOf, Sending, Own
<1>4. Truth'
  BY DEF IInv, Truth, AnswerOf, SaidOf, Made, Unmade, Own, Sending, Acknowledged, Denied
<1> QED
  BY <1>1, <1>2, <1>3, <1>4 DEF IInv

(* Every step keeps it. *)
LEMMA NextKeeps ==
    ASSUME IInv, [Next]_vars
    PROVE  IInv'
<1>1. ASSUME NEW w \in Workers, NEW c \in Command,
             \/ KisWrite(w, c) \/ KisRecoverSubmit(w, c)
             \/ TossSubmit(w, c) \/ TossRecover(w, c) \/ TossResend(w, c)
      PROVE  IInv'
  <2>1. PICK op \in {"write", "recover", "resend"}, at \in {"claim", "send"} :
          Started(w, c, op, at)
    BY <1>1, Starting DEF IInv
  <2> QED
    BY <2>1, StartKeeps
<1>2. ASSUME NEW w \in Workers,
             \/ Claim(w) \/ Send(w) \/ Answered(w) \/ PostSendFailure(w) \/ PreSendFailure(w)
             \/ ReadDailyOrders(w)
      PROVE  IInv'
  BY <1>2, ClaimKeeps, SendKeeps, EndKeeps, FailKeeps, ReadKeeps
<1>3. ASSUME NEW p \in Workers, Die(p) PROVE IInv'
  BY <1>3, DieKeeps
<1>4. CASE Arrive \/ ManualOrder \/ Tick
  BY <1>4, ArriveKeeps, ManualKeeps, TickKeeps
<1>5. CASE UNCHANGED vars
  BY <1>5, StutterKeeps
<1> QED
  BY <1>1, <1>2, <1>3, <1>4, <1>5 DEF Next

(* The inductive invariant. *)
LEMMA IInvAlways == Spec => []IInv
BY InitKeeps, NextKeeps, PTL DEF Spec

-----------------------------------------------------------------------------
(* Every variable keeps its type. *)
THEOREM TypeCorrect == Spec => []Typing
<1>1. IInv => Typing
  BY DEF IInv
<1> QED
  BY <1>1, IInvAlways, PTL

(* A command is at the provider once at most, whoever sends it however often   *)
(* and wherever they die: at KIS because dispatch_once writes its record once, *)
(* at Toss because a lease ends in time for what was sent under it to arrive   *)
(* while the id is remembered.                                                 *)
THEOREM NeverTwiceAlways == Spec => []NeverTwice
<1>1. IInv => NeverTwice
  <2> SUFFICES ASSUME IInv, provider = "KIS" \/ Lease + Transit <= Window, NEW o \in Orders
               PROVE  Cardinality(Own(Submission(o))) <= 1
    BY DEF NeverTwice
  <2> DEFINE S == Own(Submission(o))
  <2>1. \A x, y \in S : x = y
    BY DEF IInv, OneEach, Own, Submission
  <2>2. CASE S = {}
    BY <2>2, FS_EmptySet
  <2>3. CASE S # {}
    <3>1. PICK x : S = {x}
      BY <2>1, <2>3
    <3>2. Cardinality({x}) = 1
      BY FS_Singleton
    <3> HIDE DEF S
    <3> QED
      BY <3>1, <3>2 DEF S
  <2> QED
    BY <2>2, <2>3
<1> QED
  BY <1>1, IInvAlways, PTL

(* What the callers of the writers are told is true of the provider's book:    *)
(* _finish_response and the records it leaves.                                 *)
THEOREM AnswerIsTrueAlways == Spec => []AnswerIsTrue
<1>1. IInv => AnswerIsTrue
  <2> SUFFICES ASSUME IInv, NEW c \in Command
               PROVE  AnswerIsTrue!(c)
    BY DEF AnswerIsTrue
  <2>1. SaidOf(c) /\ Aiming /\ Numbered /\ OneEach
    BY DEF IInv, Truth
  <2>2. /\ c.type = "SUBMIT" /\ "ACKNOWLEDGED" \in told[c] => Own(c) # {}
        /\ c.type = "SUBMIT" /\ told[c] \cap {"REJECTED", "NOT_SENT"} # {} =>
              Own(c) = {} /\ \A r \in wire : r.of # c
    BY <2>1 DEF SaidOf, Acknowledged, Denied, Made, Unmade
  <2>3. ASSUME c.type = "CANCEL", "ACKNOWLEDGED" \in told[c]
        PROVE  \E o \in book :
                  /\ o.n = target[c.of] /\ ~o.open
                  /\ IF o.of = c.of THEN \A p \in Own(c) : ~p.open
                     ELSE "RECOVERED" \in told[Submission(c.of)]
    <3>1. PICK o \in book : o.n = target[c.of] /\ ~o.open
      BY <2>1, <2>3 DEF SaidOf, Acknowledged, Made
    <3>2. c.of \in Orders /\ target[c.of] # 0
      BY <2>1, <3>1 DEF Command, Numbered
    <3>3. provider = "KIS"
      BY <2>1, <2>3 DEF IInv, Typing, SaidOf
    <3>4. o.of = c.of => \A p \in Own(c) : p = o
      BY <2>1, <3>2, <3>3 DEF OneEach, Own
    <3>5. o.of # c.of => "RECOVERED" \in told[Submission(c.of)]
      BY <2>1, <3>1, <3>2 DEF Aiming, Numbered
    <3> QED
      BY <3>1, <3>4, <3>5
  <2> QED
    BY <2>2, <2>3
<1> QED
  BY <1>1, IInvAlways, PTL

(* A recovery that found one order in its window found the command's own if    *)
(* that was there: recover_ambiguous_cash_order.                               *)
THEOREM AdoptsItsOwnAlways == Spec => []AdoptsItsOwn
<1>1. IInv => AdoptsItsOwn
  BY DEF IInv, Adopting, AdoptsItsOwn
<1> QED
  BY <1>1, IInvAlways, PTL

=============================================================================
