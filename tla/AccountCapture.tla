--------------------------- MODULE AccountCapture ---------------------------
(* Reading an account, or a chart, from a provider that answers in pages and   *)
(* goes on changing meanwhile: which readers follow every page, which refuse   *)
(* what they cannot read, and what it means that two passes agree.             *)
EXTENDS Integers, FiniteSets

CONSTANTS
    N,             \* rows the provider may hold
    Figures,       \* those of them that are amounts, not orders
    PageLimit,     \* bound on the pages of one pass, as the readers have it
    MaxChanges,    \* bound on the provider's changes
    MaxRestarts    \* bound on deaths of the process

ASSUME CaptureAssumption ==
    /\ N \in Nat \ {0} /\ Figures \subseteq 1 .. N
    /\ PageLimit \in Nat \ {0} /\ MaxChanges \in Nat /\ MaxRestarts \in Nat

Keys == 1 .. N

(* A row is absent, new, changed (an order: closed), or an order gone for good. *)
Absent == 0
New == 1
Changed == 2
Gone == 3
Present == {New, Changed}
Contents == Absent .. Gone

(* What a page announces in its header: M and F that more follows. *)
More == {"M", "F"}
Last == {"", "D"}
(* What may be wrong with a page: its status, its envelope, one of its rows. *)
Defects == {"status", "envelope", "row"}

-----------------------------------------------------------------------------
(* The readers.  A reader asks by cursor, without one, part by part, or for    *)
(* the open orders and then the closed ones; goes on at some announcements     *)
(* and stops at others; refuses rows or pages it has seen, and defects.        *)

(* What a decoder refuses. *)
RawPage == {"status"}
ContractPage == {"status", "envelope"}
MinutePage == Defects
BalancePage == Defects
AccountPage == Defects
DailyOrderPage == Defects
IndexPage == Defects
ViPage == Defects
ClosedOrderPage == {"status", "envelope"}
CandlePage == Defects
HoldingsPart == Defects
UsSnapshot == Defects
UsOrderPage == Defects
BinancePart == Defects

Reader(name, ask, on, stop, once, refuses, passes) ==
    [name |-> name, ask |-> ask, on |-> on, stop |-> stop, once |-> once, refuses |-> refuses,
     passes |-> passes]

KisContractDetails ==
    Reader("KisContractDetails", "again", More, {""}, "any", ContractPage, 1)
KisOpenPositions ==
    Reader("KisOpenPositions", "again", {"M"}, Last \cup {"F"}, "any", RawPage, 1)
KisDailyOrders ==
    Reader("KisDailyOrders", "again", {"M"}, Last \cup {"F"}, "any", RawPage, 1)
KisMinuteChart ==
    Reader("KisMinuteChart", "cursor", More, Last, "page", MinutePage, 1)
KisCashBalance ==
    Reader("KisCashBalance", "cursor", {"M"}, Last \cup {"F"}, "page", BalancePage, 1)
KisStableAccount ==
    Reader("KisStableAccount", "cursor", More, Last, "row", AccountPage, 2)
KisCashOrders ==
    Reader("KisCashOrders", "cursor", More, Last, "row", DailyOrderPage, 2)
KisIndex == Reader("KisIndex", "again", More, Last, "page", IndexPage, 1)
KisVi == Reader("KisVi", "again", {"M"}, {""}, "page", ViPage, 1)
TossClosedOrders ==
    Reader("TossClosedOrders", "cursor", More, Last, "any", ClosedOrderPage, 1)
TossCandles == Reader("TossCandles", "cursor", More, Last, "page", CandlePage, 1)
TossKrAccount == Reader("TossKrAccount", "parts", More, Last, "row", HoldingsPart, 2)
TossUsCash ==
    Reader("TossUsCash", "lists", More, Last, "row", UsSnapshot \cup UsOrderPage, 2)
BinanceAccount ==
    Reader("BinanceAccount", "merge", More, Last, "same", BinancePart, 1)
BinanceUsdm == Reader("BinanceUsdm", "merge", More, Last, "same", BinancePart, 2)

Readers == {KisContractDetails, KisOpenPositions, KisDailyOrders, KisMinuteChart,
            KisCashBalance, KisStableAccount, KisCashOrders, KisIndex, KisVi,
            TossClosedOrders, TossCandles, TossKrAccount, TossUsCash, BinanceAccount,
            BinanceUsdm}

(* The readers whose run has a deadline, and the one that survives a restart. *)
Timed == {TossUsCash, BinanceUsdm}
Durable == {TossUsCash}
None == [kept |-> FALSE, rows |-> {}]

VARIABLES
    table,      \* what the provider holds
    reader,     \* who reads
    pass,       \* 0 when nobody reads, else the pass under way
    at, pages,  \* where the pass is: the last row asked after, the pages read
    seen,       \* the rows of this pass, each with its content
    first,      \* the first pass's rows, once it is complete
    late,       \* the deadline of this run has passed
    checkpoint, \* the first pass as the reconciliation table has it
    persisted,  \* the complete run, once persisted
    answer,     \* "none", "complete" or "incomplete"
    result,     \* the rows of a complete answer
    steady,     \* the rows the provider has held since the read began
    calm,       \* and those that have not changed
    between,    \* what it held when the first pass ended
    left,       \* the rows that changed after the first pass had read them
    back,       \* and those that have changed since it ended
    changes, restarts

reading == <<pass, at, pages, seen, first>>
outcome == <<answer, result, persisted>>
captureVars ==
    <<table, reader, reading, late, checkpoint, outcome, steady, calm, between, left,
      back, changes, restarts>>

Held(k) == table[k] \in Present
Row(k) == [key |-> k, content |-> table[k]]
KeysOf(rows) == {r.key : r \in rows}

(* What a complete answer reports as orders that are still working. *)
Working(rows) == {r \in rows : r.content = New}

CaptureInit ==
    /\ table \in [Keys -> {Absent, New}] /\ reader \in Readers
    /\ pass = 0 /\ at = 0 /\ pages = 0 /\ seen = {} /\ first = None
    /\ late = FALSE /\ checkpoint = None /\ persisted = None
    /\ answer = "none" /\ result = {} /\ steady = {} /\ calm = {}
    /\ between = table /\ left = {} /\ back = {} /\ changes = 0 /\ restarts = 0

-----------------------------------------------------------------------------
(* The provider. *)

(* An order that is asked for by its state opens, closes and goes, and what it  *)
(* was never comes back.  An amount, and a row that is asked for by itself, may  *)
(* be anything again that it was before: money is spent and comes in.            *)
Listed == reader.ask \in {"lists", "merge"}
OneWay(k) == Listed /\ k \notin Figures
Following(k) == IF OneWay(k) THEN {table[k] + 1} \cap Contents
                ELSE ({Absent} \cup Present) \ {table[k]}

(* What a stable read is asked about: changes of what its first pass had read,  *)
(* and changes since.                                                           *)
Noted(k) ==
    /\ left' = IF pass = 1 /\ reader.passes = 2 /\ k \in KeysOf(seen)
               THEN left \cup {k} ELSE left
    /\ back' = IF first.kept \/ checkpoint.kept THEN back \cup {k} ELSE back

Change(k) ==
    /\ changes < MaxChanges /\ changes' = changes + 1
    /\ \E content \in Following(k) : table' = [table EXCEPT ![k] = content]
    /\ steady' = {j \in steady : table'[j] \in Present} /\ calm' = calm \ {k}
    /\ Noted(k)
    /\ UNCHANGED <<reader, reading, late, checkpoint, outcome, between, restarts>>

After(k) == {j \in Keys : j > k /\ Held(j)}
Least(s) == CHOOSE j \in s : \A i \in s : j <= i

(* The page after row k: one row, and whether more follow. *)
PageAfter(k) ==
    IF After(k) = {} THEN [rows |-> {}, next |-> k, flags |-> Last]
    ELSE LET j == Least(After(k)) IN
         [rows |-> {Row(j)}, next |-> j, flags |-> IF After(j) = {} THEN Last ELSE More]

(* One part of the account, then the next. *)
Part(k) ==
    [rows |-> IF Held(k + 1) THEN {Row(k + 1)} ELSE {}, next |-> k + 1,
     flags |-> IF k + 1 = N THEN Last ELSE More]

(* The amounts and the open orders, and then the closed orders, or all there    *)
(* were.                                                                        *)
Opening(k) == table[k] = New \/ (k \in Figures /\ Held(k))
Closing(k, all) == k \notin Figures /\ (table[k] = Changed \/ (all /\ Held(k)))
List(k, all) ==
    IF k = 0 THEN [rows |-> {Row(j) : j \in {i \in Keys : Opening(i)}},
                   next |-> 1, flags |-> More]
    ELSE [rows |-> {Row(j) : j \in {i \in Keys : Closing(i, all)}},
          next |-> 2, flags |-> Last]

(* A request without a cursor may be answered with the first page again. *)
Answers ==
    CASE reader.ask = "cursor" -> {PageAfter(at)}
      [] reader.ask = "again" -> {PageAfter(at), PageAfter(0)}
      [] reader.ask = "parts" -> {Part(at)}
      [] reader.ask = "lists" -> {List(at, FALSE)}
      [] OTHER -> {List(at, TRUE)}

-----------------------------------------------------------------------------
(* The read. *)

(* A pass begins: the first, or the second of a run whose first is kept. *)
BeginRead ==
    /\ pass = 0 /\ ~persisted.kept
    /\ pass' = IF checkpoint.kept THEN 2 ELSE 1
    /\ first' = checkpoint
    /\ at' = 0 /\ pages' = 0 /\ seen' = {} /\ answer' = "none" /\ result' = {}
    /\ steady' = {k \in Keys : Held(k)} /\ calm' = steady'
    /\ IF checkpoint.kept THEN UNCHANGED <<between, left, back>>
       ELSE between' = table /\ left' = {} /\ back' = {}
    /\ UNCHANGED <<table, reader, late, checkpoint, persisted, changes, restarts>>

Stop(how) == pass' = 0 /\ answer' = how /\ at' = 0 /\ pages' = 0 /\ seen' = {} /\ first' = None

Incomplete ==
    Stop("incomplete") /\ UNCHANGED <<checkpoint, result, persisted, between, back>>

(* What a reader refuses to see twice: a row, a page, a row with other content. *)
Repeated(rows) ==
    CASE reader.once = "row" -> KeysOf(rows) \cap KeysOf(seen) # {}
      [] reader.once = "page" -> rows # {} /\ rows \subseteq seen
      [] reader.once = "same" -> \E r \in rows, s \in seen : r.key = s.key /\ r # s
      [] OTHER -> FALSE

(* Plausible bug: the second pass is taken for the first. *)
AgreeBug(rows) == first.kept
(* The two passes are the same. *)
Agree(rows) == first.rows = rows

(* The last page of a pass: the first pass is kept, the second is compared.    *)
FinishPass(rows) ==
    CASE reader.passes = 2 /\ pass = 1 ->
           /\ pass' = 2 /\ first' = [kept |-> TRUE, rows |-> rows]
           /\ at' = 0 /\ pages' = 0 /\ seen' = {}
           /\ checkpoint' = IF reader \in Durable THEN first' ELSE checkpoint
           /\ between' = table /\ back' = {} /\ UNCHANGED outcome
      [] reader.passes = 2 /\ pass = 2 /\ ~Agree(rows) ->
           /\ Stop("incomplete") /\ checkpoint' = None
           /\ UNCHANGED <<result, persisted, between, back>>
      [] OTHER ->
           /\ Stop("complete") /\ result' = rows /\ checkpoint' = None
           /\ persisted' = IF reader \in Durable THEN [kept |-> TRUE, rows |-> rows] ELSE persisted
           /\ UNCHANGED <<between, back>>

(* One reader also asks for the account's facts between its passes, and for    *)
(* the fees of the fills after them, and goes no further without.              *)
Asks == reader = KisCashOrders

(* Plausible bug: a page limit that is reached ends the pass. *)
TurnPageBug(page, rows, flag) ==
    IF flag \in reader.on /\ pages + 1 < PageLimit
    THEN /\ at' = page.next /\ pages' = pages + 1 /\ seen' = rows
         /\ UNCHANGED <<pass, first, checkpoint, outcome, between, back>>
    ELSE FinishPass(rows)
(* A page is read: go on, end the pass, or give up.                            *)
TurnPage(page, rows, flag) ==
    IF flag \in reader.on /\ pages + 1 < PageLimit
    THEN /\ at' = page.next /\ pages' = pages + 1 /\ seen' = rows
         /\ UNCHANGED <<pass, first, checkpoint, outcome, between, back>>
    ELSE IF flag \in reader.stop THEN FinishPass(rows) \/ (Asks /\ Incomplete)
         ELSE Incomplete

ReadPage ==
    /\ pass > 0 /\ ~(late /\ reader \in Timed)
    /\ \E page \in Answers, defect \in Defects \cup {"no"} : \E flag \in page.flags :
         LET rows == IF defect = "no" THEN page.rows ELSE {} IN
         IF defect \in reader.refuses \/ Repeated(rows) THEN Incomplete
         ELSE TurnPage(page, seen \cup rows, flag)
    /\ UNCHANGED <<table, reader, late, steady, calm, left, changes, restarts>>

(* Thirty seconds after the run's moment. *)
PassDeadline ==
    /\ reader \in Timed /\ ~late /\ late' = TRUE
    /\ UNCHANGED <<table, reader, reading, checkpoint, outcome, steady, calm, between, left,
                   back, changes, restarts>>

(* A read that is too late ends; the checkpoint of its moment stays behind. *)
GiveUp ==
    /\ pass > 0 /\ late /\ reader \in Timed /\ Incomplete
    /\ UNCHANGED <<table, reader, late, steady, calm, left, changes, restarts>>

(* Another run, of a later moment, has no checkpoint. *)
NextRun ==
    /\ pass = 0 /\ late /\ late' = FALSE /\ checkpoint' = None /\ persisted' = None
    /\ UNCHANGED <<table, reader, reading, answer, result, steady, calm, between, left,
                   back, changes, restarts>>

(* The process dies; the checkpoint is in the database. *)
Restart ==
    /\ restarts < MaxRestarts /\ restarts' = restarts + 1 /\ pass > 0
    /\ Stop("none") /\ result' = {}
    /\ UNCHANGED <<table, reader, late, checkpoint, persisted, steady, calm, between, left,
                   back, changes>>

CaptureNext ==
    \/ \E k \in Keys : Change(k)
    \/ BeginRead \/ ReadPage \/ PassDeadline \/ GiveUp \/ NextRun \/ Restart

CaptureSpec == CaptureInit /\ [][CaptureNext]_captureVars

-----------------------------------------------------------------------------
(* Readers that go on, or refuse, whenever a page announces more, and that     *)
(* refuse a page they cannot read.                                             *)
Careful == {r \in Readers : r.stop \cap More = {} /\ Defects \subseteq r.refuses}

(* A complete answer of a careful reader misses no row the provider held all   *)
(* the while, and reports as working every order that stayed as it was,        *)
(* however rows came, changed and went behind and before its cursor, and       *)
(* whatever pages were repeated, broken or one too many: reconciliation        *)
(* (live_readers.py) never takes a gap of the read for a missing order.        *)
NothingMissed ==
    answer = "complete" /\ reader \in Careful =>
        /\ steady \subseteq KeysOf(result)
        /\ {k \in calm : table[k] = New} \subseteq KeysOf(Working(result))

(* When the two passes of a stable read agree (account_snapshot.py,            *)
(* us_reconciliation.py, reconciliation.py, cash_reconciliation.py), every row *)
(* of it was the provider's between the two, also across a restart and a       *)
(* resumed checkpoint; and what was persisted as complete is that answer.  The *)
(* one thing two equal passes do not see is a row that left what the first had *)
(* read of it and came back to that before the second: an order that is asked  *)
(* for by its state never does.                                                *)
Fooled(k) == ~OneWay(k) /\ k \in left \cap back
StableWasTrue ==
    /\ answer = "complete" /\ reader.passes = 2 =>
         \A r \in result : between[r.key] = r.content \/ Fooled(r.key)
    /\ persisted.kept =>
         \A r \in persisted.rows : between[r.key] = r.content \/ Fooled(r.key)

(* What the readers take two equal passes for ("KIS account projection changed *)
(* during collection" is raised when they differ): nothing changed, or at      *)
(* least every row was so between them.  Rows that return refute it.           *)
EqualPassesWereTrue ==
    answer = "complete" /\ reader.passes = 2 =>
        \A r \in result : between[r.key] = r.content
=============================================================================
