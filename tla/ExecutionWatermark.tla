------------------------ MODULE ExecutionWatermark ------------------------
(* How far the executions of one broker partition are known to be complete:   *)
(* the watermark row and its gap rows, advanced by every stored fill that has  *)
(* a number, replaced by the checkpoints of a query, and read when an order's  *)
(* reservation is to be released.                                             *)
EXTENDS Integers, FiniteSets, FiniteSetsExt

CONSTANTS
    MaxSequence,   \* bound on the numbers of fills
    MaxTime        \* bound on the clock

ASSUME WatermarkAssumption == MaxSequence \in Nat \ {0} /\ MaxTime \in Nat

Sequences == 1 .. MaxSequence
Times == 0 .. MaxTime
NoTime == MaxTime + 1

VARIABLES
    stored,     \* the numbers of the fills that are stored
    exists,     \* the watermark row exists
    contiguous, \* contiguous_through_sequence; 0 stands for NULL
    hasGap,
    gaps,       \* the gap rows
    coverage,   \* the interval and the completeness the row claims
    queried,    \* the latest moment a complete query really covered (history)
    now,
    released    \* the moment an order ended whose reservation was released

row == <<exists, contiguous, hasGap, gaps, coverage>>
vars == <<stored, row, queried, now, released>>

Gap(from, through) == [from |-> from, through |-> through, open |-> TRUE]
NoCoverage == [from |-> 0, through |-> 0, complete |-> FALSE, expires |-> 0]

Init ==
    /\ stored = {} /\ exists = FALSE /\ contiguous = 0 /\ hasGap = FALSE
    /\ gaps = {} /\ coverage = NoCoverage
    /\ queried = NoTime /\ now = 0 /\ released = NoTime

Tick ==
    /\ now < MaxTime /\ now' = now + 1
    /\ UNCHANGED <<stored, row, queried, released>>

-----------------------------------------------------------------------------
(* The stored numbers that follow c without a break. *)
CatchUp(c, numbers) ==
    Max({c} \cup {n \in numbers : n > c /\ (c + 1) .. n \subseteq numbers})

Open(rows) == {g \in rows : g.open}

(* Every fill leaves a claim that lasts to the end of its day. *)
Renewed == [coverage EXCEPT !.expires = MaxTime]

(* The first fill makes the row. *)
First(n) ==
    /\ ~exists /\ exists' = TRUE
    /\ contiguous' = IF n = 1 THEN 1 ELSE 0
    /\ hasGap' = (n # 1)
    /\ gaps' = IF n = 1 THEN {} ELSE {Gap(1, n - 1)}
    /\ coverage' = [from |-> now, through |-> now, complete |-> FALSE, expires |-> MaxTime]

(* Number 1 comes late.  One open gap from 1 is met, in no stated order. *)
Start(n) ==
    /\ exists /\ contiguous = 0 /\ n = 1
    /\ LET initial == {g \in Open(gaps) : g.from = 1} IN
       \/ initial = {} /\ UNCHANGED gaps
       \/ \E g \in initial :
            gaps' = (gaps \ {g}) \cup
                    {IF g.through = 1 THEN [g EXCEPT !.open = FALSE]
                     ELSE [g EXCEPT !.from = 2]}
    /\ contiguous' = CatchUp(1, stored)
    /\ hasGap' = (Open(gaps') # {})
    /\ coverage' = Renewed /\ UNCHANGED exists

(* Plausible bug: a gap is closed by any number inside it. *)
ClosedBug(g, n) == [g EXCEPT !.open = FALSE]
Shrunk(g, n) ==
    IF g.through = n THEN [g EXCEPT !.open = FALSE]
    ELSE IF g.from = n THEN [g EXCEPT !.from = n + 1] ELSE g

(* The next number comes.  Gaps the catching up passes over are left alone.  *)
Follow(n) ==
    LET met == {g \in Open(gaps) : g.from <= n /\ n <= g.through} IN
    /\ exists /\ contiguous # 0 /\ n = contiguous + 1
    /\ gaps' = (gaps \ met) \cup {Shrunk(g, n) : g \in met}
    /\ contiguous' = CatchUp(n, stored)
    /\ hasGap' = (Open(gaps') # {})
    /\ coverage' = [Renewed EXCEPT !.through = now] /\ UNCHANGED exists

(* Plausible bug: the gap starts at the first number, and is not looked up. *)
OpenedBug(from, through) == {Gap(1, through), Gap(from, through)}
(* A range that has a row, open or closed, gets no other. *)
Opened(from, through) ==
    IF through < from \/ \E g \in gaps : g.from = from /\ g.through = through
    THEN {} ELSE {Gap(from, through)}

Jump(n) ==
    /\ exists /\ n # contiguous
    /\ ~(contiguous = 0 /\ n = 1) /\ ~(contiguous # 0 /\ n = contiguous + 1)
    /\ hasGap' = TRUE
    /\ gaps' = gaps \cup Opened(contiguous + 1, n - 1)
    /\ coverage' = Renewed /\ UNCHANGED <<exists, contiguous>>

(* apply_event_once stores a fill and advances the watermark, once for each   *)
(* execution, in one transaction.                                             *)
ApplyFill(n) ==
    /\ n \notin stored /\ stored' = stored \cup {n}
    /\ First(n) \/ Start(n) \/ Follow(n) \/ Jump(n)
    /\ UNCHANGED <<queried, now, released>>

-----------------------------------------------------------------------------
(* record_closed_interval_checkpoint: the answer of a query over an interval, *)
(* taken unless it reaches less far than the row.                             *)
Checkpoint(from, through, complete, gap) ==
    /\ from <= through /\ through <= now
    /\ \/ ~exists /\ hasGap' = gap
       \/ exists /\ through >= coverage.through /\ hasGap' = (gap \/ Open(gaps) # {})
    /\ exists' = TRUE
    /\ coverage' = [from |-> from, through |-> through, complete |-> complete,
                    expires |-> through + 1]
    /\ queried' = IF complete /\ ~gap THEN through ELSE queried
    /\ UNCHANGED <<stored, contiguous, gaps, now, released>>

(* is_terminal_window_complete, for an order accepted at the start. *)
WindowComplete(end) ==
    /\ exists /\ ~hasGap /\ coverage.complete /\ coverage.expires > now
    /\ coverage.from = 0 /\ coverage.through >= end

(* release_if_complete, for an order that ended at the given moment. *)
Release(end) ==
    /\ end <= now /\ released = NoTime
    /\ WindowComplete(end) /\ released' = end
    /\ UNCHANGED <<stored, row, queried, now>>

Next ==
    \/ Tick
    \/ \E n \in Sequences : ApplyFill(n)
    \/ \E from, through \in Times, complete, gap \in BOOLEAN :
         Checkpoint(from, through, complete, gap)
    \/ \E end \in Times : Release(end)

Spec == Init /\ [][Next]_vars

-----------------------------------------------------------------------------
GapRows == [from : Sequences, through : Sequences, open : BOOLEAN]

(* The watermark, its gaps and its claim have their types, and a gap is not   *)
(* empty, which the table's check constraint demands.                         *)
TypeOK ==
    /\ stored \subseteq Sequences /\ exists \in BOOLEAN /\ hasGap \in BOOLEAN
    /\ contiguous \in 0 .. MaxSequence
    /\ gaps \subseteq {g \in GapRows : g.from <= g.through}
    /\ coverage \in [from : Times, through : Times, complete : BOOLEAN,
                     expires : 0 .. MaxTime + 1]
    /\ queried \in 0 .. NoTime /\ now \in Times /\ released \in 0 .. NoTime

(* A partition that reports no gap (execution_watermarks.py) misses no number *)
(* below the highest it stored, whatever order the fills came in and whatever *)
(* checkpoints came between them; and no number up to the contiguous one is   *)
(* missing even while a gap is reported.                                      *)
NoGapMissed ==
    /\ ~hasGap => \A n \in stored : 1 .. n \subseteq stored
    /\ 1 .. contiguous \subseteq stored

(* Shrinking a gap never gives it the range of another row, open or closed:   *)
(* the unique key over the range would refuse the update, and with it the     *)
(* fill, for ever.                                                            *)
RangesStayUnique ==
    \A g, h \in gaps : g # h => g.through # h.through

(* A reservation is released "only on fresh scoped evidence"                  *)
(* (terminal_release_store.py): a query covered the moment the order ended.   *)
ReleasedOnFreshEvidence ==
    released # NoTime => queried # NoTime /\ released <= queried
=============================================================================
