------------------------- MODULE CompletenessProofs -------------------------
(***************************************************************************)
(* What the program takes for complete is complete: the executions of a    *)
(* partition whose watermark reports no gap, for any number of fills, any  *)
(* order they come in and any checkpoints between them; and the rows of an *)
(* account that a paged read answers with, for any number of rows, pages,  *)
(* changes of the provider and deaths of the process.                      *)
(***************************************************************************)
EXTENDS ExecutionWatermark, AccountCapture, WellFoundedInduction, TLAPS

(* Before there is a row nothing is stored, and an open gap is reported. *)
RowSays ==
    /\ ~exists => stored = {} /\ contiguous = 0 /\ gaps = {} /\ ~hasGap
    /\ Open(gaps) # {} => hasGap

(* The number after the contiguous ones is not stored. *)
Frontier == 1 .. contiguous \subseteq stored /\ contiguous + 1 \notin stored

(* The number above a gap is stored, for it opened the gap; and a gap is closed *)
(* by the contiguous numbers alone.                                             *)
GapsEnd == \A g \in gaps : g.through + 1 \in stored /\ (~g.open => g.through <= contiguous)

(* What is missing below a stored number is in an open gap. *)
Covered ==
    \A n \in stored, m \in Sequences :
        m <= n /\ m \notin stored =>
            \E g \in gaps : g.open /\ g.from <= m /\ m <= g.through

IInv == TypeOK /\ RowSays /\ Frontier /\ GapsEnd /\ Covered /\ RangesStayUnique
-----------------------------------------------------------------------------
(* Numbers that have a bound have a greatest one among them. *)
LEMMA GreatestNumber ==
    ASSUME NEW top \in Nat, NEW S, S \subseteq 0 .. top, S # {}
    PROVE  Max(S) \in S /\ \A y \in S : Max(S) >= y
<1> DEFINE R == OpToRel(<, Nat)
           Below == {top - x : x \in S}
<1>1. IsWellFoundedOn(R, Nat)
  BY NatLessThanWellFounded
<1>2. \A x, y \in Nat : <<y, x>> \in R <=> y < x
  BY DEF OpToRel
<1>3. Below \subseteq Nat /\ Below # {}
  <2>1. \A x \in S : top - x \in Nat
    OBVIOUS
  <2> QED
    BY <2>1
<1> HIDE DEF R
<1>4. PICK b \in Below : \A c \in Below : ~ (<<c, b>> \in R)
  BY <1>1, <1>3, WFMin
<1>5. PICK x \in S : b = top - x
  OBVIOUS
<1>6. ASSUME NEW y \in S PROVE x >= y
  <2>1. top - y \in Below /\ top - y \in Nat /\ b \in Nat
    BY <1>3
  <2>2. ~ (top - y < b)
    BY <1>2, <1>4, <2>1
  <2> QED
    BY <1>5, <2>1, <2>2
<1> QED
  BY <1>6 DEF Max

(* Catching up ends at the first number that is not there                      *)
(* (advance_stream_sequence, the loop over the stored sequences).              *)
LEMMA CatchingUp ==
    ASSUME NEW c \in 0 .. MaxSequence, NEW numbers \in SUBSET Sequences
    PROVE  /\ CatchUp(c, numbers) \in c .. MaxSequence
           /\ (c + 1) .. CatchUp(c, numbers) \subseteq numbers
           /\ CatchUp(c, numbers) + 1 \notin numbers
<1> DEFINE S == {c} \cup {n \in numbers : n > c /\ (c + 1) .. n \subseteq numbers}
           k == Max(S)
<1>1. MaxSequence \in Nat
  BY WatermarkAssumption DEF WatermarkAssumption
<1>2. S \subseteq 0 .. MaxSequence /\ S # {} /\ c \in S
  <2>1. \A n \in numbers : n \in 0 .. MaxSequence
    BY <1>1 DEF Sequences
  <2> QED
    BY <2>1
<1>3. k \in S /\ \A y \in S : k >= y
  BY <1>1, <1>2, GreatestNumber
<1>4. CatchUp(c, numbers) = k
  BY DEF CatchUp
<1> HIDE DEF k
<1>5. k \in c .. MaxSequence
  BY <1>1, <1>2, <1>3
<1>6. (c + 1) .. k \subseteq numbers
  <2>1. CASE k = c
    BY <1>1, <2>1
  <2>2. CASE k # c
    BY <1>3, <2>2
  <2> QED
    BY <2>1, <2>2
<1>7. k + 1 \notin numbers
  <2> SUFFICES ASSUME k + 1 \in numbers PROVE FALSE
    OBVIOUS
  <2>1. (c + 1) .. (k + 1) \subseteq numbers
    <3>1. \A m \in (c + 1) .. (k + 1) : m \in (c + 1) .. k \/ m = k + 1
      BY <1>1, <1>5
    <3> QED
      BY <1>6, <3>1
  <2>2. k + 1 > c
    BY <1>1, <1>5
  <2>3. k + 1 \in S
    BY <2>1, <2>2
  <2> QED
    BY <1>1, <1>3, <1>5, <2>3
<1> QED
  BY <1>4, <1>5, <1>6, <1>7

-----------------------------------------------------------------------------
Rows == {g \in GapRows : g.from <= g.through}

(* What becomes of a gap when n is stored: it loses n, or is closed at n. *)
Shrinks(g, h, n) ==
    /\ h \in Rows /\ h.through = g.through
    /\ h.open => g.open
    /\ ~h.open => ~g.open \/ g.through = n
    /\ g.open /\ h.open => \A m \in Sequences : m # n /\ g.from <= m => h.from <= m

(* The row that a fill leaves behind whose number is the next one. *)
LEMMA NextOne ==
    ASSUME IInv, NEW n \in Sequences, n \notin stored, n = contiguous + 1,
           stored' = stored \cup {n}, exists, exists',
           contiguous' = CatchUp(n, stored), hasGap' = (Open(gaps') # {}),
           \A h \in gaps' : \E g \in gaps : Shrinks(g, h, n),
           \A g \in gaps : \E h \in gaps' : Shrinks(g, h, n),
           \A h, k \in gaps' : h # k => h.through # k.through,
           coverage' \in [from : Times, through : Times, complete : BOOLEAN,
                           expires : 0 .. MaxTime + 1],
           UNCHANGED <<queried, now, released>>
    PROVE  IInv'
<1> USE WatermarkAssumption DEF WatermarkAssumption
<1>1. TypeOK /\ Frontier /\ GapsEnd /\ Covered
  BY DEF IInv
<1>2. n \in 0 .. MaxSequence /\ stored \in SUBSET Sequences /\ MaxSequence \in Nat
      /\ contiguous \in 0 .. MaxSequence
  BY <1>1 DEF TypeOK, Sequences
<1>3. /\ contiguous' \in n .. MaxSequence /\ (n + 1) .. contiguous' \subseteq stored
      /\ contiguous' + 1 \notin stored
  BY <1>2, CatchingUp
<1>4. TypeOK'
  <2>1. stored' \subseteq Sequences /\ exists' \in BOOLEAN /\ hasGap' \in BOOLEAN
    BY <1>1 DEF TypeOK
  <2>2. contiguous' \in 0 .. MaxSequence
    BY <1>2, <1>3
  <2>3. gaps' \subseteq Rows
    BY DEF Shrinks
  <2> QED
    BY <1>1, <2>1, <2>2, <2>3 DEF TypeOK, Rows
<1>5. RowSays'
  BY DEF RowSays
<1>6. Frontier'
  <2>1. \A m \in 1 .. contiguous' : m \in 1 .. contiguous \/ m = n \/ m \in (n + 1) .. contiguous'
    BY <1>2, <1>3
  <2>2. contiguous' + 1 # n
    BY <1>2, <1>3
  <2> QED
    BY <1>1, <1>3, <2>1, <2>2 DEF Frontier
<1>7. GapsEnd'
  <2> SUFFICES ASSUME NEW h \in gaps'
               PROVE  h.through + 1 \in stored' /\ (~h.open => h.through <= contiguous')
    BY DEF GapsEnd
  <2>1. PICK g \in gaps : Shrinks(g, h, n)
    OBVIOUS
  <2>2. g.through \in Sequences
    BY <1>1 DEF TypeOK, GapRows
  <2>3. h.through + 1 \in stored'
    BY <1>1, <2>1 DEF Shrinks, GapsEnd
  <2>4. ~h.open => g.through <= contiguous \/ g.through = n
    BY <1>1, <2>1 DEF Shrinks, GapsEnd
  <2>5. ~h.open => h.through <= contiguous'
    BY <1>2, <1>3, <2>1, <2>2, <2>4 DEF Shrinks, Sequences
  <2> QED
    BY <2>3, <2>5
<1>8. Covered'
  <2> SUFFICES ASSUME NEW k \in stored', NEW m \in Sequences, m <= k, m \notin stored'
               PROVE  \E h \in gaps' : h.open /\ h.from <= m /\ m <= h.through
    BY DEF Covered
  <2>1. m # n /\ m \notin stored
    OBVIOUS
  <2>2. m > contiguous
    BY <1>1, <1>2, <2>1 DEF Frontier, Sequences
  <2>3. k \in stored
    BY <1>2, <2>1, <2>2 DEF Sequences
  <2>4. PICK g \in gaps : g.open /\ g.from <= m /\ m <= g.through
    BY <1>1, <2>1, <2>3 DEF Covered
  <2>5. PICK h \in gaps' : Shrinks(g, h, n)
    OBVIOUS
  <2>6. g.through # n
    BY <1>2, <2>1, <2>2, <2>4 DEF Sequences
  <2>7. h.open
    BY <2>4, <2>5, <2>6 DEF Shrinks
  <2> QED
    BY <2>1, <2>4, <2>5, <2>7 DEF Shrinks
<1>9. RangesStayUnique'
  BY DEF RangesStayUnique
<1> QED
  BY <1>4, <1>5, <1>6, <1>7, <1>8, <1>9 DEF IInv

(* A gap that the number is not in, or that is closed, stays what it is. *)
LEMMA LeftAlone ==
    ASSUME NEW g \in Rows, NEW n
    PROVE  Shrinks(g, g, n)
BY DEF Shrinks

(* A gap that the number is in shrinks at the end it meets. *)
LEMMA ShrunkShrinks ==
    ASSUME NEW n \in Sequences, NEW g \in Rows, g.open, g.from <= n, n <= g.through
    PROVE  Shrinks(g, Shrunk(g, n), n)
<1> USE WatermarkAssumption DEF WatermarkAssumption, Rows, GapRows, Sequences
<1>1. CASE g.through = n
  BY <1>1 DEF Shrunk, Shrinks
<1>2. CASE g.through # n /\ g.from = n
  <2>1. Shrunk(g, n) = [g EXCEPT !.from = n + 1]
    BY <1>2 DEF Shrunk
  <2> DEFINE h == [g EXCEPT !.from = n + 1]
  <2>2. h.from = n + 1 /\ h.through = g.through /\ h.open = g.open
    OBVIOUS
  <2>3. h \in GapRows /\ h.from <= h.through
    BY <1>2, <2>2
  <2>4. \A m \in Sequences : m # n /\ n <= m => n + 1 <= m
    OBVIOUS
  <2> HIDE DEF h
  <2> QED
    BY <1>2, <2>1, <2>2, <2>3, <2>4 DEF Shrinks, h
<1>3. CASE g.through # n /\ g.from # n
  BY <1>3, LeftAlone DEF Shrunk
<1> QED
  BY <1>1, <1>2, <1>3

(* Every row becomes one row, so rows that end apart still do. *)
LEMMA EndsStayApart ==
    ASSUME RangesStayUnique, NEW n, NEW becomes, DOMAIN becomes = gaps,
           \A g \in gaps : Shrinks(g, becomes[g], n),
           gaps' = {becomes[g] : g \in gaps}
    PROVE  /\ \A h \in gaps' : \E g \in gaps : Shrinks(g, h, n)
           /\ \A g \in gaps : \E h \in gaps' : Shrinks(g, h, n)
           /\ \A h, k \in gaps' : h # k => h.through # k.through
<1>1. ASSUME NEW h \in gaps', NEW k \in gaps', h # k PROVE h.through # k.through
  <2>1. PICK g \in gaps : h = becomes[g]
    OBVIOUS
  <2>2. PICK j \in gaps : k = becomes[j]
    OBVIOUS
  <2>3. h.through = g.through /\ k.through = j.through
    BY <2>1, <2>2 DEF Shrinks
  <2>4. g # j
    BY <1>1, <2>1, <2>2
  <2> QED
    BY <2>3, <2>4 DEF RangesStayUnique
<1>2. \A h \in gaps' : \E g \in gaps : Shrinks(g, h, n)
  OBVIOUS
<1>3. \A g \in gaps : \E h \in gaps' : Shrinks(g, h, n)
  OBVIOUS
<1> QED
  BY <1>1, <1>2, <1>3

-----------------------------------------------------------------------------
(* The next number: every open gap that has it shrinks. *)
LEMMA FollowKeeps ==
    ASSUME IInv, NEW n \in Sequences, ApplyFill(n), Follow(n)
    PROVE  IInv'
<1> DEFINE met == {g \in Open(gaps) : g.from <= n /\ n <= g.through}
           becomes == [g \in gaps |-> IF g \in met THEN Shrunk(g, n) ELSE g]
<1>1. gaps \subseteq Rows /\ RangesStayUnique /\ TypeOK
  BY DEF IInv, TypeOK, Rows
<1>2. gaps' = (gaps \ met) \cup {Shrunk(g, n) : g \in met}
  BY DEF Follow
<1>3. met \subseteq gaps /\ \A g \in met : g.open
  BY DEF Open
<1>4. gaps' = {becomes[g] : g \in gaps}
  <2> HIDE DEF met
  <2> QED
    BY <1>2, <1>3
<1>5. ASSUME NEW g \in gaps PROVE Shrinks(g, becomes[g], n)
  <2>1. CASE g \in met
    <3>1. becomes[g] = Shrunk(g, n) /\ g.open /\ g.from <= n /\ n <= g.through
      BY <1>3, <2>1
    <3> QED
      BY <1>1, <3>1, ShrunkShrinks
  <2>2. CASE g \notin met
    BY <1>1, <2>2, LeftAlone
  <2> QED
    BY <2>1, <2>2
<1>6. DOMAIN becomes = gaps
  OBVIOUS
<1> HIDE DEF becomes, met
<1>7. /\ \A h \in gaps' : \E g \in gaps : Shrinks(g, h, n)
      /\ \A g \in gaps : \E h \in gaps' : Shrinks(g, h, n)
      /\ \A h, k \in gaps' : h # k => h.through # k.through
  BY <1>1, <1>4, <1>5, <1>6, EndsStayApart
<1>8. coverage' \in [from : Times, through : Times, complete : BOOLEAN,
                     expires : 0 .. MaxTime + 1]
  <2>1. Renewed \in [from : Times, through : Times, complete : BOOLEAN,
                     expires : 0 .. MaxTime + 1]
    BY <1>1, WatermarkAssumption DEF TypeOK, Times, Renewed, WatermarkAssumption
  <2>2. coverage' = [Renewed EXCEPT !.through = now] /\ now \in Times
    BY <1>1 DEF Follow, TypeOK
  <2> QED
    BY <2>1, <2>2
<1>9. /\ n \notin stored /\ stored' = stored \cup {n} /\ UNCHANGED <<queried, now, released>>
      /\ exists /\ exists' /\ n = contiguous + 1 /\ contiguous' = CatchUp(n, stored)
      /\ hasGap' = (Open(gaps') # {})
  BY DEF ApplyFill, Follow
<1> QED
  BY <1>7, <1>8, <1>9, NextOne

(* Number 1, come late: one open gap from 1 shrinks, if there is one. *)
LEMMA StartKeeps ==
    ASSUME IInv, NEW n \in Sequences, ApplyFill(n), Start(n)
    PROVE  IInv'
<1>1. gaps \subseteq Rows /\ RangesStayUnique /\ TypeOK
  BY DEF IInv, TypeOK, Rows
<1>2. /\ n \notin stored /\ stored' = stored \cup {n} /\ UNCHANGED <<queried, now, released>>
      /\ exists /\ exists' /\ n = 1 /\ n = contiguous + 1 /\ contiguous' = CatchUp(n, stored)
      /\ hasGap' = (Open(gaps') # {}) /\ coverage' = Renewed
  BY DEF ApplyFill, Start
<1>3. /\ \A h \in gaps' : \E g \in gaps : Shrinks(g, h, n)
      /\ \A g \in gaps : \E h \in gaps' : Shrinks(g, h, n)
      /\ \A h, k \in gaps' : h # k => h.through # k.through
  <2>1. CASE UNCHANGED gaps
    <3>1. \A g \in gaps : Shrinks(g, g, n)
      BY <1>1, LeftAlone
    <3> QED
      BY <1>1, <2>1, <3>1 DEF RangesStayUnique
  <2>2. ASSUME NEW g \in {f \in Open(gaps) : f.from = 1},
               gaps' = (gaps \ {g}) \cup {IF g.through = 1 THEN [g EXCEPT !.open = FALSE]
                                          ELSE [g EXCEPT !.from = 2]}
        PROVE  /\ \A h \in gaps' : \E f \in gaps : Shrinks(f, h, n)
               /\ \A f \in gaps : \E h \in gaps' : Shrinks(f, h, n)
               /\ \A h, k \in gaps' : h # k => h.through # k.through
    <3> DEFINE becomes == [f \in gaps |-> IF f = g THEN Shrunk(g, n) ELSE f]
    <3>1. g \in gaps /\ g.open /\ g.from = 1
      BY DEF Open
    <3>2. g \in Rows /\ g.from <= n /\ n <= g.through
      BY <1>1, <1>2, <3>1 DEF Rows, GapRows, Sequences
    <3>3. Shrunk(g, n) = IF g.through = 1 THEN [g EXCEPT !.open = FALSE]
                         ELSE [g EXCEPT !.from = 2]
      BY <1>2, <3>1 DEF Shrunk
    <3>4. gaps' = {becomes[f] : f \in gaps}
      BY <2>2, <3>1, <3>3
    <3>5. ASSUME NEW f \in gaps PROVE Shrinks(f, becomes[f], n)
      <4>1. CASE f = g
        BY <3>1, <3>2, <4>1, ShrunkShrinks
      <4>2. CASE f # g
        BY <1>1, <4>2, LeftAlone
      <4> QED
        BY <4>1, <4>2
    <3>6. DOMAIN becomes = gaps
      OBVIOUS
    <3> HIDE DEF becomes
    <3> QED
      BY <1>1, <3>4, <3>5, <3>6, EndsStayApart
  <2> QED
    BY <2>1, <2>2 DEF Start
<1>4. coverage' \in [from : Times, through : Times, complete : BOOLEAN,
                     expires : 0 .. MaxTime + 1]
  BY <1>1, <1>2, WatermarkAssumption DEF TypeOK, Times, Renewed, WatermarkAssumption
<1> QED
  BY <1>2, <1>3, <1>4, NextOne

(* The first number makes the row. *)
LEMMA FirstKeeps ==
    ASSUME IInv, NEW n \in Sequences, ApplyFill(n), First(n)
    PROVE  IInv'
<1> USE WatermarkAssumption DEF WatermarkAssumption
<1>1. TypeOK /\ stored = {}
  BY DEF IInv, RowSays, First
<1>2. /\ stored' = {n} /\ exists' /\ UNCHANGED <<queried, now, released>>
      /\ contiguous' = IF n = 1 THEN 1 ELSE 0
      /\ hasGap' = (n # 1)
      /\ gaps' = IF n = 1 THEN {} ELSE {Gap(1, n - 1)}
      /\ coverage' = [from |-> now, through |-> now, complete |-> FALSE, expires |-> MaxTime]
  BY <1>1 DEF ApplyFill, First
<1>3. n \in 1 .. MaxSequence /\ 1 \in Sequences /\ now \in 0 .. MaxTime
  BY <1>1 DEF Sequences, Times, TypeOK
<1>4. coverage' \in [from : Times, through : Times, complete : BOOLEAN,
                     expires : 0 .. MaxTime + 1]
  BY <1>2, <1>3 DEF Times
<1>5. ASSUME n # 1 PROVE Gap(1, n - 1) \in {g \in GapRows : g.from <= g.through}
  <2>1. 1 \in 1 .. MaxSequence /\ n - 1 \in 1 .. MaxSequence /\ 1 <= n - 1
    BY <1>3, <1>5
  <2> QED
    BY <2>1 DEF Gap, GapRows, Sequences
<1>6. TypeOK'
  <2>1. gaps' \subseteq {g \in GapRows : g.from <= g.through}
    BY <1>2, <1>5
  <2>2. contiguous' \in 0 .. MaxSequence
    BY <1>2, <1>3
  <2> QED
    BY <1>1, <1>2, <1>4, <2>1, <2>2 DEF TypeOK
<1>7. RowSays'
  <2>1. CASE n = 1
    BY <1>2, <2>1 DEF RowSays, Open
  <2>2. CASE n # 1
    BY <1>2, <2>2 DEF RowSays
  <2> QED
    BY <2>1, <2>2
<1>8. Frontier'
  BY <1>2, <1>3 DEF Frontier
<1>9. GapsEnd' /\ RangesStayUnique'
  <2>1. CASE n = 1
    BY <1>2, <2>1 DEF GapsEnd, RangesStayUnique
  <2>2. CASE n # 1
    <3>1. Gap(1, n - 1).through + 1 = n /\ Gap(1, n - 1).open
      BY <1>3 DEF Gap
    <3> QED
      BY <1>2, <2>2, <3>1 DEF GapsEnd, RangesStayUnique
  <2> QED
    BY <2>1, <2>2
<1>10. Covered'
  <2> SUFFICES ASSUME NEW m \in Sequences, m <= n, m # n
               PROVE  \E g \in gaps' : g.open /\ g.from <= m /\ m <= g.through
    BY <1>2 DEF Covered
  <2>1. n # 1 /\ 1 <= m /\ m <= n - 1
    BY <1>3 DEF Sequences
  <2> QED
    BY <1>2, <2>1 DEF Gap
<1> QED
  BY <1>6, <1>7, <1>8, <1>9, <1>10 DEF IInv

(* A number further on opens a gap, for which there is no row yet: one that    *)
(* ended there would have the number just stored above it.                     *)
LEMMA JumpKeeps ==
    ASSUME IInv, NEW n \in Sequences, ApplyFill(n), Jump(n)
    PROVE  IInv'
<1> USE WatermarkAssumption DEF WatermarkAssumption
<1> DEFINE new == Gap(contiguous + 1, n - 1)
<1>1. TypeOK /\ RowSays /\ Frontier /\ GapsEnd /\ Covered /\ RangesStayUnique
  BY DEF IInv
<1>2. /\ n \notin stored /\ stored' = stored \cup {n} /\ UNCHANGED <<queried, now, released>>
      /\ UNCHANGED <<exists, contiguous>> /\ exists /\ hasGap' = TRUE /\ coverage' = Renewed
      /\ gaps' = gaps \cup Opened(contiguous + 1, n - 1)
  BY DEF ApplyFill, Jump
<1>3. contiguous \in 0 .. MaxSequence /\ n \in 1 .. MaxSequence /\ MaxSequence \in Nat
  BY <1>1 DEF TypeOK, Sequences
<1>4. n > contiguous + 1
  <2>1. ~ (n <= contiguous)
    BY <1>1, <1>2, <1>3 DEF Frontier
  <2>2. n # contiguous + 1
    BY <1>3 DEF Jump
  <2> QED
    BY <1>3, <2>1, <2>2
<1>5. \A g \in gaps : g.through # n - 1
  <2>1. \A g \in gaps : g.through + 1 # n /\ g.through \in Nat
    BY <1>1, <1>2 DEF GapsEnd, TypeOK, GapRows, Sequences
  <2> QED
    BY <1>3, <2>1
<1>6. gaps' = gaps \cup {new}
  <2>1. ~ (n - 1 < contiguous + 1)
    BY <1>3, <1>4
  <2> QED
    BY <1>2, <1>5, <2>1 DEF Opened
<1>7. /\ new \in GapRows /\ new.from <= new.through /\ new.open
      /\ new.from = contiguous + 1 /\ new.through = n - 1
  BY <1>3, <1>4 DEF Gap, GapRows, Sequences
<1> HIDE DEF new
<1>8. TypeOK'
  <2>1. coverage' \in [from : Times, through : Times, complete : BOOLEAN,
                       expires : 0 .. MaxTime + 1]
    BY <1>1, <1>2 DEF TypeOK, Times, Renewed
  <2> QED
    BY <1>1, <1>2, <1>6, <1>7, <2>1 DEF TypeOK
<1>9. RowSays'
  BY <1>2 DEF RowSays
<1>10. Frontier'
  BY <1>1, <1>2, <1>3, <1>4 DEF Frontier
<1>11. GapsEnd'
  <2>1. new.through + 1 = n
    BY <1>3, <1>7
  <2> QED
    BY <1>1, <1>2, <1>6, <1>7, <2>1 DEF GapsEnd
<1>12. Covered'
  <2> SUFFICES ASSUME NEW k \in stored', NEW m \in Sequences, m <= k, m \notin stored'
               PROVE  \E g \in gaps' : g.open /\ g.from <= m /\ m <= g.through
    BY DEF Covered
  <2>1. CASE k \in stored
    BY <1>1, <1>2, <1>6, <2>1 DEF Covered
  <2>2. CASE k = n
    <3>1. m # n /\ ~ (m <= contiguous)
      BY <1>1, <1>2, <1>3 DEF Frontier, Sequences
    <3>2. contiguous + 1 <= m /\ m <= n - 1
      BY <1>3, <2>2, <3>1 DEF Sequences
    <3> QED
      BY <1>6, <1>7, <3>2
  <2> QED
    BY <1>2, <2>1, <2>2
<1>13. RangesStayUnique'
  BY <1>1, <1>5, <1>6, <1>7 DEF RangesStayUnique
<1> QED
  BY <1>8, <1>9, <1>10, <1>11, <1>12, <1>13 DEF IInv

(* A checkpoint rewrites the claim and the flag, never below the open gaps. *)
LEMMA CheckpointKeeps ==
    ASSUME IInv, NEW from \in Times, NEW through \in Times, NEW complete \in BOOLEAN,
           NEW gap \in BOOLEAN, Checkpoint(from, through, complete, gap)
    PROVE  IInv'
<1>1. TypeOK /\ RowSays /\ UNCHANGED <<stored, contiguous, gaps, now, released>> /\ exists'
  BY DEF IInv, Checkpoint
<1>2. TypeOK'
  <2>1. hasGap' \in BOOLEAN
    BY DEF Checkpoint
  <2>2. /\ coverage' = [from |-> from, through |-> through, complete |-> complete,
                        expires |-> through + 1]
        /\ queried' = IF complete /\ ~gap THEN through ELSE queried
    BY DEF Checkpoint
  <2>3. through + 1 \in 0 .. MaxTime + 1 /\ through \in 0 .. NoTime
    BY WatermarkAssumption DEF Times, NoTime, WatermarkAssumption
  <2> QED
    BY <1>1, <2>1, <2>2, <2>3 DEF TypeOK
<1>3. RowSays'
  <2>1. Open(gaps) # {} => hasGap'
    <3>1. CASE exists
      BY <3>1 DEF Checkpoint
    <3>2. CASE ~exists
      BY <1>1, <3>2 DEF RowSays, Open
    <3> QED
      BY <3>1, <3>2
  <2> QED
    BY <1>1, <2>1 DEF RowSays, Open
<1> QED
  BY <1>1, <1>2, <1>3 DEF IInv, Frontier, GapsEnd, Covered, RangesStayUnique

(* What the theorems about the watermark rest on: init, and every handler of a *)
(* fill, of a checkpoint and of a release, keep it.                            *)
LEMMA IInvAlways == Spec => []IInv
<1>1. Init => IInv
  <2> SUFFICES ASSUME Init PROVE IInv
    OBVIOUS
  <2>1. TypeOK
    <3>1. MaxSequence \in Nat /\ MaxTime \in Nat
      BY WatermarkAssumption DEF WatermarkAssumption
    <3>2. 0 \in Times /\ 0 \in 0 .. MaxTime + 1 /\ 0 \in 0 .. MaxSequence /\ NoTime \in 0 .. NoTime
      BY <3>1 DEF Times, NoTime
    <3> QED
      BY <3>2 DEF Init, TypeOK, NoCoverage
  <2>2. Open(gaps) = {}
    BY DEF Init, Open
  <2>3. RowSays /\ Frontier
    BY <2>2 DEF Init, RowSays, Frontier
  <2>4. GapsEnd /\ Covered /\ RangesStayUnique
    BY DEF Init, GapsEnd, Covered, RangesStayUnique
  <2> QED
    BY <2>1, <2>3, <2>4 DEF IInv
<1>2. IInv /\ [Next]_vars => IInv'
  <2> SUFFICES ASSUME IInv, [Next]_vars PROVE IInv'
    OBVIOUS
  <2>1. CASE Tick
    <3>1. now' \in Times
      BY <2>1, WatermarkAssumption DEF Tick, IInv, TypeOK, Times, WatermarkAssumption
    <3>2. UNCHANGED <<stored, exists, contiguous, hasGap, gaps, coverage, queried, released>>
      BY <2>1 DEF Tick, row
    <3> QED
      BY <3>1, <3>2 DEF IInv, TypeOK, RowSays, Open, Frontier, GapsEnd, Covered, RangesStayUnique
  <2>2. ASSUME NEW n \in Sequences, ApplyFill(n) PROVE IInv'
    BY <2>2, FirstKeeps, StartKeeps, FollowKeeps, JumpKeeps DEF ApplyFill
  <2>3. ASSUME NEW from \in Times, NEW through \in Times, NEW complete \in BOOLEAN,
               NEW gap \in BOOLEAN, Checkpoint(from, through, complete, gap)
        PROVE  IInv'
    BY <2>3, CheckpointKeeps
  <2>4. ASSUME NEW end \in Times, Release(end) PROVE IInv'
    <3>1. released' \in 0 .. NoTime
      BY <2>4, WatermarkAssumption DEF Release, Times, NoTime, WatermarkAssumption
    <3>2. UNCHANGED <<stored, exists, contiguous, hasGap, gaps, coverage, queried, now>>
      BY <2>4 DEF Release, row
    <3> QED
      BY <3>1, <3>2 DEF IInv, TypeOK, RowSays, Open, Frontier, GapsEnd, Covered, RangesStayUnique
  <2>5. CASE UNCHANGED vars
    BY <2>5 DEF vars, row, IInv, TypeOK, RowSays, Open, Frontier, GapsEnd, Covered,
       RangesStayUnique
  <2> QED
    BY <2>1, <2>2, <2>3, <2>4, <2>5 DEF Next
<1> QED
  BY <1>1, <1>2, PTL DEF Spec

-----------------------------------------------------------------------------
(* The watermark row and its gap rows keep their types, and no gap is empty,   *)
(* which the table's check constraint would refuse.                            *)
THEOREM TypeCorrect == Spec => []TypeOK
<1>1. IInv => TypeOK
  BY DEF IInv
<1> QED
  BY <1>1, IInvAlways, PTL

(* A partition that reports no gap (execution_watermarks.py,                   *)
(* advance_stream_sequence) misses no number below the highest it stored, for  *)
(* any number of fills in any order: what is missing is in an open gap.        *)
THEOREM NoGapMissedAlways == Spec => []NoGapMissed
<1>1. IInv => NoGapMissed
  <2> SUFFICES ASSUME IInv PROVE NoGapMissed
    OBVIOUS
  <2>1. 1 .. contiguous \subseteq stored
    BY DEF IInv, Frontier
  <2>2. ASSUME ~hasGap, NEW n \in stored, NEW m \in 1 .. n PROVE m \in stored
    <3>1. Open(gaps) = {}
      BY <2>2 DEF IInv, RowSays
    <3>2. m \in Sequences /\ m <= n
      BY <2>2, WatermarkAssumption DEF IInv, TypeOK, Sequences, WatermarkAssumption
    <3>3. \A g \in gaps : ~g.open
      BY <3>1 DEF Open
    <3> QED
      BY <3>2, <3>3 DEF IInv, Covered
  <2> QED
    BY <2>1, <2>2 DEF NoGapMissed
<1> QED
  BY <1>1, IInvAlways, PTL

(* No two gap rows ever end at the same number, so that no shrinking meets     *)
(* uq_exec_execution_gap_range (models/fills.py), for any number of gaps: a    *)
(* gap ends below the number whose arrival opened it, and a number is stored   *)
(* once.                                                                       *)
THEOREM RangesStayUniqueAlways == Spec => []RangesStayUnique
<1>1. IInv => RangesStayUnique
  BY DEF IInv
<1> QED
  BY <1>1, IInvAlways, PTL

-----------------------------------------------------------------------------
(* The rows a page can show, and what the variables of a read hold: a cursor   *)
(* over the account's parts stays below the last one.                          *)
RowsRead == [key : Keys, content : Contents]

CaptureTypes ==
    /\ table \in [Keys -> Contents] /\ between \in [Keys -> Contents]
    /\ reader \in Readers /\ pass \in 0 .. 2
    /\ at \in Nat /\ (reader.ask = "parts" => at < N)
    /\ seen \subseteq RowsRead /\ result \subseteq RowsRead
    /\ first.rows \subseteq RowsRead /\ checkpoint.rows \subseteq RowsRead
    /\ persisted.rows \subseteq RowsRead
    /\ steady \subseteq {k \in Keys : Held(k)} /\ calm \subseteq steady
    /\ left \subseteq Keys /\ back \subseteq Keys

(* What a pass under way says of the run: nothing has been answered or          *)
(* persisted, the first pass has no checkpoint and the second has a first.      *)
Underway ==
    /\ pass > 0 => answer = "none" /\ ~persisted.kept
    /\ pass = 1 => ~checkpoint.kept
    /\ pass = 2 => first.kept /\ reader.passes = 2
    /\ checkpoint.kept => reader.passes = 2

(* An order only goes on, so what the first pass read of it is no later than    *)
(* the moment between the passes, and what the second reads is no earlier.      *)
NotAfter(rows, t) == \A r \in rows : OneWay(r.key) => r.content <= t[r.key]
NotBefore(rows, t) == \A r \in rows : OneWay(r.key) => t[r.key] <= r.content
AroundTheMiddle ==
    /\ \A k \in Keys : OneWay(k) => between[k] <= table[k]
    /\ pass = 1 => NotAfter(seen, table)
    /\ pass = 2 => NotBefore(seen, between)
    /\ first.kept => NotAfter(first.rows, between)
    /\ checkpoint.kept => NotAfter(checkpoint.rows, between)

(* Any other row may return.  What the first pass read and was not so between   *)
(* the passes left it before, and what the second reads and was not so came     *)
(* back to it.                                                                  *)
HeldOrLeft(rows) == \A r \in rows : r.content = table[r.key] \/ r.key \in left
OnceOrLeft(rows) == \A r \in rows : r.content = between[r.key] \/ r.key \in left
OnceOrBack(rows) == \A r \in rows : r.content = between[r.key] \/ r.key \in back
LeftAndBack ==
    /\ pass = 1 /\ reader.passes = 2 => HeldOrLeft(seen)
    /\ first.kept => OnceOrLeft(first.rows)
    /\ checkpoint.kept => OnceOrLeft(checkpoint.rows)
    /\ first.kept \/ checkpoint.kept => \A k \in Keys : table[k] = between[k] \/ k \in back
    /\ pass = 2 => OnceOrBack(seen)

(* A row that stayed as it was is in the answer as it is. *)
StillSo(rows) == \A r \in rows : r.key \in calm => r.content = table[r.key]

(* How far a pass has come: up to the row last asked after nothing is missing   *)
(* that was there all the while; of the two lists, what the first left out is   *)
(* an order that has changed and will be in the second.                         *)
Reached(rows, i) ==
    \A k \in steady :
        IF Listed THEN i # 0 => k \in KeysOf(rows) \/ (k \notin Figures /\ table[k] = Changed)
                  ELSE k <= i => k \in KeysOf(rows)
NothingLeftBehind ==
    /\ StillSo(seen) /\ StillSo(result)
    /\ reader \in Careful /\ pass > 0 => Reached(seen, at)
    /\ reader \in Careful /\ answer = "complete" => steady \subseteq KeysOf(result)

(* The inductive invariant of a read. *)
CaptureInv ==
    /\ CaptureTypes /\ Underway /\ AroundTheMiddle /\ LeftAndBack
    /\ StableWasTrue /\ NothingLeftBehind

-----------------------------------------------------------------------------
(* Rows that are there have a first one. *)
LEMMA LeastRow ==
    ASSUME NEW S, S \subseteq Keys, S # {}
    PROVE  Least(S) \in S /\ \A y \in S : Least(S) <= y
<1> DEFINE R == OpToRel(<, Nat)
<1>1. IsWellFoundedOn(R, Nat)
  BY NatLessThanWellFounded
<1>2. \A x, y \in Nat : <<y, x>> \in R <=> y < x
  BY DEF OpToRel
<1>3. S \subseteq Nat
  BY CaptureAssumption DEF Keys, CaptureAssumption
<1> HIDE DEF R
<1>4. PICK b \in S : \A c \in S : ~ (<<c, b>> \in R)
  BY <1>1, <1>3, WFMin
<1>5. ASSUME NEW y \in S PROVE b <= y
  <2>1. y \in Nat /\ b \in Nat
    BY <1>3
  <2>2. ~ (y < b)
    BY <1>2, <1>4, <2>1
  <2> QED
    BY <2>1, <2>2
<1> QED
  BY <1>5 DEF Least

(* What every reader has in common: no announcement of an end makes it go on,  *)
(* and the one that keeps its first pass in the database makes two.            *)
LEMMA EveryReader ==
    ASSUME NEW r \in Readers
    PROVE  /\ r.on \cap Last = {}
           /\ r.ask \in {"again", "cursor", "parts", "lists", "merge"}
           /\ r \in Durable => r.passes = 2
<1> DEFINE Asking == {"again", "cursor", "parts", "lists", "merge"}
           Ok(x) == x.on \subseteq More /\ x.ask \in Asking
<1>1. Ok(KisContractDetails) /\ Ok(KisOpenPositions) /\ Ok(KisDailyOrders)
      /\ Ok(KisMinuteChart) /\ Ok(KisCashBalance)
  BY DEF KisContractDetails, KisOpenPositions, KisDailyOrders, KisMinuteChart, KisCashBalance,
     Reader, More
<1>2. Ok(KisStableAccount) /\ Ok(KisCashOrders) /\ Ok(KisIndex)
      /\ Ok(KisVi) /\ Ok(TossClosedOrders)
  BY DEF KisStableAccount, KisCashOrders, KisIndex, KisVi, TossClosedOrders,
     Reader, More
<1>3. Ok(TossCandles) /\ Ok(TossKrAccount) /\ Ok(TossUsCash)
      /\ Ok(BinanceAccount) /\ Ok(BinanceUsdm)
  BY DEF TossCandles, TossKrAccount, TossUsCash, BinanceAccount, BinanceUsdm, Reader, More
<1>4. Ok(r)
  <2> HIDE DEF Ok
  <2> QED
    BY <1>1, <1>2, <1>3 DEF Readers
<1>5. TossUsCash.passes = 2
  BY DEF TossUsCash, Reader
<1>6. More \cap Last = {}
  BY DEF More, Last
<1> QED
  BY <1>4, <1>5, <1>6 DEF Durable

(* A page shows rows as they are at that moment. *)
AsItIs(page) ==
    /\ page.rows \subseteq RowsRead
    /\ \A r \in page.rows : r.content = table[r.key]
    /\ page.next \in Nat /\ page.flags \in {More, Last}

(* The page after a row. *)
LEMMA PageAfterARow ==
    ASSUME CaptureTypes, NEW i \in Nat
    PROVE  /\ AsItIs(PageAfter(i))
           /\ \A k \in Keys : Held(k) /\ i < k /\ k <= PageAfter(i).next
                                => k \in KeysOf(PageAfter(i).rows)
           /\ PageAfter(i).flags = Last =>
                \A k \in Keys : Held(k) /\ i < k => k \in KeysOf(PageAfter(i).rows)
<1>0. \A k \in Keys : k \in Nat
  BY CaptureAssumption DEF Keys, CaptureAssumption
<1>1. \A k \in Keys : Row(k) \in RowsRead /\ Row(k).key = k /\ Row(k).content = table[k]
  BY DEF CaptureTypes, Row, RowsRead
<1>2. More # Last
  BY DEF More, Last
<1>3. CASE After(i) = {}
  <2>1. PageAfter(i) = [rows |-> {}, next |-> i, flags |-> Last]
    BY <1>3 DEF PageAfter
  <2>2. \A k \in Keys : ~ (Held(k) /\ i < k)
    BY <1>0, <1>3 DEF After
  <2> QED
    BY <2>1, <2>2 DEF AsItIs
<1>4. CASE After(i) # {}
  <2> DEFINE j == Least(After(i))
  <2>1. After(i) \subseteq Keys
    BY DEF After
  <2>2. j \in After(i) /\ \A y \in After(i) : j <= y
    BY <1>4, <2>1, LeastRow
  <2>3. PageAfter(i) = [rows |-> {Row(j)}, next |-> j,
                        flags |-> IF After(j) = {} THEN Last ELSE More]
    BY <1>4 DEF PageAfter
  <2> HIDE DEF j
  <2>4. j \in Keys /\ j \in Nat
    BY <1>0, <2>1, <2>2
  <2>5. AsItIs(PageAfter(i))
    <3>1. {Row(j)} \subseteq RowsRead /\ \A r \in {Row(j)} : r.content = table[r.key]
      BY <1>1, <2>4
    <3> QED
      BY <2>3, <2>4, <3>1 DEF AsItIs
  <2>6. KeysOf(PageAfter(i).rows) = {j}
    <3>1. KeysOf({Row(j)}) = {j}
      BY <1>1, <2>4 DEF KeysOf
    <3> QED
      BY <2>3, <3>1
  <2>7. \A k \in Keys : Held(k) /\ i < k => k \in After(i)
    BY <1>0 DEF After
  <2>8. ASSUME NEW k \in Keys, Held(k), i < k, k <= j PROVE k = j
    <3>1. j <= k /\ k \in Nat
      BY <1>0, <2>2, <2>7, <2>8
    <3> QED
      BY <2>4, <2>8, <3>1
  <2>9. ASSUME PageAfter(i).flags = Last, NEW k \in Keys, Held(k), i < k PROVE k = j
    <3>1. After(j) = {}
      BY <1>2, <2>3, <2>9
    <3>2. ~ (k > j) /\ k \in Nat
      BY <1>0, <2>9, <3>1 DEF After
    <3>3. k <= j
      BY <2>4, <3>2
    <3> QED
      BY <2>8, <2>9, <3>3
  <2>10. PageAfter(i).next = j
    BY <2>3
  <2> QED
    BY <2>5, <2>6, <2>8, <2>9, <2>10
<1> QED
  BY <1>3, <1>4

(* One part of the account. *)
LEMMA PartOfTheAccount ==
    ASSUME CaptureTypes, NEW i \in Nat, i < N
    PROVE  /\ AsItIs(Part(i))
           /\ Part(i).next = i + 1
           /\ Held(i + 1) => i + 1 \in KeysOf(Part(i).rows)
           /\ Part(i).flags = Last => i + 1 = N
           /\ Part(i).flags = More => i + 1 < N
<1>1. \A k \in Keys : Row(k) \in RowsRead /\ Row(k).key = k /\ Row(k).content = table[k]
  BY DEF CaptureTypes, Row, RowsRead
<1>2. i + 1 \in Keys /\ i + 1 \in Nat /\ i + 1 <= N /\ N \in Nat
  BY CaptureAssumption DEF Keys, CaptureAssumption
<1>3. More # Last
  BY DEF More, Last
<1>4. PICK k \in Keys : k = i + 1
  BY <1>2
<1>5. Part(i) = [rows |-> IF Held(k) THEN {Row(k)} ELSE {}, next |-> k,
                 flags |-> IF k = N THEN Last ELSE More]
  BY <1>4 DEF Part
<1>6. KeysOf({Row(k)}) = {k}
  BY <1>1 DEF KeysOf
<1>7. AsItIs(Part(i))
  BY <1>1, <1>2, <1>4, <1>5 DEF AsItIs
<1>8. k < N \/ k = N
  BY <1>2, <1>4
<1> QED
  BY <1>3, <1>4, <1>5, <1>6, <1>7, <1>8

(* The amounts and the open orders, and then the closed ones or all there were. *)
LEMMA ListOfOrders ==
    ASSUME CaptureTypes, NEW i \in Nat, NEW all \in BOOLEAN
    PROVE  /\ AsItIs(List(i, all))
           /\ i = 0 => /\ List(i, all).flags = More /\ List(i, all).next = 1
                       /\ \A k \in Keys : Opening(k) => k \in KeysOf(List(i, all).rows)
           /\ i # 0 => \A k \in Keys : k \notin Figures /\ table[k] = Changed
                                           => k \in KeysOf(List(i, all).rows)
<1>1. \A k \in Keys : Row(k) \in RowsRead /\ Row(k).key = k /\ Row(k).content = table[k]
  BY DEF CaptureTypes, Row, RowsRead
<1> DEFINE OpenOnes == {k \in Keys : Opening(k)}
           ClosedOnes == {k \in Keys : Closing(k, all)}
<1> DEFINE Shown(S) == {Row(k) : k \in S}
<1>2. ASSUME NEW S \in SUBSET Keys
      PROVE  /\ Shown(S) \subseteq RowsRead
             /\ \A r \in Shown(S) : r.content = table[r.key]
             /\ \A k \in S : k \in KeysOf(Shown(S))
  BY <1>1 DEF KeysOf
<1>3. OpenOnes \in SUBSET Keys /\ ClosedOnes \in SUBSET Keys
  OBVIOUS
<1>4. CASE i = 0
  <2>1. List(i, all) = [rows |-> Shown(OpenOnes), next |-> 1, flags |-> More]
    BY <1>4 DEF List
  <2>2. /\ List(i, all).rows = Shown(OpenOnes) /\ List(i, all).next = 1
        /\ List(i, all).flags = More
    BY <2>1
  <2>3. /\ Shown(OpenOnes) \subseteq RowsRead /\ \A r \in Shown(OpenOnes) : r.content = table[r.key]
        /\ \A k \in OpenOnes : k \in KeysOf(Shown(OpenOnes))
    BY <1>2, <1>3
  <2> HIDE DEF Shown
  <2>4. AsItIs(List(i, all))
    BY <2>2, <2>3 DEF AsItIs
  <2> QED
    BY <1>4, <2>2, <2>3, <2>4
<1>5. CASE i # 0
  <2>1. List(i, all) = [rows |-> Shown(ClosedOnes), next |-> 2, flags |-> Last]
    BY <1>5 DEF List
  <2>2. /\ List(i, all).rows = Shown(ClosedOnes) /\ List(i, all).next = 2
        /\ List(i, all).flags = Last
    BY <2>1
  <2>3. /\ Shown(ClosedOnes) \subseteq RowsRead
        /\ \A r \in Shown(ClosedOnes) : r.content = table[r.key]
        /\ \A k \in ClosedOnes : k \in KeysOf(Shown(ClosedOnes))
    BY <1>2, <1>3
  <2> HIDE DEF Shown
  <2>4. AsItIs(List(i, all))
    BY <2>2, <2>3 DEF AsItIs
  <2> QED
    BY <1>5, <2>2, <2>3, <2>4 DEF Closing
<1> QED
  BY <1>4, <1>5

-----------------------------------------------------------------------------
(* Every page shows rows as they are, and takes the reader as far as it says;   *)
(* the last one leaves nothing behind that was there all the while.             *)
Brings(page) ==
    /\ AsItIs(page)
    /\ reader.ask = "parts" /\ page.flags = More => page.next < N
    /\ Reached(seen, at) => /\ Reached(seen \cup page.rows, page.next)
                            /\ page.flags = Last => steady \subseteq KeysOf(seen \cup page.rows)

(* The pages of a pass are read into one set of rows. *)
LEMMA KeysTogether ==
    ASSUME NEW S, NEW T
    PROVE  KeysOf(S \cup T) = KeysOf(S) \cup KeysOf(T)
BY DEF KeysOf

(* Whatever the reader asks for, by cursor, without one, part by part or in two *)
(* lists, the answer it may get brings it that far (the page readers of         *)
(* kis/adapter.py, account_snapshot.py, us_orders.py, account.py).              *)
LEMMA PageBrings ==
    ASSUME CaptureTypes, NEW page \in Answers
    PROVE  Brings(page)
<1>1. /\ steady \subseteq Keys /\ \A k \in steady : Held(k) /\ k \in Nat
      /\ at \in Nat /\ N \in Nat
  <2>1. N \in Nat /\ \A k \in Keys : k \in Nat
    BY CaptureAssumption DEF CaptureAssumption, Keys
  <2>2. at \in Nat /\ calm \subseteq steady /\ steady \subseteq {k \in Keys : Held(k)}
    BY DEF CaptureTypes
  <2> QED
    BY <2>1, <2>2
<1>2. More # Last
  BY DEF More, Last
<1>3. reader.ask \in {"again", "cursor", "parts", "lists", "merge"}
  BY EveryReader DEF CaptureTypes
<1>4. KeysOf(seen \cup page.rows) = KeysOf(seen) \cup KeysOf(page.rows)
  BY KeysTogether
<1>5. CASE reader.ask \in {"again", "cursor"}
  <2>1. ~Listed /\ reader.ask # "parts"
    BY <1>5 DEF Listed
  <2>2. PICK i \in {at, 0} : page = PageAfter(i)
    BY <1>5 DEF Answers
  <2>3. i \in Nat
    BY <1>1
  <2>4. /\ AsItIs(page)
        /\ \A k \in Keys : Held(k) /\ i < k /\ k <= page.next => k \in KeysOf(page.rows)
        /\ page.flags = Last => \A k \in Keys : Held(k) /\ i < k => k \in KeysOf(page.rows)
    BY <2>2, <2>3, PageAfterARow
  <2>5. ASSUME Reached(seen, at), NEW k \in steady, ~ (i < k) PROVE k \in KeysOf(seen)
    <3>1. k <= i /\ k # 0
      BY <1>1, <2>3, <2>5, CaptureAssumption DEF Keys, CaptureAssumption
    <3>2. k <= at
      BY <1>1, <2>3, <3>1
    <3> QED
      BY <2>1, <2>5, <3>2 DEF Reached
  <2>6. ASSUME Reached(seen, at)
        PROVE  /\ \A k \in steady : k <= page.next => k \in KeysOf(seen \cup page.rows)
               /\ page.flags = Last => steady \subseteq KeysOf(seen \cup page.rows)
    BY <1>1, <1>4, <2>4, <2>5, <2>6
  <2> QED
    BY <2>1, <2>4, <2>6 DEF Brings, Reached
<1>6. CASE reader.ask = "parts"
  <2>1. ~Listed /\ page = Part(at) /\ at < N
    BY <1>6 DEF Listed, Answers, CaptureTypes
  <2>2. /\ AsItIs(page) /\ page.next = at + 1
        /\ Held(at + 1) => at + 1 \in KeysOf(page.rows)
        /\ page.flags = Last => at + 1 = N
        /\ page.flags = More => at + 1 < N
    BY <1>1, <2>1, PartOfTheAccount
  <2>3. ASSUME Reached(seen, at), NEW k \in steady, k <= at + 1
        PROVE  k \in KeysOf(seen \cup page.rows)
    <3>1. CASE k = at + 1
      BY <1>1, <1>4, <2>2, <3>1
    <3>2. CASE k # at + 1
      <4>1. k <= at
        BY <1>1, <2>3, <3>2
      <4> QED
        BY <1>4, <2>1, <2>3, <4>1 DEF Reached
    <3> QED
      BY <3>1, <3>2
  <2>4. ASSUME page.flags = Last, NEW k \in steady PROVE k <= at + 1
    BY <1>1, <2>2, <2>4, CaptureAssumption DEF Keys, CaptureAssumption
  <2>5. Reached(seen, at) => /\ Reached(seen \cup page.rows, page.next)
                             /\ page.flags = Last => steady \subseteq KeysOf(seen \cup page.rows)
    BY <2>1, <2>2, <2>3, <2>4 DEF Reached
  <2>6. page.flags = More => page.next < N
    BY <2>2
  <2> QED
    BY <2>2, <2>5, <2>6 DEF Brings
<1>7. CASE reader.ask \in {"lists", "merge"}
  <2>1. Listed /\ reader.ask # "parts"
    BY <1>7 DEF Listed
  <2>2. PICK all \in BOOLEAN : page = List(at, all)
    BY <1>7 DEF Answers
  <2>3. /\ AsItIs(page)
        /\ at = 0 => /\ page.flags = More
                     /\ \A k \in Keys : Opening(k) => k \in KeysOf(page.rows)
        /\ at # 0 => \A k \in Keys : k \notin Figures /\ table[k] = Changed
                                           => k \in KeysOf(page.rows)
    BY <1>1, <2>2, ListOfOrders
  <2>4. \A k \in steady : Opening(k) \/ (k \notin Figures /\ table[k] = Changed)
    BY <1>1 DEF Held, Present, Opening
  <2>5. CASE at = 0
    BY <1>1, <1>2, <1>4, <2>1, <2>3, <2>4, <2>5 DEF Brings, Reached
  <2>6. CASE at # 0
    <3>1. Reached(seen, at) => steady \subseteq KeysOf(seen \cup page.rows)
      BY <1>1, <1>4, <2>1, <2>3, <2>6 DEF Reached
    <3> QED
      BY <2>1, <2>3, <3>1 DEF Brings, Reached
  <2> QED
    BY <2>5, <2>6
<1> QED
  BY <1>3, <1>5, <1>6, <1>7

(* What a reader takes from a page: a careful one takes what it brings.         *)
Taken(page, rows) ==
    /\ rows = page.rows \/ rows = {}
    /\ reader \in Careful => rows = page.rows

(* What a pass has read once a page is taken: rows as they are, none of them    *)
(* from the wrong side of the moment between the passes, and nothing left       *)
(* behind.                                                                      *)
LEMMA TakenAsItIs ==
    ASSUME CaptureInv, pass > 0, NEW page \in Answers, NEW rows, Taken(page, rows)
    PROVE  /\ seen \cup rows \subseteq RowsRead /\ StillSo(seen \cup rows)
           /\ pass = 1 => NotAfter(seen \cup rows, table)
           /\ pass = 2 => NotBefore(seen \cup rows, between)
           /\ pass = 1 /\ reader.passes = 2 => HeldOrLeft(seen \cup rows)
           /\ pass = 2 => OnceOrBack(seen \cup rows)
           /\ reader \in Careful => Reached(seen \cup rows, page.next)
           /\ reader \in Careful /\ page.flags = Last => steady \subseteq KeysOf(seen \cup rows)
           /\ page.next \in Nat /\ (reader.ask = "parts" /\ page.flags = More => page.next < N)
<1>1. Brings(page) /\ AsItIs(page)
  BY PageBrings DEF CaptureInv, Brings
<1>2. rows \subseteq RowsRead /\ \A r \in rows : r.content = table[r.key]
  BY <1>1 DEF AsItIs, Taken
<1>3. \A r \in rows : r.key \in Keys /\ table[r.key] \in Int
  BY <1>2 DEF CaptureInv, CaptureTypes, RowsRead, Contents, Absent, Gone
<1>12. \A k \in Keys : OneWay(k) => between[k] <= table[k]
  BY DEF CaptureInv, AroundTheMiddle
<1>4. /\ seen \subseteq RowsRead /\ StillSo(seen)
      /\ pass = 1 => NotAfter(seen, table)
      /\ pass = 2 => NotBefore(seen, between)
      /\ reader \in Careful => Reached(seen, at)
  BY DEF CaptureInv, CaptureTypes, NothingLeftBehind, AroundTheMiddle
<1>5. seen \cup rows \subseteq RowsRead /\ StillSo(seen \cup rows)
  BY <1>2, <1>4 DEF StillSo
<1>6. ASSUME pass = 1 PROVE NotAfter(seen \cup rows, table)
  <2> SUFFICES ASSUME NEW r \in seen \cup rows, OneWay(r.key) PROVE r.content <= table[r.key]
    BY DEF NotAfter
  <2>1. CASE r \in seen
    BY <1>4, <1>6, <2>1 DEF NotAfter
  <2>2. CASE r \in rows
    <3>1. r.content = table[r.key] /\ table[r.key] \in Int
      BY <1>2, <1>3, <2>2
    <3> QED
      BY <3>1
  <2> QED
    BY <2>1, <2>2
<1>7. ASSUME pass = 2 PROVE NotBefore(seen \cup rows, between)
  <2> SUFFICES ASSUME NEW r \in seen \cup rows, OneWay(r.key) PROVE between[r.key] <= r.content
    BY DEF NotBefore
  <2>1. CASE r \in seen
    BY <1>4, <1>7, <2>1 DEF NotBefore
  <2>2. CASE r \in rows
    <3>1. r.content = table[r.key] /\ r.key \in Keys
      BY <1>2, <1>3, <2>2
    <3> QED
      BY <1>12, <3>1
  <2> QED
    BY <2>1, <2>2
<1>8. reader \in Careful => /\ Reached(seen \cup rows, page.next)
                            /\ page.flags = Last => steady \subseteq KeysOf(seen \cup rows)
  BY <1>1, <1>4 DEF Taken, Brings
<1>10. pass = 1 /\ reader.passes = 2 => HeldOrLeft(seen \cup rows)
  BY <1>2 DEF CaptureInv, LeftAndBack, HeldOrLeft
<1>11. pass = 2 => OnceOrBack(seen \cup rows)
  <2> SUFFICES ASSUME pass = 2 PROVE OnceOrBack(seen \cup rows)
    OBVIOUS
  <2>1. OnceOrBack(seen) /\ \A k \in Keys : table[k] = between[k] \/ k \in back
    BY DEF CaptureInv, LeftAndBack, Underway
  <2> SUFFICES ASSUME NEW r \in seen \cup rows
               PROVE  r.content = between[r.key] \/ r.key \in back
    BY DEF OnceOrBack
  <2>2. CASE r \in seen
    BY <2>1, <2>2 DEF OnceOrBack
  <2>3. CASE r \in rows
    <3>1. r.content = table[r.key] /\ r.key \in Keys
      BY <1>2, <1>3, <2>3
    <3> QED
      BY <2>1, <3>1
  <2> QED
    BY <2>2, <2>3
<1>9. page.next \in Nat /\ (reader.ask = "parts" /\ page.flags = More => page.next < N)
  BY <1>1 DEF AsItIs, Brings
<1> QED
  BY <1>5, <1>6, <1>7, <1>8, <1>9, <1>10, <1>11

-----------------------------------------------------------------------------
(* A read that ends without an answer. *)
LEMMA Abandoned ==
    ASSUME CaptureInv, pass' = 0, answer' # "complete", at' = 0, seen' = {}, first' = None,
           result' \in {result, {}}, checkpoint' \in {checkpoint, None},
           UNCHANGED <<table, reader, persisted, steady, calm, between, left, back>>
    PROVE  CaptureInv'
<1>1. CaptureTypes'
  <2>1. 0 < N /\ ~None.kept /\ None.rows = {}
    BY CaptureAssumption DEF CaptureAssumption, None
  <2> QED
    BY <2>1 DEF CaptureInv, CaptureTypes, Held
<1>2. Underway'
  BY DEF CaptureInv, Underway, None
<1>3. AroundTheMiddle'
  BY DEF CaptureInv, AroundTheMiddle, None, NotAfter, OneWay, Listed
<1>6. LeftAndBack'
  BY DEF CaptureInv, LeftAndBack, None, OnceOrLeft
<1>4. StableWasTrue'
  BY DEF CaptureInv, StableWasTrue, Fooled, OneWay, Listed
<1>5. NothingLeftBehind'
  BY DEF CaptureInv, NothingLeftBehind, StillSo
<1> QED
  BY <1>1, <1>2, <1>3, <1>4, <1>5, <1>6 DEF CaptureInv

(* A page is read and more are to come. *)
LEMMA WentOn ==
    ASSUME CaptureInv, pass > 0, NEW page \in Answers, NEW rows, Taken(page, rows),
           page.flags = More, at' = page.next, seen' = seen \cup rows,
           UNCHANGED <<table, reader, pass, first, checkpoint, outcome, steady, calm, between,
                       left, back>>
    PROVE  CaptureInv'
<1> USE DEF outcome
<1>1. /\ seen' \subseteq RowsRead /\ StillSo(seen')
      /\ pass = 1 => NotAfter(seen', table)
      /\ pass = 2 => NotBefore(seen', between)
      /\ pass = 1 /\ reader.passes = 2 => HeldOrLeft(seen')
      /\ pass = 2 => OnceOrBack(seen')
      /\ reader \in Careful => Reached(seen', at')
      /\ at' \in Nat /\ (reader.ask = "parts" => at' < N)
  BY TakenAsItIs
<1>2. CaptureTypes'
  BY <1>1 DEF CaptureInv, CaptureTypes, Held
<1>3. Underway'
  BY DEF CaptureInv, Underway
<1>4. AroundTheMiddle'
  BY <1>1 DEF CaptureInv, AroundTheMiddle, NotAfter, NotBefore, OneWay, Listed
<1>7. LeftAndBack'
  BY <1>1 DEF CaptureInv, LeftAndBack, HeldOrLeft, OnceOrLeft, OnceOrBack
<1>5. StableWasTrue'
  BY DEF CaptureInv, StableWasTrue, Fooled, OneWay, Listed
<1>6. NothingLeftBehind'
  BY <1>1 DEF CaptureInv, NothingLeftBehind, StillSo, Reached, Listed
<1> QED
  BY <1>2, <1>3, <1>4, <1>5, <1>6, <1>7 DEF CaptureInv

(* The first of two passes is complete. *)
LEMMA FirstPassKept ==
    ASSUME CaptureInv, pass = 1, reader.passes = 2,
           NEW page \in Answers, NEW rows, Taken(page, rows),
           pass' = 2, first' = [kept |-> TRUE, rows |-> seen \cup rows],
           at' = 0, seen' = {}, checkpoint' \in {first', checkpoint}, between' = table,
           back' = {}, UNCHANGED <<table, reader, outcome, steady, calm, left>>
    PROVE  CaptureInv'
<1> USE DEF outcome
<1>1. /\ seen \cup rows \subseteq RowsRead /\ NotAfter(seen \cup rows, table)
      /\ HeldOrLeft(seen \cup rows)
  <2>1. pass > 0
    OBVIOUS
  <2> QED
    BY <2>1, TakenAsItIs
<1>2. CaptureTypes'
  <2>1. 0 < N
    BY CaptureAssumption DEF CaptureAssumption
  <2> QED
    BY <1>1, <2>1 DEF CaptureInv, CaptureTypes, Held
<1>3. Underway'
  BY DEF CaptureInv, Underway
<1>4. AroundTheMiddle'
  <2>1. \A k \in Keys : table[k] \in Int
    BY DEF CaptureInv, CaptureTypes, Contents, Absent, Gone
  <2>2. ~checkpoint.kept
    BY DEF CaptureInv, Underway
  <2> QED
    BY <1>1, <2>1, <2>2 DEF CaptureInv, AroundTheMiddle, NotAfter, NotBefore, OneWay, Listed
<1>7. LeftAndBack'
  <2>1. ~checkpoint.kept
    BY DEF CaptureInv, Underway
  <2> QED
    BY <1>1, <2>1 DEF LeftAndBack, HeldOrLeft, OnceOrLeft, OnceOrBack
<1>5. StableWasTrue'
  BY DEF CaptureInv, StableWasTrue, Underway
<1>6. NothingLeftBehind'
  <2>1. \A k \in steady : k \in Nat /\ k # 0
    BY CaptureAssumption DEF CaptureInv, CaptureTypes, Keys, CaptureAssumption
  <2> QED
    BY <2>1 DEF CaptureInv, NothingLeftBehind, StillSo, Reached, Listed, Underway
<1> QED
  BY <1>2, <1>3, <1>4, <1>5, <1>6, <1>7 DEF CaptureInv

(* The answer is complete. *)
LEMMA Answered ==
    ASSUME CaptureInv, pass > 0, NEW page \in Answers, NEW rows, Taken(page, rows),
           reader.passes = 2 => pass = 2 /\ Agree(seen \cup rows),
           reader \in Careful => page.flags = Last,
           pass' = 0, answer' = "complete", at' = 0, seen' = {}, first' = None,
           result' = seen \cup rows, checkpoint' = None,
           persisted' = IF reader \in Durable THEN [kept |-> TRUE, rows |-> seen \cup rows]
                     ELSE persisted,
           UNCHANGED <<table, reader, steady, calm, between, left, back>>
    PROVE  CaptureInv'
<1>1. /\ result' \subseteq RowsRead /\ StillSo(result')
      /\ pass = 2 => NotBefore(result', between) /\ OnceOrBack(result')
      /\ reader \in Careful => steady \subseteq KeysOf(result')
  BY TakenAsItIs
<1>2. CaptureTypes'
  <2>1. 0 < N /\ None.rows = {}
    BY CaptureAssumption DEF CaptureAssumption, None
  <2> QED
    BY <1>1, <2>1 DEF CaptureInv, CaptureTypes, Held
<1>3. Underway'
  BY DEF Underway, None
<1>4. AroundTheMiddle'
  BY DEF CaptureInv, AroundTheMiddle, None, OneWay, Listed
<1>7. LeftAndBack'
  BY DEF LeftAndBack, None
<1>5. StableWasTrue'
  <2>1. ASSUME reader.passes = 2, NEW r \in result'
        PROVE  between[r.key] = r.content \/ Fooled(r.key)
    <3>1. /\ NotAfter(result', between) /\ NotBefore(result', between)
          /\ OnceOrLeft(result') /\ OnceOrBack(result')
      BY <1>1, <2>1 DEF CaptureInv, AroundTheMiddle, LeftAndBack, Underway, Agree
    <3>2. between[r.key] \in Int /\ r.content \in Int
      BY <1>1 DEF CaptureInv, CaptureTypes, RowsRead, Contents, Absent, Gone
    <3>3. CASE OneWay(r.key)
      BY <3>1, <3>2, <3>3 DEF NotAfter, NotBefore
    <3>4. CASE ~OneWay(r.key)
      BY <3>1, <3>4 DEF OnceOrLeft, OnceOrBack, Fooled
    <3> QED
      BY <3>3, <3>4
  <2>2. reader \in Durable => reader.passes = 2
    BY EveryReader DEF CaptureInv, CaptureTypes
  <2>5. \A k \in Keys : Fooled(k)' <=> Fooled(k)
    BY DEF Fooled, OneWay, Listed
  <2>6. \A r \in result' \cup persisted.rows : r.key \in Keys
    BY <1>1 DEF CaptureInv, CaptureTypes, RowsRead
  <2>3. CASE reader \in Durable
    BY <2>1, <2>2, <2>3, <2>5, <2>6 DEF StableWasTrue
  <2>4. CASE reader \notin Durable
    BY <2>1, <2>4, <2>5, <2>6 DEF CaptureInv, StableWasTrue
  <2> QED
    BY <2>3, <2>4
<1>6. NothingLeftBehind'
  <2>1. StillSo(seen)' /\ StillSo(result)'
    BY <1>1 DEF StillSo
  <2>2. reader \in Careful => (steady \subseteq KeysOf(result))'
    BY <1>1 DEF KeysOf
  <2>3. ~ (pass' > 0)
    OBVIOUS
  <2> QED
    BY <2>1, <2>2, <2>3 DEF NothingLeftBehind
<1> QED
  BY <1>2, <1>3, <1>4, <1>5, <1>6, <1>7 DEF CaptureInv

-----------------------------------------------------------------------------
(* A page is read. *)
LEMMA ReadPageKeeps ==
    ASSUME CaptureInv, ReadPage
    PROVE  CaptureInv'
<1>1. PICK page \in Answers, defect \in Defects \cup {"no"} : \E flag \in page.flags :
         LET rows == IF defect = "no" THEN page.rows ELSE {} IN
         IF defect \in reader.refuses \/ Repeated(rows) THEN Incomplete
         ELSE TurnPage(page, seen \cup rows, flag)
  BY DEF ReadPage
<1>2. PICK flag \in page.flags :
         LET rows == IF defect = "no" THEN page.rows ELSE {} IN
         IF defect \in reader.refuses \/ Repeated(rows) THEN Incomplete
         ELSE TurnPage(page, seen \cup rows, flag)
  BY <1>1
<1>3. PICK rows : rows = IF defect = "no" THEN page.rows ELSE {}
  OBVIOUS
<1>4. pass > 0 /\ UNCHANGED <<table, reader, late, steady, calm, left, changes, restarts>>
  BY DEF ReadPage
<1>5. CASE Incomplete
  BY <1>4, <1>5, Abandoned DEF Incomplete, Stop
<1>6. CASE defect \notin reader.refuses /\ TurnPage(page, seen \cup rows, flag)
  <2>1. Taken(page, rows)
    <3>1. reader \in Careful => defect \notin Defects
      BY <1>6 DEF Careful
    <3> QED
      BY <1>3, <3>1 DEF Taken
  <2>2. page.flags = More \/ page.flags = Last
    BY PageBrings DEF CaptureInv, Brings, AsItIs
  <2>3. CASE flag \in reader.on /\ pages + 1 < PageLimit
    <3>1. reader.on \cap Last = {}
      BY EveryReader DEF CaptureInv, CaptureTypes
    <3>2. page.flags = More
      BY <2>2, <2>3, <3>1
    <3>3. /\ at' = page.next /\ seen' = seen \cup rows
          /\ UNCHANGED <<pass, first, checkpoint, outcome, between, back>>
      BY <1>6, <2>3 DEF TurnPage
    <3> QED
      BY <1>4, <2>1, <3>2, <3>3, WentOn
  <2>4. CASE ~ (flag \in reader.on /\ pages + 1 < PageLimit) /\ ~Incomplete
    <3>1. flag \in reader.stop /\ FinishPass(seen \cup rows)
      BY <1>6, <2>4 DEF TurnPage
    <3>2. reader \in Careful => page.flags = Last
      BY <2>2, <3>1 DEF Careful
    <3>3. CASE reader.passes = 2 /\ pass = 1
      <4>1. /\ pass' = 2 /\ first' = [kept |-> TRUE, rows |-> seen \cup rows]
            /\ at' = 0 /\ seen' = {}
            /\ checkpoint' = IF reader \in Durable THEN first' ELSE checkpoint
            /\ between' = table /\ back' = {} /\ UNCHANGED outcome
        BY <3>1, <3>3 DEF FinishPass
      <4>2. checkpoint' \in {first', checkpoint}
        BY <4>1
      <4> QED
        BY <1>4, <2>1, <3>3, <4>1, <4>2, FirstPassKept
    <3>4. CASE reader.passes = 2 /\ pass = 2 /\ ~Agree(seen \cup rows)
      <4>1. /\ Stop("incomplete") /\ checkpoint' = None
            /\ UNCHANGED <<result, persisted, between, back>>
        BY <3>1, <3>4 DEF FinishPass
      <4> QED
        BY <1>4, <4>1, Abandoned DEF Stop
    <3>5. CASE /\ ~ (reader.passes = 2 /\ pass = 1)
               /\ ~ (reader.passes = 2 /\ pass = 2 /\ ~Agree(seen \cup rows))
      <4>1. /\ Stop("complete") /\ result' = seen \cup rows /\ checkpoint' = None
            /\ persisted' = IF reader \in Durable THEN [kept |-> TRUE, rows |-> seen \cup rows]
                         ELSE persisted
            /\ UNCHANGED <<between, back>>
        BY <3>1, <3>5 DEF FinishPass
      <4>2. pass = 1 \/ pass = 2
        BY <1>4 DEF CaptureInv, CaptureTypes
      <4>3. reader.passes = 2 => pass = 2 /\ Agree(seen \cup rows)
        BY <3>5, <4>2
      <4> QED
        BY <1>4, <2>1, <3>2, <4>1, <4>3, Answered DEF Stop
    <3> QED
      BY <3>3, <3>4, <3>5
  <2> QED
    BY <1>5, <2>3, <2>4
<1> QED
  BY <1>2, <1>3, <1>5, <1>6

(* The provider changes a row: an order goes on, any row is noted that the first *)
(* pass had read or that changes after it, and what was read stays what it was.  *)
LEMMA ChangeKeeps ==
    ASSUME CaptureInv, NEW k \in Keys, Change(k)
    PROVE  CaptureInv'
<1>0. PICK content \in Following(k) : table' = [table EXCEPT ![k] = content]
  BY DEF Change
<1>1. /\ steady' = {j \in steady : table'[j] \in Present} /\ calm' = calm \ {k}
      /\ UNCHANGED <<reader, pass, at, seen, first, checkpoint, answer, result, persisted, between>>
      /\ Noted(k)
  BY DEF Change, reading, outcome
<1>2. CaptureTypes
  BY DEF CaptureInv
<1>10. content \in Contents /\ (OneWay(k) => content = table[k] + 1)
  BY DEF Following, Contents, Absent, Present, New, Changed, Gone
<1>3. \A j \in Keys : table[j] \in Contents /\ table'[j] = IF j = k THEN content ELSE table[j]
  BY <1>0, <1>2 DEF CaptureTypes
<1>14. \A j \in Keys : table[j] \in Int /\ table'[j] \in Int
  BY <1>3, <1>10 DEF Contents, Absent, Gone
<1>4. ASSUME NEW j \in Keys, OneWay(j) PROVE table[j] <= table'[j]
  BY <1>3, <1>4, <1>10, <1>14
<1>11. \A j : OneWay(j)' <=> OneWay(j)
  BY <1>1 DEF OneWay, Listed
<1>12. /\ left \subseteq left' /\ back \subseteq back' /\ left' \subseteq Keys /\ back' \subseteq Keys
       /\ pass = 1 /\ reader.passes = 2 /\ k \in KeysOf(seen) => k \in left'
       /\ first.kept \/ checkpoint.kept => k \in back'
  BY <1>1, <1>2 DEF Noted, CaptureTypes
<1>5. CaptureTypes'
  <2>1. table' \in [Keys -> Contents]
    BY <1>0, <1>2, <1>10 DEF CaptureTypes
  <2>2. steady' \subseteq {j \in Keys : Held(j)}'
    BY <1>1, <1>2 DEF CaptureTypes, Held
  <2>3. calm' \subseteq steady'
    BY <1>1, <1>2, <1>3 DEF CaptureTypes, Held
  <2> QED
    BY <1>1, <1>2, <1>12, <2>1, <2>2, <2>3 DEF CaptureTypes
<1>6. Underway'
  BY <1>1 DEF CaptureInv, Underway
<1>7. AroundTheMiddle'
  <2>1. \A j \in Keys : between[j] \in Int
    BY <1>2 DEF CaptureTypes, Contents, Absent, Gone
  <2>2. ASSUME NEW j \in Keys, OneWay(j) PROVE between[j] <= table'[j]
    <3>1. between[j] <= table[j]
      BY <2>2 DEF CaptureInv, AroundTheMiddle
    <3>2. table[j] <= table'[j]
      BY <1>4, <2>2
    <3> QED
      BY <1>14, <2>1, <3>1, <3>2
  <2>3. ASSUME NotAfter(seen, table) PROVE NotAfter(seen, table')
    <3> SUFFICES ASSUME NEW r \in seen, OneWay(r.key) PROVE r.content <= table'[r.key]
      BY DEF NotAfter
    <3>1. r.key \in Keys /\ r.content \in Int
      BY <1>2 DEF CaptureTypes, RowsRead, Contents, Absent, Gone
    <3>2. r.content <= table[r.key]
      BY <2>3 DEF NotAfter
    <3>3. table[r.key] <= table'[r.key]
      BY <1>4, <2>3, <3>1
    <3>4. table[r.key] \in Int /\ table'[r.key] \in Int
      BY <1>14, <3>1
    <3> QED
      BY <3>1, <3>2, <3>3, <3>4
  <2> QED
    BY <1>1, <1>11, <2>2, <2>3 DEF CaptureInv, AroundTheMiddle, NotAfter, NotBefore
<1>13. LeftAndBack'
  <2>1. ASSUME pass = 1, reader.passes = 2 PROVE HeldOrLeft(seen)'
    <3> SUFFICES ASSUME NEW r \in seen PROVE r.content = table'[r.key] \/ r.key \in left'
      BY <1>1 DEF HeldOrLeft
    <3>1. r.key \in Keys /\ r.key \in KeysOf(seen)
      BY <1>2 DEF CaptureTypes, RowsRead, KeysOf
    <3>2. r.content = table[r.key] \/ r.key \in left
      BY <2>1 DEF CaptureInv, LeftAndBack, HeldOrLeft
    <3> QED
      BY <1>3, <1>12, <2>1, <3>1, <3>2
  <2>2. first.kept \/ checkpoint.kept => \A j \in Keys : table'[j] = between[j] \/ j \in back'
    BY <1>3, <1>12 DEF CaptureInv, LeftAndBack
  <2> QED
    BY <1>1, <1>12, <2>1, <2>2 DEF CaptureInv, LeftAndBack, OnceOrLeft, OnceOrBack
<1>8. StableWasTrue'
  <2>1. \A j : Fooled(j) => Fooled(j)'
    BY <1>11, <1>12 DEF Fooled
  <2> QED
    BY <1>1, <2>1 DEF CaptureInv, StableWasTrue
<1>9. NothingLeftBehind'
  <2>2. StillSo(seen)' /\ StillSo(result)'
    <3>1. StillSo(seen) /\ StillSo(result) /\ seen \subseteq RowsRead /\ result \subseteq RowsRead
      BY <1>2 DEF CaptureInv, NothingLeftBehind, CaptureTypes
    <3> QED
      BY <1>1, <1>3, <3>1 DEF StillSo, RowsRead
  <2>3. Reached(seen, at) => Reached(seen, at)'
    <3>1. \A j \in steady' : j \in steady /\ j \in Keys /\ table'[j] \in Present
      BY <1>1, <1>2 DEF CaptureTypes
    <3>2. ASSUME Listed, NEW j \in steady', j \notin Figures, table[j] = Changed
          PROVE  table'[j] = Changed
      <4>1. table'[j] = table[j] \/ (j = k /\ table'[j] = table[k] + 1)
        BY <1>3, <1>10, <3>1, <3>2 DEF OneWay
      <4> QED
        BY <3>1, <3>2, <4>1 DEF Present, Changed, New
    <3> QED
      BY <1>1, <3>1, <3>2 DEF Reached, Listed
  <2>4. steady \subseteq KeysOf(result) => (steady \subseteq KeysOf(result))'
    BY <1>1 DEF KeysOf
  <2> QED
    BY <1>1, <2>2, <2>3, <2>4 DEF CaptureInv, NothingLeftBehind
<1> QED
  BY <1>5, <1>6, <1>7, <1>8, <1>9, <1>13 DEF CaptureInv

(* A read begins. *)
LEMMA BeginReadKeeps ==
    ASSUME CaptureInv, BeginRead
    PROVE  CaptureInv'
<1>1. /\ pass = 0 /\ ~persisted.kept
      /\ pass' = IF checkpoint.kept THEN 2 ELSE 1
      /\ first' = checkpoint
      /\ at' = 0 /\ seen' = {} /\ answer' = "none" /\ result' = {}
      /\ steady' = {k \in Keys : Held(k)} /\ calm' = steady'
      /\ IF checkpoint.kept THEN UNCHANGED <<between, left, back>>
         ELSE between' = table /\ left' = {} /\ back' = {}
      /\ UNCHANGED <<table, reader, checkpoint, persisted>>
  BY DEF BeginRead
<1>2. CaptureTypes'
  <2>1. 0 < N
    BY CaptureAssumption DEF CaptureAssumption
  <2> QED
    BY <1>1, <2>1 DEF CaptureInv, CaptureTypes, Held
<1>3. Underway'
  BY <1>1 DEF CaptureInv, Underway
<1>4. AroundTheMiddle'
  <2>1. \A k \in Keys : table[k] \in Int
    BY DEF CaptureInv, CaptureTypes, Contents, Absent, Gone
  <2>2. CASE checkpoint.kept
    BY <1>1, <2>2 DEF CaptureInv, AroundTheMiddle, NotAfter, NotBefore, OneWay, Listed
  <2>3. CASE ~checkpoint.kept
    BY <1>1, <2>1, <2>3 DEF AroundTheMiddle, NotAfter
  <2> QED
    BY <2>2, <2>3
<1>7. LeftAndBack'
  <2>1. CASE checkpoint.kept
    BY <1>1, <2>1 DEF CaptureInv, LeftAndBack, OnceOrLeft, OnceOrBack
  <2>2. CASE ~checkpoint.kept
    BY <1>1, <2>2 DEF LeftAndBack, HeldOrLeft
  <2> QED
    BY <2>1, <2>2
<1>5. StableWasTrue'
  BY <1>1 DEF StableWasTrue
<1>6. NothingLeftBehind'
  <2>1. \A k \in Keys : k \in Nat /\ k # 0
    BY CaptureAssumption DEF Keys, CaptureAssumption
  <2>2. Reached(seen, at)'
    BY <1>1, <2>1 DEF Reached, Listed
  <2> QED
    BY <1>1, <2>2 DEF NothingLeftBehind, StillSo
<1> QED
  BY <1>2, <1>3, <1>4, <1>5, <1>6, <1>7 DEF CaptureInv

(* Another run has no checkpoint. *)
LEMMA NextRunKeeps ==
    ASSUME CaptureInv, NextRun
    PROVE  CaptureInv'
<1>1. /\ pass = 0 /\ checkpoint' = None /\ persisted' = None
      /\ UNCHANGED <<table, reader, pass, at, seen, first, answer, result, steady, calm, between,
                   left, back>>
  BY DEF NextRun, reading
<1>2. ~None.kept /\ None.rows = {}
  BY DEF None
<1>3. CaptureTypes'
  BY <1>1, <1>2 DEF CaptureInv, CaptureTypes, Held
<1>4. Underway' /\ AroundTheMiddle' /\ StableWasTrue'
  BY <1>1, <1>2 DEF CaptureInv, Underway, AroundTheMiddle, NotAfter, StableWasTrue, Fooled,
     OneWay, Listed
<1>6. LeftAndBack'
  BY <1>1, <1>2 DEF CaptureInv, LeftAndBack, HeldOrLeft, OnceOrLeft, OnceOrBack
<1>5. NothingLeftBehind'
  BY <1>1 DEF CaptureInv, NothingLeftBehind, StillSo
<1> QED
  BY <1>3, <1>4, <1>5, <1>6 DEF CaptureInv

(* What the theorems about a read rest on: a change of the provider, a page, a  *)
(* deadline, a new run and the death of the process all keep it.                *)
LEMMA CaptureInvAlways == CaptureSpec => []CaptureInv
<1>1. CaptureInit => CaptureInv
  <2> SUFFICES ASSUME CaptureInit PROVE CaptureInv
    OBVIOUS
  <2>1. 0 < N /\ ~None.kept /\ None.rows = {}
    BY CaptureAssumption DEF CaptureAssumption, None
  <2>2. CaptureTypes
    <3>1. table \in [Keys -> Contents]
      BY DEF CaptureInit, Contents, Absent, New, Gone
    <3> QED
      BY <2>1, <3>1 DEF CaptureInit, CaptureTypes
  <2>3. AroundTheMiddle
    <3>1. \A k \in Keys : table[k] \in Int
      BY <2>2 DEF CaptureTypes, Contents, Absent, Gone
    <3> QED
      BY <2>1, <3>1 DEF CaptureInit, AroundTheMiddle
  <2>4. LeftAndBack
    BY <2>1 DEF CaptureInit, LeftAndBack
  <2> QED
    BY <2>1, <2>2, <2>3, <2>4 DEF CaptureInit, CaptureInv, Underway, StableWasTrue,
       NothingLeftBehind, StillSo
<1>2. CaptureInv /\ [CaptureNext]_captureVars => CaptureInv'
  <2> SUFFICES ASSUME CaptureInv, [CaptureNext]_captureVars PROVE CaptureInv'
    OBVIOUS
  <2>1. ASSUME NEW k \in Keys, Change(k) PROVE CaptureInv'
    BY <2>1, ChangeKeeps
  <2>2. CASE BeginRead
    BY <2>2, BeginReadKeeps
  <2>3. CASE ReadPage
    BY <2>3, ReadPageKeeps
  <2>4. CASE UNCHANGED <<table, reader, reading, checkpoint, outcome, steady, calm, between,
                         left, back>>
    BY <2>4 DEF reading, outcome, CaptureInv, CaptureTypes, Held, Underway, AroundTheMiddle,
       NotAfter, NotBefore, LeftAndBack, HeldOrLeft, OnceOrLeft, OnceOrBack, StableWasTrue,
       Fooled, OneWay, NothingLeftBehind, StillSo, Reached, Listed
  <2>5. CASE GiveUp \/ Restart
    <3>1. /\ pass' = 0 /\ answer' # "complete" /\ at' = 0 /\ seen' = {} /\ first' = None
          /\ result' \in {result, {}} /\ checkpoint' \in {checkpoint, None}
          /\ UNCHANGED <<table, reader, persisted, steady, calm, between, left, back>>
      BY <2>5 DEF GiveUp, Restart, Incomplete, Stop
    <3> QED
      BY <3>1, Abandoned
  <2>6. CASE NextRun
    BY <2>6, NextRunKeeps
  <2>7. (PassDeadline \/ UNCHANGED captureVars) =>
           UNCHANGED <<table, reader, reading, checkpoint, outcome, steady, calm, between,
                       left, back>>
    BY DEF PassDeadline, captureVars
  <2> QED
    BY <2>1, <2>2, <2>3, <2>4, <2>5, <2>6, <2>7 DEF CaptureNext
<1> QED
  BY <1>1, <1>2, PTL DEF CaptureSpec

-----------------------------------------------------------------------------
(* A complete answer of a careful reader (account_snapshot.py,                  *)
(* cash_reconciliation.py, us_reconciliation.py, account.py) has every row that *)
(* the provider held all the while, and reports every order that stayed as it   *)
(* was as working, for any number of rows, pages, changes and restarts.         *)
THEOREM NothingMissedAlways == CaptureSpec => []NothingMissed
<1>1. CaptureInv => NothingMissed
  <2> SUFFICES ASSUME CaptureInv, answer = "complete", reader \in Careful
               PROVE  /\ steady \subseteq KeysOf(result)
                      /\ {k \in calm : table[k] = New} \subseteq KeysOf(Working(result))
    BY DEF NothingMissed
  <2>1. steady \subseteq KeysOf(result) /\ StillSo(result) /\ calm \subseteq steady
    BY DEF CaptureInv, NothingLeftBehind, CaptureTypes
  <2>2. ASSUME NEW k \in calm, table[k] = New PROVE k \in KeysOf(Working(result))
    <3>1. PICK r \in result : r.key = k
      BY <2>1 DEF KeysOf
    <3>2. r.content = New
      BY <2>1, <2>2, <3>1 DEF StillSo
    <3> QED
      BY <3>1, <3>2 DEF KeysOf, Working
  <2> QED
    BY <2>1, <2>2
<1> QED
  BY <1>1, CaptureInvAlways, PTL

(* When the two passes of a stable read agree, every row of them was the        *)
(* provider's at the moment between the two, a resumed checkpoint included, and *)
(* so is what us_reconciliation.py persisted: an order only goes on, so what is *)
(* the same before and after that moment was so at it; any other row that was   *)
(* not has both left it after the first pass read it and come back since.       *)
THEOREM StableWasTrueAlways == CaptureSpec => []StableWasTrue
<1>1. CaptureInv => StableWasTrue
  BY DEF CaptureInv
<1> QED
  BY <1>1, CaptureInvAlways, PTL

=============================================================================
