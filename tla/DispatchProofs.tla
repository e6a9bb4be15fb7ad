--------------------------- MODULE DispatchProofs ---------------------------
(***************************************************************************)
(* Dispatch holds for any number of runtimes and commands, and any bounds. *)
(***************************************************************************)
EXTENDS Dispatch, TLAPS

USE DEF NoTime, Nobody, None

(* A runtime's transaction has a command to work on. *)
LEMMA SessionCommand ==
    ASSUME TypeOK, NEW r \in Runtimes, sess[r].pc # "idle"
    PROVE  sess[r].cmd \in Commands /\ row[sess[r].cmd] \in Rows
BY DEF TypeOK

(* One runtime's transaction changes, and keeps its type. *)
LEMMA SessionType ==
    ASSUME TypeOK, NEW r \in Runtimes, NEW t \in Sessions,
           t.pc # "idle" => t.cmd \in Commands, sess' = [sess EXCEPT ![r] = t]
    PROVE  /\ sess' \in [Runtimes -> Sessions]
           /\ \A q \in Runtimes : sess'[q].pc # "idle" => sess'[q].cmd \in Commands
BY DEF TypeOK

(* Only the program counter of a transaction changes. *)
LEMMA MoveType ==
    ASSUME TypeOK, NEW r \in Runtimes, NEW pc \in Pcs, sess[r].pc # "idle", Move(r, pc)
    PROVE  /\ sess' \in [Runtimes -> Sessions]
           /\ \A q \in Runtimes : sess'[q].pc # "idle" => sess'[q].cmd \in Commands
<1>1. [sess[r] EXCEPT !.pc = pc] \in Sessions /\ [sess[r] EXCEPT !.pc = pc].cmd \in Commands
  BY DEF TypeOK, Sessions
<1>2. sess' = [sess EXCEPT ![r] = [sess[r] EXCEPT !.pc = pc]]
  BY DEF Move
<1> QED
  BY <1>1, <1>2, SessionType

(* What the record operators return is a transaction about to commit. *)
LEMMA RecordType ==
    ASSUME NEW t \in Sessions, NEW now \in Times, NEW state \in Results
    PROVE  /\ RecordAccepted(t) \in Sessions
           /\ RecordAccepted(t).cmd = t.cmd
           /\ RecordTerminal(t, state, now) \in Sessions
           /\ RecordTerminal(t, state, now).cmd = t.cmd
BY DEF RecordAccepted, RecordTerminal, Sessions, Pcs, Results

(* And so are the other ways a transaction moves on. *)
LEMMA UpdateType ==
    ASSUME NEW t \in Sessions, NEW now \in Times
    PROVE  /\ Claimed(t, now) \in Sessions /\ Claimed(t, now).cmd = t.cmd
           /\ \A outcome \in Outcomes :
                 Answered(t, outcome) \in Sessions /\ Answered(t, outcome).cmd = t.cmd
           /\ Recorded(t, now) \in Sessions /\ Recorded(t, now).cmd = t.cmd
           /\ Recovering(t, now) \in Sessions /\ Recovering(t, now).cmd = t.cmd
<1>1. Claimed(t, now) \in Sessions /\ Claimed(t, now).cmd = t.cmd
  BY DEF Claimed, Sessions, Pcs
<1>2. ASSUME NEW outcome \in Outcomes
      PROVE  Answered(t, outcome) \in Sessions /\ Answered(t, outcome).cmd = t.cmd
  BY DEF Answered, Sessions, Pcs
<1>3. Recorded(t, now) \in Sessions /\ Recorded(t, now).cmd = t.cmd
  BY RecordType DEF Recorded, Results
<1>4. /\ [t EXCEPT !.pc = "commit"] \in Sessions
      /\ [t EXCEPT !.pc = "commit"].cmd = t.cmd
  BY DEF Sessions, Pcs
<1>5. ASSUME NEW a \in Times \cup {NoTime}
      PROVE  /\ [t EXCEPT !.pc = "ask", !.attempted = a] \in Sessions
             /\ [t EXCEPT !.pc = "ask", !.attempted = a].cmd = t.cmd
  BY DEF Sessions, Pcs
<1>6. t.attempted \in Times \cup {NoTime}
  BY DEF Sessions
<1>7. Recovering(t, now) \in Sessions /\ Recovering(t, now).cmd = t.cmd
  BY <1>4, <1>5, <1>6, RecordType DEF Recovering, Results
<1> QED
  BY <1>1, <1>2, <1>3, <1>7

(* The variables keep their types. *)
THEOREM TypeCorrect == Spec => []TypeOK
<1>1. Init => TypeOK
  BY BoundsAssumption DEF Init, TypeOK, Times, Owners, NoRow, Rows, Results, Idle, Sessions, Pcs
<1>2. TypeOK /\ [Next]_vars => TypeOK'
  <2> SUFFICES ASSUME TypeOK, [Next]_vars PROVE TypeOK'
    OBVIOUS
  <2> USE BoundsAssumption
  <2>1. CASE Tick
    BY <2>1 DEF Tick, TypeOK, Times
  <2>2. ASSUME NEW isArmed \in BOOLEAN, NEW kill \in BOOLEAN, ChangeControl(isArmed, kill)
        PROVE  TypeOK'
    BY <2>2 DEF ChangeControl, TypeOK
  <2>3. ASSUME NEW e \in SUBSET Evidence, ChangeEvidence(e)
        PROVE  TypeOK'
    BY <2>3 DEF ChangeEvidence, TypeOK
  <2>4. ASSUME NEW r \in Runtimes, AcquireLease(r)
        PROVE  TypeOK'
    <3>1. Leased(r) \in [owner : Owners, token : Nat, expires : Nat]
      BY DEF TypeOK, Leased, Owners, Times
    <3> QED
      BY <2>4, <3>1 DEF AcquireLease, TypeOK
  <2>5. ASSUME NEW r \in Runtimes, TakeControl(r)
        PROVE  TypeOK'
    <3>1. Leased(r) \in [owner : Owners, token : Nat, expires : Nat]
      BY DEF TypeOK, Leased, Owners, Times
    <3>2. control' \in [owner : Runtimes, token : Nat, expires : Nat,
                        armed : BOOLEAN, kill : BOOLEAN]
      <4>1. CASE lease.token = 0
        BY <2>5, <4>1 DEF TakeControl, TypeOK
      <4>2. CASE lease.token # 0
        BY <2>5, <4>2 DEF TakeControl, TypeOK, Times
      <4> QED
        BY <4>1, <4>2
    <3> QED
      BY <2>5, <3>1, <3>2 DEF TakeControl, TypeOK
  <2>6. ASSUME NEW r \in Runtimes, NEW c \in Commands, CreateCommand(r, c)
        PROVE  TypeOK'
    <3>1. [owner |-> r, token |-> account[r], notAfter |-> moment[r] + Window,
           attempted |-> NoTime, result |-> None] \in Rows
      BY DEF TypeOK, Rows, Owners, Times, Results
    <3> QED
      BY <2>6, <3>1 DEF CreateCommand, TypeOK
  <2>7. ASSUME NEW r \in Runtimes, NEW c \in Commands, NEW pc \in {"gate", "recover"},
               Begin(r, c, pc)
        PROVE  TypeOK'
    <3>1. [pc |-> pc, cmd |-> c, attempted |-> row[c].attempted,
           result |-> row[c].result, linked |-> c \in link,
           start |-> lease.token, sent |-> FALSE, outcome |-> None] \in Sessions
      BY DEF TypeOK, Sessions, Pcs, Rows
    <3> QED
      BY <2>7, <3>1 DEF Begin, OnlySession, TypeOK
  <2>8. ASSUME NEW r \in Runtimes, GateDispatch(r)
        PROVE  TypeOK'
    BY <2>8, MoveType DEF GateDispatch, OnlySession, TypeOK, Pcs
  <2>9. ASSUME NEW r \in Runtimes, NEW fresh \in BOOLEAN, GateSubmit(r, fresh)
        PROVE  TypeOK'
    BY <2>9, MoveType DEF GateSubmit, OnlySession, TypeOK, Pcs
  <2>10. ASSUME NEW r \in Runtimes, Blocked(r)
         PROVE  TypeOK'
    BY <2>10, MoveType DEF Blocked, OnlySession, TypeOK, Pcs
  <2>11. ASSUME NEW r \in Runtimes, Claim(r)
         PROVE  TypeOK'
    <3>1. sess[r] \in Sessions /\ moment[r] \in Times /\ sess[r].cmd \in Commands
      BY <2>11, SessionCommand DEF TypeOK, Claim
    <3>2. sess' = [sess EXCEPT ![r] = Claimed(sess[r], moment[r])]
      BY <2>11 DEF Claim
    <3>3. Claimed(sess[r], moment[r]) \in Sessions /\ Claimed(sess[r], moment[r]).cmd \in Commands
      BY <3>1, UpdateType
    <3> QED
      BY <2>11, <3>1, <3>2, <3>3, SessionType DEF Claim, OnlySession, TypeOK
  <2>12. ASSUME NEW r \in Runtimes, NEW outcome \in Outcomes, NEW carried \in BOOLEAN,
                Send(r, outcome, carried)
         PROVE  TypeOK'
    <3>1. sess[r] \in Sessions /\ moment[r] \in Times /\ sess[r].cmd \in Commands
      BY <2>12, SessionCommand DEF TypeOK, Send
    <3>2. sess' = [sess EXCEPT ![r] = Answered(sess[r], outcome)]
      BY <2>12 DEF Send
    <3>3. held' \in SUBSET Commands /\ sends' \in [Commands -> Nat]
      BY <2>12, <3>1 DEF Send, TypeOK
    <3>4. Answered(sess[r], outcome) \in Sessions /\ Answered(sess[r], outcome).cmd \in Commands
      BY <3>1, UpdateType
    <3> QED
      BY <2>12, <3>1, <3>2, <3>3, <3>4, SessionType DEF Send, TypeOK
  <2>13. ASSUME NEW r \in Runtimes, Record(r)
         PROVE  TypeOK'
    <3>1. sess[r] \in Sessions /\ moment[r] \in Times /\ sess[r].cmd \in Commands
      BY <2>13, SessionCommand DEF TypeOK, Record
    <3>2. sess' = [sess EXCEPT ![r] = Recorded(sess[r], moment[r])]
      BY <2>13 DEF Record
    <3>3. Recorded(sess[r], moment[r]) \in Sessions /\ Recorded(sess[r], moment[r]).cmd \in Commands
      BY <3>1, UpdateType
    <3> QED
      BY <2>13, <3>1, <3>2, <3>3, SessionType DEF Record, OnlySession, TypeOK
  <2>14. ASSUME NEW r \in Runtimes, Recover(r)
         PROVE  TypeOK'
    <3>1. sess[r] \in Sessions /\ moment[r] \in Times /\ sess[r].cmd \in Commands
      BY <2>14, SessionCommand DEF TypeOK, Recover
    <3>2. sess' = [sess EXCEPT ![r] = Recovering(sess[r], moment[r])]
      BY <2>14 DEF Recover
    <3>3. Recovering(sess[r], moment[r]) \in Sessions /\ Recovering(sess[r], moment[r]).cmd \in Commands
      BY <3>1, UpdateType
    <3> QED
      BY <2>14, <3>1, <3>2, <3>3, SessionType DEF Recover, OnlySession, TypeOK
  <2>15. ASSUME NEW r \in Runtimes, NEW found \in BOOLEAN, Ask(r, found)
         PROVE  TypeOK'
    <3>1. sess[r] \in Sessions /\ moment[r] \in Times /\ sess[r].cmd \in Commands
      BY <2>15, SessionCommand DEF TypeOK, Ask
    <3>2. PICK t \in Sessions : sess' = [sess EXCEPT ![r] = t] /\ t.cmd = sess[r].cmd
      BY <2>15, <3>1, RecordType DEF Ask, Results
    <3> QED
      BY <2>15, <3>1, <3>2, SessionType DEF Ask, OnlySession, TypeOK
  <2>16. Idle \in Sessions /\ Idle.pc = "idle"
    BY DEF Idle, Sessions, Pcs, Results
  <2>17. ASSUME NEW r \in Runtimes, Commit(r)
         PROVE  TypeOK'
    <3>1. sess[r] \in Sessions /\ sess[r].cmd \in Commands /\ row[sess[r].cmd] \in Rows
      BY <2>17, SessionCommand DEF TypeOK, Commit
    <3>2. [row[sess[r].cmd] EXCEPT !.attempted = sess[r].attempted,
                                   !.result = sess[r].result] \in Rows
      BY <3>1 DEF Rows, Sessions
    <3>3. row' = [row EXCEPT ![sess[r].cmd] = [row[sess[r].cmd] EXCEPT
                     !.attempted = sess[r].attempted, !.result = sess[r].result]]
      BY <2>17, <3>1 DEF Commit, TypeOK
    <3> QED
      BY <2>16, <2>17, <3>1, <3>2, <3>3, SessionType DEF Commit, TypeOK
  <2>18. ASSUME NEW r \in Runtimes, Rollback(r)
         PROVE  TypeOK'
    <3>1. lost' \in [Commands -> Nat]
      BY <2>18, SessionCommand DEF Rollback, TypeOK
    <3> QED
      BY <2>16, <2>18, <3>1, SessionType DEF Rollback, TypeOK
  <2>19. CASE UNCHANGED vars
    BY <2>19 DEF vars, TypeOK
  <2> QED
    BY <2>1, <2>2, <2>3, <2>4, <2>5, <2>6, <2>7, <2>8, <2>9, <2>10, <2>11, <2>12, <2>13,
       <2>14, <2>15, <2>17, <2>18, <2>19 DEF Next, Environment, Runtime
<1> QED
  BY <1>1, <1>2, PTL DEF Spec
-----------------------------------------------------------------------------
(* Fencing. *)

(* The program counters at which a dispatch has passed the lease check. *)
Passed == {"submitGate", "claim", "send"}

(* Nothing a transaction does to itself changes its start, and only a claim  *)
(* that succeeds leaves it among the passed ones.                             *)
LEMMA StartKept ==
    ASSUME NEW t \in Sessions, NEW now \in Times, NEW state \in Results
    PROVE  /\ Claimed(t, now).start = t.start
           /\ \A outcome \in Outcomes :
                 Answered(t, outcome).start = t.start /\ Answered(t, outcome).pc \notin Passed
           /\ RecordAccepted(t).start = t.start /\ RecordAccepted(t).pc \notin Passed
           /\ RecordTerminal(t, state, now).start = t.start
           /\ RecordTerminal(t, state, now).pc \notin Passed
<1> USE DEF Sessions, Passed
<1>1. Claimed(t, now).start = t.start
  BY DEF Claimed
<1>2. ASSUME NEW outcome \in Outcomes
      PROVE  Answered(t, outcome).start = t.start /\ Answered(t, outcome).pc \notin Passed
  BY DEF Answered
<1>3. RecordAccepted(t).start = t.start /\ RecordAccepted(t).pc \notin Passed
  BY DEF RecordAccepted
<1>4. /\ RecordTerminal(t, state, now).start = t.start
      /\ RecordTerminal(t, state, now).pc \notin Passed
  BY DEF RecordTerminal
<1> QED
  BY <1>1, <1>2, <1>3, <1>4

(* The same of the operators made of those. *)
LEMMA StartKeptToo ==
    ASSUME NEW t \in Sessions, NEW now \in Times
    PROVE  /\ Recorded(t, now).start = t.start /\ Recorded(t, now).pc \notin Passed
           /\ Recovering(t, now).start = t.start /\ Recovering(t, now).pc \notin Passed
<1>1. Recorded(t, now).start = t.start /\ Recorded(t, now).pc \notin Passed
  BY StartKept DEF Recorded, Results
<1>2. /\ [t EXCEPT !.pc = "commit"].start = t.start
      /\ [t EXCEPT !.pc = "commit"].pc \notin Passed
  BY DEF Sessions, Passed
<1>3. ASSUME NEW a
      PROVE  /\ [t EXCEPT !.pc = "ask", !.attempted = a].start = t.start
             /\ [t EXCEPT !.pc = "ask", !.attempted = a].pc \notin Passed
  BY DEF Sessions, Passed
<1>4. Recovering(t, now).start = t.start /\ Recovering(t, now).pc \notin Passed
  BY <1>2, <1>3, StartKept DEF Recovering, Results
<1> QED
  BY <1>1, <1>4

(* A step that changes one transaction, with the tokens as they were, keeps   *)
(* the fencing invariant if that transaction still satisfies it.              *)
LEMMA OneTransaction ==
    ASSUME TypeOK, TokenInv, NEW r \in Runtimes, NEW t \in Sessions,
           sess' = [sess EXCEPT ![r] = t],
           lease' = lease, account' = account, row' = row,
           t.start <= lease.token,
           t.pc \in Passed => t.start <= row[t.cmd].token
    PROVE  TokenInv'
BY DEF TypeOK, TokenInv, FencedForGood, Passed

(* A dispatch whose command was overtaken before it began never claims it,    *)
(* with any number of runtimes taking the lease meanwhile: every acquisition  *)
(* hands out a new token, so a gate that finds the command's own token on the *)
(* lease knows that nobody has taken it since the transaction began.          *)
THEOREM FencedForGoodAlways == Spec => []FencedForGood
<1>1. Init => TokenInv
  BY DEF Init, TokenInv, FencedForGood, Idle, NoRow
<1>2. TypeOK /\ TokenInv /\ [Next]_vars => TokenInv'
  <2> SUFFICES ASSUME TypeOK, TokenInv, [Next]_vars PROVE TokenInv'
    OBVIOUS
  <2>1. ASSUME NEW r \in Runtimes, AcquireLease(r) \/ TakeControl(r)
        PROVE  TokenInv'
    <3>1. /\ lease'.token = lease.token + 1
          /\ row' = row /\ sess' = sess
          /\ account' = account \/ account' = [account EXCEPT ![r] = lease'.token]
      BY <2>1 DEF AcquireLease, TakeControl, Leased, TypeOK
    <3>2. /\ lease.token \in Nat /\ account \in [Runtimes -> Nat]
          /\ \A c \in Commands : row[c].token \in Nat
          /\ \A q \in Runtimes : sess[q].start \in Nat
      BY DEF TypeOK, Rows, Sessions
    <3> QED
      BY <3>1, <3>2 DEF TokenInv, FencedForGood
  <2>2. ASSUME NEW r \in Runtimes, NEW c \in Commands, CreateCommand(r, c)
        PROVE  TokenInv'
    <3>1. /\ row[c].token = 0 /\ row'[c].token = account[r]
          /\ \A d \in Commands : d # c => row'[d] = row[d]
          /\ sess' = sess /\ lease' = lease /\ account' = account
      BY <2>2 DEF CreateCommand, NoRow, TypeOK
    <3>2. /\ lease.token \in Nat /\ account \in [Runtimes -> Nat]
          /\ \A q \in Runtimes : sess[q].start \in Nat
          /\ \A q \in Runtimes : sess[q].pc # "idle" => sess[q].cmd \in Commands
      BY DEF TypeOK, Sessions
    <3> QED
      BY <3>1, <3>2 DEF TokenInv, FencedForGood
  <2>3. ASSUME NEW r \in Runtimes, NEW c \in Commands, NEW pc \in {"gate", "recover"},
               Begin(r, c, pc)
        PROVE  TokenInv'
    <3> DEFINE t == [pc |-> pc, cmd |-> c, attempted |-> row[c].attempted,
                     result |-> row[c].result, linked |-> c \in link,
                     start |-> lease.token, sent |-> FALSE, outcome |-> None]
    <3>1. t \in Sessions /\ t.start = lease.token /\ t.pc \notin Passed
      BY DEF TypeOK, Sessions, Pcs, Rows, Passed
    <3>2. sess' = [sess EXCEPT ![r] = t] /\ lease' = lease /\ account' = account /\ row' = row
      BY <2>3 DEF Begin, OnlySession
    <3> HIDE DEF t
    <3>3. t.start <= lease.token
      BY <3>1 DEF TypeOK
    <3> QED
      BY <3>1, <3>2, <3>3, OneTransaction
  <2>4. ASSUME NEW r \in Runtimes, NEW pc \in Pcs, sess[r].pc # "idle", Move(r, pc), OnlySession,
               pc \in Passed => sess[r].pc \in Passed \/ HoldsLease(sess[r].cmd, moment[r])
        PROVE  TokenInv'
    <3> DEFINE t == [sess[r] EXCEPT !.pc = pc]
    <3>1. t \in Sessions /\ t.start = sess[r].start /\ t.pc = pc /\ t.cmd = sess[r].cmd
      <4>1. sess[r] \in Sessions
        BY DEF TypeOK
      <4> QED
        BY <4>1 DEF Sessions
    <3>2. sess' = [sess EXCEPT ![r] = t] /\ lease' = lease /\ account' = account /\ row' = row
      BY <2>4 DEF Move, OnlySession
    <3>3. t.start <= lease.token
      BY <3>1 DEF TokenInv
    <3>4. pc \in Passed => t.start <= row[t.cmd].token
      BY <2>4, <3>1, <3>3 DEF HoldsLease, TokenInv, FencedForGood, Passed
    <3> HIDE DEF t
    <3> QED
      BY <3>1, <3>2, <3>3, <3>4, OneTransaction
  <2>5. ASSUME NEW r \in Runtimes, GateDispatch(r) PROVE TokenInv'
    <3>1. PICK pc \in {"submitGate", "blocked"} :
             Move(r, pc) /\ (pc = "submitGate" => MayDispatch(sess[r].cmd, moment[r]))
      BY <2>5 DEF GateDispatch
    <3> QED
      BY <2>4, <2>5, <3>1 DEF GateDispatch, MayDispatch, Pcs, Passed
  <2>6. ASSUME NEW r \in Runtimes, NEW fresh \in BOOLEAN, GateSubmit(r, fresh) PROVE TokenInv'
    <3>1. PICK pc \in {"claim", "blocked"} : Move(r, pc)
      BY <2>6 DEF GateSubmit
    <3> QED
      BY <2>4, <2>6, <3>1 DEF GateSubmit, Pcs, Passed
  <2>7. ASSUME NEW r \in Runtimes, Blocked(r) PROVE TokenInv'
    <3>1. PICK pc \in {"recover", "commit"} : Move(r, pc)
      BY <2>7 DEF Blocked
    <3> QED
      BY <2>4, <2>7, <3>1 DEF Blocked, Pcs, Passed
  <2>8. ASSUME NEW r \in Runtimes, NEW t \in Sessions, sess[r].pc # "idle",
               sess' = [sess EXCEPT ![r] = t], lease' = lease, account' = account, row' = row,
               t.start = sess[r].start, t.cmd = sess[r].cmd,
               t.pc \in Passed => sess[r].pc \in Passed
        PROVE  TokenInv'
    BY <2>8, OneTransaction DEF TokenInv, FencedForGood, Passed
  <2>9. ASSUME NEW r \in Runtimes, sess[r].pc # "idle"
        PROVE  sess[r] \in Sessions /\ moment[r] \in Times
    BY DEF TypeOK
  <2>10. ASSUME NEW r \in Runtimes, Claim(r) PROVE TokenInv'
    <3>1. Claimed(sess[r], moment[r]) \in Sessions
          /\ Claimed(sess[r], moment[r]).cmd = sess[r].cmd
          /\ Claimed(sess[r], moment[r]).start = sess[r].start
      BY <2>9, <2>10, UpdateType, StartKept DEF Claim, Results
    <3> QED
      BY <2>8, <2>10, <3>1 DEF Claim, OnlySession, Passed
  <2>11. ASSUME NEW r \in Runtimes, NEW outcome \in Outcomes, NEW carried \in BOOLEAN,
                Send(r, outcome, carried)
         PROVE  TokenInv'
    <3>1. Answered(sess[r], outcome) \in Sessions
          /\ Answered(sess[r], outcome).cmd = sess[r].cmd
          /\ Answered(sess[r], outcome).start = sess[r].start
          /\ Answered(sess[r], outcome).pc \notin Passed
      BY <2>9, <2>11, UpdateType, StartKept DEF Send, Results
    <3> QED
      BY <2>8, <2>11, <3>1 DEF Send
  <2>12. ASSUME NEW r \in Runtimes, Record(r) PROVE TokenInv'
    <3>1. Recorded(sess[r], moment[r]) \in Sessions
          /\ Recorded(sess[r], moment[r]).cmd = sess[r].cmd
          /\ Recorded(sess[r], moment[r]).start = sess[r].start
          /\ Recorded(sess[r], moment[r]).pc \notin Passed
      BY <2>9, <2>12, UpdateType, StartKeptToo DEF Record
    <3> QED
      BY <2>8, <2>12, <3>1 DEF Record, OnlySession
  <2>13. ASSUME NEW r \in Runtimes, Recover(r) PROVE TokenInv'
    <3>1. Recovering(sess[r], moment[r]) \in Sessions
          /\ Recovering(sess[r], moment[r]).cmd = sess[r].cmd
          /\ Recovering(sess[r], moment[r]).start = sess[r].start
          /\ Recovering(sess[r], moment[r]).pc \notin Passed
      BY <2>9, <2>13, UpdateType, StartKeptToo DEF Recover
    <3> QED
      BY <2>8, <2>13, <3>1 DEF Recover, OnlySession
  <2>14. ASSUME NEW r \in Runtimes, NEW found \in BOOLEAN, Ask(r, found) PROVE TokenInv'
    <3>1. PICK t \in Sessions : /\ sess' = [sess EXCEPT ![r] = t] /\ t.cmd = sess[r].cmd
                                /\ t.start = sess[r].start /\ t.pc \notin Passed
      <4>1. sess[r] \in Sessions /\ moment[r] \in Times /\ "UNKNOWN" \in Results
        BY <2>9, <2>14 DEF Ask, Results
      <4>2. CASE found
        BY <2>14, <4>1, <4>2, RecordType, StartKept DEF Ask
      <4>3. CASE ~found
        BY <2>14, <4>1, <4>3, RecordType, StartKept DEF Ask
      <4> QED
        BY <4>2, <4>3
    <3> QED
      BY <2>8, <2>14, <3>1 DEF Ask, OnlySession
  <2>15. Idle \in Sessions /\ Idle.pc \notin Passed /\ Idle.start = 0
    BY DEF Idle, Sessions, Pcs, Results, Passed
  <2>16. ASSUME NEW r \in Runtimes, Commit(r) PROVE TokenInv'
    <3>1. \A c \in Commands : row'[c].token = row[c].token
      BY <2>16, SessionCommand DEF Commit, TypeOK, Rows
    <3>2. lease.token \in Nat /\ sess' = [sess EXCEPT ![r] = Idle]
          /\ lease' = lease /\ account' = account
      BY <2>16 DEF Commit, TypeOK
    <3> QED
      BY <2>15, <3>1, <3>2 DEF TypeOK, TokenInv, FencedForGood, Passed
  <2>17. ASSUME NEW r \in Runtimes, Rollback(r) PROVE TokenInv'
    <3>1. Idle.start <= lease.token
      BY <2>15 DEF TypeOK
    <3> QED
      BY <2>15, <2>17, <3>1, OneTransaction DEF Rollback
  <2>18. CASE Environment \/ UNCHANGED vars
    BY <2>18 DEF Environment, Tick, ChangeControl, ChangeEvidence, vars, TokenInv, FencedForGood
  <2> QED
    BY <2>1, <2>2, <2>3, <2>5, <2>6, <2>7, <2>10, <2>11, <2>12, <2>13, <2>14, <2>16, <2>17,
       <2>18 DEF Next, Runtime
<1>3. TokenInv => FencedForGood
  BY DEF TokenInv
<1> QED
  BY <1>1, <1>2, <1>3, TypeCorrect, PTL DEF Spec

-----------------------------------------------------------------------------
(* Outcomes. *)

(* Two open transactions work on different commands: a command has one owner. *)
LEMMA OwnCommand ==
    ASSUME OutcomeInv, NEW r \in Runtimes, NEW q \in Runtimes, q # r,
           sess[r].pc # "idle", sess[q].pc # "idle"
    PROVE  sess[q].cmd # sess[r].cmd
BY DEF OutcomeInv

(* So a transaction that has not called the broker has a command that no open *)
(* transaction has called the broker for.                                     *)
LEMMA NotSent ==
    ASSUME OutcomeInv, NEW r \in Runtimes, sess[r].pc # "idle", ~sess[r].sent
    PROVE  sess[r].cmd \notin Sent
BY OwnCommand DEF Sent

(* A transaction that has written nothing may commit. *)
LEMMA AsIs ==
    ASSUME NEW t \in Sessions, t.cmd \in Commands, Untouched(t), CommandInv(t.cmd),
           t.cmd \notin Sent
    PROVE  Coherent([t EXCEPT !.pc = "commit"])
<1>1. /\ [t EXCEPT !.pc = "commit"] \in Sessions
      /\ [t EXCEPT !.pc = "commit"].pc = "commit"
      /\ [t EXCEPT !.pc = "commit"].cmd = t.cmd
      /\ [t EXCEPT !.pc = "commit"].attempted = t.attempted
      /\ [t EXCEPT !.pc = "commit"].result = t.result
      /\ [t EXCEPT !.pc = "commit"].linked = t.linked
      /\ [t EXCEPT !.pc = "commit"].sent = t.sent
  BY DEF Sessions, Pcs
<1>2. Ready(t)
  BY DEF Untouched, CommandInv, Ready
<1> QED
  BY <1>1, <1>2 DEF Coherent, Ready

(* record_accepted leaves a transaction that may commit. *)
LEMMA AcceptedReady ==
    ASSUME NEW t \in Sessions, t.cmd \in Commands, t.cmd \in held, CommandInv(t.cmd),
           \/ InFlight(t)
           \/ Asking(t)
    PROVE  Coherent(RecordAccepted(t))
<1> DEFINE u == RecordAccepted(t)
<1>1. /\ u.pc = "commit" /\ u.cmd = t.cmd /\ u.attempted = t.attempted /\ u.sent = t.sent
      /\ u.result = "ACCEPTED"
      /\ u.linked = IF t.result = "ACCEPTED" THEN t.linked ELSE TRUE
  BY DEF RecordAccepted, Sessions
<1>2. t.linked \in BOOLEAN
  BY DEF Sessions
<1> HIDE DEF u
<1>3. Ready(u)
  BY <1>1, <1>2 DEF Ready, InFlight, Asking, CommandInv
<1> QED
  BY <1>1, <1>3 DEF Coherent, u

(* _record_terminal too, if what it records agrees with what the broker did. *)
LEMMA TerminalReady ==
    ASSUME NEW t \in Sessions, NEW now \in Times, NEW state \in {"REJECTED", "UNKNOWN"},
           t.cmd \in Commands, CommandInv(t.cmd), t.cmd \notin Sent \/ t.result = None,
           InFlight(t) \/ Asking(t) \/ Untouched(t),
           state = "REJECTED" /\ t.cmd \in held => lost[t.cmd] # 0 /\ t.result = None
    PROVE  Coherent(RecordTerminal(t, state, now))
<1> DEFINE u == RecordTerminal(t, state, now)
<1>1. /\ u.pc = "commit" /\ u.cmd = t.cmd /\ u.sent = t.sent /\ u.linked = t.linked
      /\ u.result = IF t.result = "ACCEPTED" THEN "ACCEPTED" ELSE state
      /\ u.attempted = IF t.result \in {"ACCEPTED", state} \/ t.attempted # NoTime
                       THEN t.attempted ELSE now
  BY DEF RecordTerminal, Sessions
<1>2. t.linked \in BOOLEAN /\ now # NoTime /\ (t.cmd \in link) \in BOOLEAN
  BY BoundsAssumption DEF Sessions, Times
<1> HIDE DEF u
<1>3. Ready(u)
  <2>1. CASE InFlight(t)
    BY <1>1, <1>2, <2>1 DEF Ready, InFlight
  <2>2. CASE Asking(t)
    BY <1>1, <1>2, <2>2 DEF Ready, Asking, CommandInv
  <2>3. CASE Untouched(t)
    BY <1>1, <1>2, <2>3 DEF Ready, Untouched, CommandInv
  <2> QED
    BY <2>1, <2>2, <2>3
<1> QED
  BY <1>1, <1>3 DEF Coherent, u

(* A claim that succeeds finds the command never tried. *)
LEMMA ClaimedCoherent ==
    ASSUME NEW t \in Sessions, NEW now \in Times, t.cmd \in Commands, Untouched(t),
           CommandInv(t.cmd)
    PROVE  /\ Coherent(Claimed(t, now))
           /\ Claimed(t, now).pc # "idle" /\ Claimed(t, now).sent = t.sent
<1> DEFINE u == Claimed(t, now)
<1>1. /\ u.cmd = t.cmd /\ u.result = t.result /\ u.linked = t.linked /\ u.sent = t.sent
      /\ \/ Claimable(t.cmd, now) /\ u.pc = "send" /\ u.attempted = now
         \/ u.pc = "blocked" /\ u.attempted = t.attempted
  BY DEF Claimed, Sessions
<1>2. now # NoTime
  BY BoundsAssumption DEF Times
<1> HIDE DEF u
<1>3. Coherent(u) /\ u.pc # "idle" /\ u.sent = t.sent
  BY <1>1, <1>2 DEF Coherent, Untouched, InFlight, Claimable, CommandInv
<1> QED
  BY <1>3 DEF u

(* What dispatch records agrees with the broker's answer. *)
LEMMA RecordedCoherent ==
    ASSUME NEW t \in Sessions, NEW now \in Times, t.cmd \in Commands, Answer(t),
           CommandInv(t.cmd)
    PROVE  /\ Coherent(Recorded(t, now))
           /\ Recorded(t, now).pc # "idle" /\ Recorded(t, now).sent = t.sent
<1>1. InFlight(t) /\ t.result = None
  BY DEF Answer, InFlight
<1>2. ASSUME NEW state \in {"REJECTED", "UNKNOWN"}
      PROVE  /\ RecordTerminal(t, state, now).pc # "idle"
             /\ RecordTerminal(t, state, now).sent = t.sent
             /\ RecordAccepted(t).pc # "idle" /\ RecordAccepted(t).sent = t.sent
  BY DEF RecordTerminal, RecordAccepted, Sessions
<1>3. CASE t.outcome = "accepted"
  BY <1>1, <1>2, <1>3, AcceptedReady DEF Recorded, Answer
<1>4. CASE t.outcome = "rejected"
  BY <1>1, <1>2, <1>4, TerminalReady DEF Recorded, Answer
<1>5. CASE t.outcome \notin {"accepted", "rejected"}
  BY <1>1, <1>2, <1>5, TerminalReady DEF Recorded
<1> QED
  BY <1>3, <1>4, <1>5

(* Recovery does not forget, and asks only about a command that was sent. *)
LEMMA RecoveringCoherent ==
    ASSUME NEW t \in Sessions, NEW now \in Times, t.cmd \in Commands, Untouched(t),
           CommandInv(t.cmd), t.cmd \notin Sent
    PROVE  /\ Coherent(Recovering(t, now))
           /\ Recovering(t, now).pc # "idle" /\ Recovering(t, now).sent = t.sent
<1>1. /\ RecordTerminal(t, "UNKNOWN", now).pc # "idle"
      /\ RecordTerminal(t, "UNKNOWN", now).sent = t.sent
      /\ [t EXCEPT !.pc = "commit"].pc # "idle"
      /\ [t EXCEPT !.pc = "commit"].sent = t.sent
  BY DEF RecordTerminal, Sessions
<1>2. CASE t.cmd \notin Submits
  BY <1>1, <1>2, TerminalReady DEF Recovering
<1>3. CASE t.cmd \in Submits /\ (t.attempted = NoTime \/ t.attempted > now
                                 \/ now >= row[t.cmd].notAfter)
  BY <1>1, <1>3, AsIs DEF Recovering
<1>4. CASE ~(t.cmd \notin Submits)
           /\ ~(t.cmd \in Submits /\ (t.attempted = NoTime \/ t.attempted > now
                                      \/ now >= row[t.cmd].notAfter))
  <2> DEFINE a == IF t.result = "ACCEPTED" THEN t.attempted ELSE now
             u == [t EXCEPT !.pc = "ask", !.attempted = a]
  <2>1. Recovering(t, now) = u
    BY <1>4 DEF Recovering
  <2>2. /\ u.pc = "ask" /\ u.cmd = t.cmd /\ u.result = t.result /\ u.linked = t.linked
        /\ u.sent = t.sent /\ u.attempted = a
    BY DEF Sessions
  <2>3. t.attempted # NoTime /\ now # NoTime
    BY <1>4, BoundsAssumption DEF Times
  <2> HIDE DEF u
  <2>4. Asking(u)
    BY <2>2, <2>3 DEF Asking, Untouched, CommandInv
  <2> QED
    BY <2>1, <2>2, <2>4 DEF Coherent
<1> QED
  BY <1>2, <1>3, <1>4

(* A step that changes one transaction, before or after its broker call but   *)
(* not across it, keeps the invariant if that transaction is coherent.        *)
LEMMA OneCoherent ==
    ASSUME TypeOK, OutcomeInv, NEW r \in Runtimes, NEW t \in Sessions,
           sess' = [sess EXCEPT ![r] = t],
           UNCHANGED <<row, link, held, lost, sends>>,
           t.pc # "idle", row[t.cmd].owner = r, Coherent(t),
           t.sent <=> sess[r].pc # "idle" /\ sess[r].sent,
           sess[r].pc # "idle" => t.cmd = sess[r].cmd
    PROVE  OutcomeInv'
<1>1. Coherent(t)'
  BY DEF Coherent, Untouched, InFlight, Answer, Asking, Ready
<1>2. ASSUME NEW q \in Runtimes, q # r, sess[q].pc # "idle"
      PROVE  Coherent(sess[q])' /\ row'[sess'[q].cmd].owner = q
  <2>1. sess'[q] = sess[q]
    BY <1>2 DEF TypeOK
  <2> QED
    BY <1>2, <2>1 DEF OutcomeInv, Coherent, Untouched, InFlight, Answer, Asking, Ready
<1>3. sess' \in [Runtimes -> Sessions] /\ sess'[r] = t
      /\ \A q \in Runtimes : q # r => sess'[q] = sess[q]
  BY DEF TypeOK
<1>4. Sent' = Sent
  BY <1>3 DEF Sent
<1>5. \A c \in Commands : CommandInv(c)'
  BY <1>4 DEF OutcomeInv, CommandInv
<1> QED
  BY <1>1, <1>2, <1>3, <1>5 DEF OutcomeInv

(* What an open transaction starts a step from. *)
LEMMA OpenFacts ==
    ASSUME TypeOK, OutcomeInv, NEW r \in Runtimes, sess[r].pc # "idle"
    PROVE  /\ sess[r] \in Sessions /\ moment[r] \in Times
           /\ sess[r].cmd \in Commands /\ row[sess[r].cmd].owner = r
           /\ Coherent(sess[r]) /\ CommandInv(sess[r].cmd)
BY DEF TypeOK, OutcomeInv

(* The transaction of one runtime steps on with t, on the same command and     *)
(* without calling the broker.                                                 *)
LEMMA StepOn ==
    ASSUME TypeOK, OutcomeInv, NEW r \in Runtimes, sess[r].pc # "idle", NEW t \in Sessions,
           sess' = [sess EXCEPT ![r] = t], OnlySession,
           t.pc # "idle", t.cmd = sess[r].cmd, t.sent = sess[r].sent, Coherent(t)
    PROVE  OutcomeInv'
<1>1. row[t.cmd].owner = r
  BY OpenFacts
<1>2. UNCHANGED <<row, link, held, lost, sends>>
  BY DEF OnlySession
<1>3. t.sent <=> sess[r].pc # "idle" /\ sess[r].sent
  BY DEF Sessions
<1> QED
  BY <1>1, <1>2, <1>3, OneCoherent

(* A transaction that has written nothing moves on, or goes on to commit. *)
LEMMA StepPlain ==
    ASSUME TypeOK, OutcomeInv, NEW r \in Runtimes, Untouched(sess[r]), sess[r].pc # "idle",
           NEW pc \in {"submitGate", "claim", "blocked", "recover", "commit"},
           Move(r, pc), OnlySession
    PROVE  OutcomeInv'
<1> DEFINE t == [sess[r] EXCEPT !.pc = pc]
<1>1. sess[r] \in Sessions /\ sess[r].cmd \in Commands /\ CommandInv(sess[r].cmd)
  BY OpenFacts
<1>2. /\ t \in Sessions /\ t.pc = pc /\ t.cmd = sess[r].cmd /\ t.attempted = sess[r].attempted
      /\ t.result = sess[r].result /\ t.linked = sess[r].linked /\ t.sent = sess[r].sent
  BY <1>1 DEF Sessions, Pcs
<1>3. Coherent(t)
  <2>1. CASE pc = "commit"
    <3>1. ~sess[r].sent
      BY DEF Untouched
    <3>2. sess[r].cmd \notin Sent
      BY <3>1, NotSent
    <3> QED
      BY <1>1, <2>1, <3>2, AsIs
  <2>2. CASE pc # "commit"
    <3> HIDE DEF t
    <3> QED
      BY <1>2, <2>2 DEF Coherent, Untouched
  <2> QED
    BY <2>1, <2>2
<1>4. sess' = [sess EXCEPT ![r] = t]
  BY DEF Move
<1> HIDE DEF t
<1> QED
  BY <1>2, <1>3, <1>4, StepOn

(* The broker call. *)
LEMMA SendStep ==
    ASSUME TypeOK, OutcomeInv, NEW r \in Runtimes, NEW outcome \in Outcomes,
           NEW carried \in BOOLEAN, Send(r, outcome, carried)
    PROVE  OutcomeInv'
<1>0. PICK c \in Commands : c = sess[r].cmd
  BY SessionCommand DEF Send
<1> PICK t : t = Answered(sess[r], outcome)
  OBVIOUS
<1>1. /\ sess[r].pc = "send" /\ sess' = [sess EXCEPT ![r] = t]
      /\ UNCHANGED <<row, link, lost>>
      /\ held' = IF carried THEN held \cup {c} ELSE held
      /\ sends' = [sends EXCEPT ![c] = @ + 1]
      /\ outcome = "accepted" => carried
      /\ outcome = "rejected" => ~carried
  BY <1>0 DEF Send
<1>2. /\ sess[r] \in Sessions /\ c \in Commands /\ row[c].owner = r /\ CommandInv(c)
      /\ InFlight(sess[r]) /\ ~sess[r].sent
  BY <1>0, <1>1, OpenFacts DEF Coherent
<1>3. c \notin Sent
  BY <1>0, <1>1, <1>2, NotSent
<1>4. /\ t \in Sessions /\ t.pc = "record" /\ t.cmd = c /\ t.attempted = sess[r].attempted
      /\ t.result = sess[r].result /\ t.linked = sess[r].linked /\ t.sent = TRUE
      /\ t.outcome = outcome
  BY <1>0, <1>2 DEF Answered, Sessions, Pcs
<1>5. sends[c] \in Nat /\ lost[c] \in Nat /\ sends[c] <= lost[c] /\ row[c].result = None
  BY <1>0, <1>2, <1>3 DEF TypeOK, CommandInv, InFlight
<1>6. sess'[r] = t /\ \A q \in Runtimes : q # r => sess'[q] = sess[q]
  BY <1>1, <1>4 DEF TypeOK
<1>7. Coherent(t)'
  <2>1. InFlight(t)'
    BY <1>0, <1>1, <1>2, <1>4 DEF InFlight
  <2>2. outcome = "accepted" => c \in held'
    BY <1>1
  <2>3. outcome = "rejected" /\ lost[c] = 0 => c \notin held'
    BY <1>1, <1>2, <1>3, <1>5 DEF CommandInv
  <2> QED
    BY <1>1, <1>4, <2>1, <2>2, <2>3 DEF Coherent, Answer
<1>8. ASSUME NEW q \in Runtimes, q # r, sess[q].pc # "idle"
      PROVE  Coherent(sess[q])' /\ row'[sess'[q].cmd].owner = q
  <2>1. sess[q].cmd # c /\ sess'[q] = sess[q]
    BY <1>1, <1>6, <1>8, <1>0, OwnCommand
  <2>2. Coherent(sess[q]) /\ row[sess[q].cmd].owner = q
    BY <1>8 DEF OutcomeInv
  <2>3. sess[q].cmd \in held' <=> sess[q].cmd \in held
    BY <1>1, <2>1
  <2> QED
    BY <1>1, <2>1, <2>2, <2>3 DEF Coherent, Untouched, InFlight, Answer, Asking, Ready
<1>9. ASSUME NEW d \in Commands, d # c
      PROVE  CommandInv(d)'
  <2>1. d \in Sent' <=> d \in Sent
    BY <1>0, <1>1, <1>4, <1>6, <1>9 DEF Sent
  <2>2. sends'[d] = sends[d] /\ (d \in held' <=> d \in held)
    BY <1>1, <1>9 DEF TypeOK
  <2> QED
    BY <1>1, <2>1, <2>2 DEF OutcomeInv, CommandInv
<1>10. CommandInv(c)'
  <2>1. c \in Sent'
    BY <1>4, <1>6 DEF Sent
  <2>2. sends'[c] = sends[c] + 1
    BY <1>1, <1>2 DEF TypeOK
  <2>3. c \in link => c \in held'
    BY <1>1, <1>2 DEF CommandInv
  <2>4. sends'[c] <= lost'[c] + 1
    BY <1>1, <1>5, <2>2
  <2> QED
    BY <1>1, <1>2, <2>1, <2>3, <2>4 DEF CommandInv
<1> QED
  BY <1>1, <1>2, <1>4, <1>6, <1>7, <1>8, <1>9, <1>10 DEF OutcomeInv

(* A transaction ends and what changes is its own command's. *)
LEMMA EndStep ==
    ASSUME TypeOK, OutcomeInv, NEW r \in Runtimes, NEW c \in Commands,
           sess[r].pc # "idle", c = sess[r].cmd,
           sess' = [sess EXCEPT ![r] = Idle], held' = held, sends' = sends,
           \A d \in Commands : row'[d].owner = row[d].owner,
           \A d \in Commands : d # c =>
              row'[d] = row[d] /\ (d \in link' <=> d \in link) /\ lost'[d] = lost[d],
           c \notin Sent' => CommandInv(c)'
    PROVE  OutcomeInv'
<1>1. sess'[r] = Idle /\ Idle.pc = "idle" /\ \A q \in Runtimes : q # r => sess'[q] = sess[q]
  BY DEF TypeOK, Idle
<1>2. ASSUME NEW q \in Runtimes, q # r, sess[q].pc # "idle"
      PROVE  Coherent(sess[q])' /\ row'[sess'[q].cmd].owner = q
  <2>1. sess[q].cmd # c /\ sess'[q] = sess[q] /\ sess[q].cmd \in Commands
    BY <1>1, <1>2, OwnCommand, SessionCommand
  <2>2. Coherent(sess[q]) /\ row[sess[q].cmd].owner = q
    BY <1>2 DEF OutcomeInv
  <2>3. row'[sess[q].cmd] = row[sess[q].cmd] /\ lost'[sess[q].cmd] = lost[sess[q].cmd]
        /\ (sess[q].cmd \in link' <=> sess[q].cmd \in link)
    BY <2>1
  <2> QED
    BY <2>1, <2>2, <2>3 DEF Coherent, Untouched, InFlight, Answer, Asking, Ready
<1>3. c \notin Sent'
  BY <1>1, OwnCommand DEF Sent
<1>4. ASSUME NEW d \in Commands, d # c
      PROVE  CommandInv(d)'
  <2>1. d \in Sent' <=> d \in Sent
    BY <1>1, <1>4 DEF Sent
  <2> QED
    BY <1>4, <2>1 DEF OutcomeInv, CommandInv
<1> QED
  BY <1>1, <1>2, <1>3, <1>4 DEF OutcomeInv

(* The commit makes durable what agrees with the broker. *)
LEMMA CommitStep ==
    ASSUME TypeOK, OutcomeInv, NEW r \in Runtimes, Commit(r)
    PROVE  OutcomeInv'
<1>0. PICK c \in Commands : c = sess[r].cmd
  BY SessionCommand DEF Commit
<1>1. PICK t \in Sessions : t = sess[r]
  BY DEF TypeOK
<1>2. /\ t.pc = "commit" /\ t.cmd = c /\ sess' = [sess EXCEPT ![r] = Idle]
      /\ UNCHANGED <<held, sends, lost>>
      /\ row' = [row EXCEPT ![c].attempted = t.attempted, ![c].result = t.result]
      /\ link' = IF t.linked THEN link \cup {c} ELSE link
  BY <1>0, <1>1 DEF Commit
<1>3. CommandInv(c) /\ Ready(t)
  BY <1>0, <1>1, <1>2, OpenFacts DEF Coherent
<1>4. /\ row'[c].owner = row[c].owner
      /\ row'[c].attempted = t.attempted
      /\ row'[c].result = t.result
      /\ \A d \in Commands : d # c => row'[d] = row[d]
  <2>1. row[c] \in Rows /\ row \in [Commands -> Rows]
    BY DEF TypeOK
  <2> QED
    BY <1>2, <2>1 DEF Rows
<1>5. c \in link' <=> t.result = "ACCEPTED"
  BY <1>2, <1>3 DEF Ready, CommandInv
<1>6. t.result = None => sends[c] <= lost[c]
  <2>1. ASSUME t.result = None PROVE sends[c] <= lost[c]
    <3>1. ~t.sent /\ row[c].result = None
      BY <1>2, <1>3, <2>1 DEF Ready
    <3>2. c \notin Sent
      BY <1>0, <1>1, <1>2, <3>1, NotSent
    <3> QED
      BY <1>3, <3>1, <3>2 DEF CommandInv
  <2> QED
    BY <2>1
<1>7. CommandInv(c)'
  BY <1>2, <1>3, <1>4, <1>5, <1>6 DEF CommandInv, Ready
<1>8. \A d \in Commands : row'[d].owner = row[d].owner
  BY <1>4
<1>9. \A d \in Commands : d # c =>
         row'[d] = row[d] /\ (d \in link' <=> d \in link) /\ lost'[d] = lost[d]
  BY <1>2, <1>4
<1> QED
  BY <1>0, <1>1, <1>2, <1>7, <1>8, <1>9, EndStep

(* A rollback after the call is counted as lost. *)
LEMMA RollbackStep ==
    ASSUME TypeOK, OutcomeInv, NEW r \in Runtimes, Rollback(r)
    PROVE  OutcomeInv'
<1>0. PICK c \in Commands : c = sess[r].cmd
  BY SessionCommand DEF Rollback
<1>1. /\ sess[r].pc # "idle" /\ sess' = [sess EXCEPT ![r] = Idle]
      /\ UNCHANGED <<row, link, held, sends>>
      /\ lost' = [lost EXCEPT ![c] = IF sess[r].sent THEN @ + 1 ELSE @]
  BY <1>0 DEF Rollback
<1>2. /\ lost \in [Commands -> Nat] /\ sends[c] \in Nat /\ CommandInv(c)
  BY <1>0, <1>1, OpenFacts DEF TypeOK
<1>3. CommandInv(c)'
  <2>1. CASE sess[r].sent
    <3>1. lost'[c] = lost[c] + 1
      BY <1>1, <1>2, <2>1
    <3>2. sends'[c] <= lost'[c] /\ lost'[c] # 0 /\ sends'[c] <= lost'[c] + 1
      BY <1>1, <1>2, <3>1 DEF CommandInv
    <3> QED
      BY <1>1, <1>2, <3>2 DEF CommandInv
  <2>2. CASE ~sess[r].sent
    <3>1. c \notin Sent
      BY <1>0, <1>1, <2>2, NotSent
    <3>2. lost'[c] = lost[c]
      BY <1>1, <1>2, <2>2
    <3> QED
      BY <1>1, <1>2, <3>1, <3>2 DEF CommandInv
  <2> QED
    BY <2>1, <2>2
<1>4. \A d \in Commands : d # c =>
         row'[d] = row[d] /\ (d \in link' <=> d \in link) /\ lost'[d] = lost[d]
  BY <1>1, <1>2
<1> QED
  BY <1>0, <1>1, <1>3, <1>4, EndStep

(* A new command is nobody's yet and has no transaction. *)
LEMMA CreateStep ==
    ASSUME TypeOK, OutcomeInv, NEW r \in Runtimes, NEW c \in Commands, CreateCommand(r, c)
    PROVE  OutcomeInv'
<1>1. /\ UNCHANGED <<link, sess, held, sends, lost>>
      /\ \A d \in Commands : d # c => row'[d] = row[d]
      /\ row[c].owner = Nobody /\ row[c].attempted = NoTime /\ row[c].result = None
      /\ row'[c].attempted = NoTime /\ row'[c].result = None
  BY DEF CreateCommand, NoRow, TypeOK
<1>2. ASSUME NEW q \in Runtimes, sess[q].pc # "idle"
      PROVE  row'[sess[q].cmd] = row[sess[q].cmd]
  <2>1. sess[q].cmd \in Commands /\ row[sess[q].cmd].owner = q
    BY <1>2, OpenFacts
  <2> QED
    BY <1>1, <2>1, NobodyAssumption
<1>3. ASSUME NEW q \in Runtimes, sess[q].pc # "idle"
      PROVE  row'[sess'[q].cmd].owner = q /\ Coherent(sess[q])'
  <2>1. Coherent(sess[q]) /\ row[sess[q].cmd].owner = q
    BY <1>3, OpenFacts
  <2> QED
    BY <1>1, <1>2, <1>3, <2>1 DEF Coherent, Untouched, InFlight, Answer, Asking, Ready
<1>4. Sent' = Sent
  BY <1>1 DEF Sent
<1>5. ASSUME NEW d \in Commands PROVE CommandInv(d)'
  BY <1>1, <1>4 DEF OutcomeInv, CommandInv
<1> QED
  BY <1>1, <1>3, <1>5 DEF OutcomeInv

(* The outcome invariant: what every transaction has in hand fits the durable *)
(* row of its command and what the broker did, so whichever way it ends the   *)
(* row is right.                                                              *)
THEOREM OutcomeInvariant == Spec => []OutcomeInv
<1>1. Init => OutcomeInv
  BY DEF Init, OutcomeInv, CommandInv, NoRow, Idle, Sent
<1>2. TypeOK /\ OutcomeInv /\ [Next]_vars => OutcomeInv'
  <2> SUFFICES ASSUME TypeOK, OutcomeInv, [Next]_vars PROVE OutcomeInv'
    OBVIOUS
  <2>1. CASE \/ Environment \/ UNCHANGED vars
             \/ \E r \in Runtimes : AcquireLease(r) \/ TakeControl(r)
    <3>1. UNCHANGED <<row, link, sess, held, sends, lost>>
      BY <2>1 DEF Environment, Tick, ChangeControl, ChangeEvidence, vars, AcquireLease, TakeControl
    <3> QED
      BY <3>1 DEF OutcomeInv, Coherent, Untouched, InFlight, Answer, Asking, Ready, CommandInv, Sent
  <2>2. ASSUME NEW r \in Runtimes, NEW c \in Commands, NEW pc \in {"gate", "recover"},
               Begin(r, c, pc)
        PROVE  OutcomeInv'
    <3>1. PICK t : t = [pc |-> pc, cmd |-> c, attempted |-> row[c].attempted,
                        result |-> row[c].result, linked |-> c \in link,
                        start |-> lease.token, sent |-> FALSE, outcome |-> None]
      OBVIOUS
    <3>2. t \in Sessions
      BY <3>1 DEF TypeOK, Sessions, Pcs, Rows
    <3>3. Coherent(t)
      BY <3>1 DEF Coherent, Untouched
    <3>4. /\ sess[r].pc = "idle" /\ row[c].owner = r /\ sess' = [sess EXCEPT ![r] = t]
          /\ UNCHANGED <<row, link, held, lost, sends>>
          /\ t.pc # "idle" /\ t.cmd = c /\ t.sent = FALSE
      BY <2>2, <3>1 DEF Begin, OnlySession
    <3> QED
      BY <3>2, <3>3, <3>4, OneCoherent
  <2>3. ASSUME NEW r \in Runtimes, GateDispatch(r) PROVE OutcomeInv'
    <3>1. PICK pc \in {"submitGate", "blocked"} : Move(r, pc)
      BY <2>3 DEF GateDispatch
    <3>2. Untouched(sess[r]) /\ sess[r].pc # "idle" /\ OnlySession
      BY <2>3, OpenFacts DEF GateDispatch, Coherent
    <3> QED
      BY <3>1, <3>2, StepPlain
  <2>4. ASSUME NEW r \in Runtimes, NEW fresh \in BOOLEAN, GateSubmit(r, fresh) PROVE OutcomeInv'
    <3>1. PICK pc \in {"claim", "blocked"} : Move(r, pc)
      BY <2>4 DEF GateSubmit
    <3>2. Untouched(sess[r]) /\ sess[r].pc # "idle" /\ OnlySession
      BY <2>4, OpenFacts DEF GateSubmit, Coherent
    <3> QED
      BY <3>1, <3>2, StepPlain
  <2>5. ASSUME NEW r \in Runtimes, Blocked(r) PROVE OutcomeInv'
    <3>1. PICK pc \in {"recover", "commit"} : Move(r, pc)
      BY <2>5 DEF Blocked
    <3>2. Untouched(sess[r]) /\ sess[r].pc # "idle" /\ OnlySession
      BY <2>5, OpenFacts DEF Blocked, Coherent
    <3> QED
      BY <3>1, <3>2, StepPlain
  <2>6. ASSUME NEW r \in Runtimes, Claim(r) PROVE OutcomeInv'
    <3>1. /\ sess[r].pc = "claim" /\ OnlySession
          /\ sess' = [sess EXCEPT ![r] = Claimed(sess[r], moment[r])]
      BY <2>6 DEF Claim
    <3>2. /\ sess[r] \in Sessions /\ moment[r] \in Times /\ sess[r].cmd \in Commands
          /\ Untouched(sess[r]) /\ CommandInv(sess[r].cmd)
      BY <3>1, OpenFacts DEF Coherent
    <3>3. /\ Claimed(sess[r], moment[r]) \in Sessions
          /\ Claimed(sess[r], moment[r]).cmd = sess[r].cmd
          /\ Claimed(sess[r], moment[r]).sent = sess[r].sent
          /\ Claimed(sess[r], moment[r]).pc # "idle"
          /\ Coherent(Claimed(sess[r], moment[r]))
      BY <3>2, UpdateType, ClaimedCoherent
    <3> QED
      BY <3>1, <3>3, StepOn
  <2>7. ASSUME NEW r \in Runtimes, Record(r) PROVE OutcomeInv'
    <3>1. /\ sess[r].pc = "record" /\ OnlySession
          /\ sess' = [sess EXCEPT ![r] = Recorded(sess[r], moment[r])]
      BY <2>7 DEF Record
    <3>2. /\ sess[r] \in Sessions /\ moment[r] \in Times /\ sess[r].cmd \in Commands
          /\ Answer(sess[r]) /\ CommandInv(sess[r].cmd)
      BY <3>1, OpenFacts DEF Coherent
    <3>3. /\ Recorded(sess[r], moment[r]) \in Sessions
          /\ Recorded(sess[r], moment[r]).cmd = sess[r].cmd
          /\ Recorded(sess[r], moment[r]).sent = sess[r].sent
          /\ Recorded(sess[r], moment[r]).pc # "idle"
          /\ Coherent(Recorded(sess[r], moment[r]))
      BY <3>2, UpdateType, RecordedCoherent
    <3> QED
      BY <3>1, <3>3, StepOn
  <2>8. ASSUME NEW r \in Runtimes, Recover(r) PROVE OutcomeInv'
    <3>1. /\ sess[r].pc = "recover" /\ OnlySession
          /\ sess' = [sess EXCEPT ![r] = Recovering(sess[r], moment[r])]
      BY <2>8 DEF Recover
    <3>2. /\ sess[r] \in Sessions /\ moment[r] \in Times /\ sess[r].cmd \in Commands
          /\ Untouched(sess[r]) /\ CommandInv(sess[r].cmd)
      BY <3>1, OpenFacts DEF Coherent
    <3>3. sess[r].cmd \notin Sent
      BY <3>1, <3>2, NotSent DEF Untouched
    <3>4. /\ Recovering(sess[r], moment[r]) \in Sessions
          /\ Recovering(sess[r], moment[r]).cmd = sess[r].cmd
          /\ Recovering(sess[r], moment[r]).sent = sess[r].sent
          /\ Recovering(sess[r], moment[r]).pc # "idle"
          /\ Coherent(Recovering(sess[r], moment[r]))
      BY <3>2, <3>3, UpdateType, RecoveringCoherent
    <3> QED
      BY <3>1, <3>4, StepOn
  <2>9. ASSUME NEW r \in Runtimes, NEW found \in BOOLEAN, Ask(r, found) PROVE OutcomeInv'
    <3>1. /\ sess[r].pc = "ask" /\ OnlySession /\ (found => sess[r].cmd \in held)
          /\ sess' = [sess EXCEPT ![r] = IF found THEN RecordAccepted(sess[r])
                          ELSE RecordTerminal(sess[r], "UNKNOWN", moment[r])]
      BY <2>9 DEF Ask
    <3>2. /\ sess[r] \in Sessions /\ moment[r] \in Times /\ sess[r].cmd \in Commands
          /\ Asking(sess[r]) /\ CommandInv(sess[r].cmd)
      BY <3>1, OpenFacts DEF Coherent
    <3>3. sess[r].cmd \notin Sent
      BY <3>1, <3>2, NotSent DEF Asking
    <3>4. ASSUME NEW t \in Sessions
          PROVE  /\ RecordAccepted(t).pc # "idle" /\ RecordAccepted(t).sent = t.sent
                 /\ RecordTerminal(t, "UNKNOWN", moment[r]).pc # "idle"
                 /\ RecordTerminal(t, "UNKNOWN", moment[r]).sent = t.sent
      BY DEF RecordAccepted, RecordTerminal, Sessions
    <3>5. CASE found
      <4>1. /\ RecordAccepted(sess[r]) \in Sessions
            /\ RecordAccepted(sess[r]).cmd = sess[r].cmd
            /\ RecordAccepted(sess[r]).sent = sess[r].sent
            /\ RecordAccepted(sess[r]).pc # "idle"
            /\ Coherent(RecordAccepted(sess[r]))
        BY <3>1, <3>2, <3>4, <3>5, RecordType, AcceptedReady DEF Results
      <4> QED
        BY <3>1, <3>5, <4>1, StepOn
    <3>6. CASE ~found
      <4>1. /\ RecordTerminal(sess[r], "UNKNOWN", moment[r]) \in Sessions
            /\ RecordTerminal(sess[r], "UNKNOWN", moment[r]).cmd = sess[r].cmd
            /\ RecordTerminal(sess[r], "UNKNOWN", moment[r]).sent = sess[r].sent
            /\ RecordTerminal(sess[r], "UNKNOWN", moment[r]).pc # "idle"
            /\ Coherent(RecordTerminal(sess[r], "UNKNOWN", moment[r]))
        BY <3>2, <3>3, <3>4, RecordType, TerminalReady DEF Results
      <4> QED
        BY <3>1, <3>6, <4>1, StepOn
    <3> QED
      BY <3>5, <3>6
  <2> QED
    BY <2>1, <2>2, <2>3, <2>4, <2>5, <2>6, <2>7, <2>8, <2>9, CreateStep, SendStep, CommitStep,
       RollbackStep DEF Next, Runtime
<1> QED
  BY <1>1, <1>2, TypeCorrect, PTL DEF Spec

(* One broker call per command, and one more for each rolled-back call. *)
THEOREM OneSendUnlessLostAlways == Spec => []OneSendUnlessLost
<1>1. OutcomeInv => OneSendUnlessLost
  BY DEF OutcomeInv, CommandInv, OneSendUnlessLost
<1> QED
  BY <1>1, OutcomeInvariant, PTL

(* The durable row agrees with what the broker did. *)
THEOREM RowMatchesBrokerAlways == Spec => []RowMatchesBroker
<1>1. Sent \subseteq Open
  BY DEF Sent, Open
<1>2. OutcomeInv => RowMatchesBroker
  BY <1>1 DEF OutcomeInv, CommandInv, RowMatchesBroker
<1> QED
  BY <1>2, OutcomeInvariant, PTL

(* Marker and outcome become durable together. *)
THEOREM MarkerHasOutcomeAlways == Spec => []MarkerHasOutcome
<1>1. OutcomeInv => MarkerHasOutcome
  BY DEF OutcomeInv, CommandInv, MarkerHasOutcome
<1> QED
  BY <1>1, OutcomeInvariant, PTL

(* Nothing overwrites an accepted command. *)
THEOREM AcceptedIsFinalAlways == Spec => AcceptedIsFinal
<1>1. TypeOK /\ OutcomeInv /\ [Next]_vars =>
         [\A c \in Commands :
             row[c].result = "ACCEPTED" => row'[c] = row[c] /\ c \in link']_vars
  <2> SUFFICES ASSUME TypeOK, OutcomeInv, Next, NEW c \in Commands, row[c].result = "ACCEPTED"
               PROVE  row'[c] = row[c] /\ c \in link'
    OBVIOUS
  <2>1. c \in link
    BY DEF OutcomeInv, CommandInv
  <2>2. ASSUME NEW r \in Runtimes, Commit(r)
        PROVE  row'[c] = row[c] /\ c \in link'
    <3>1. PICK t \in Sessions : t = sess[r]
      BY DEF TypeOK
    <3>2. t.pc = "commit" /\ t.cmd \in Commands /\ Ready(t)
      BY <2>2, <3>1, OpenFacts DEF Commit, Coherent
    <3>3. row' = [row EXCEPT ![t.cmd] = [row[t.cmd] EXCEPT !.attempted = t.attempted,
                                                           !.result = t.result]]
      BY <2>2, <3>1, <3>2 DEF Commit, TypeOK
    <3>4. row[c] \in Rows /\ row \in [Commands -> Rows]
      BY DEF TypeOK
    <3>5. CASE t.cmd = c
      <4>1. t.result = row[c].result /\ t.attempted = row[c].attempted
        BY <3>2, <3>5 DEF Ready
      <4>2. [row[c] EXCEPT !.attempted = row[c].attempted, !.result = row[c].result] = row[c]
        BY <3>4 DEF Rows
      <4> QED
        BY <2>1, <2>2, <3>3, <3>4, <3>5, <4>1, <4>2 DEF Commit
    <3>6. CASE t.cmd # c
      BY <2>1, <2>2, <3>3, <3>4, <3>6 DEF Commit
    <3> QED
      BY <3>5, <3>6
  <2>3. ASSUME NEW r \in Runtimes, NEW d \in Commands, CreateCommand(r, d)
        PROVE  row'[c] = row[c] /\ c \in link'
    BY <2>1, <2>3 DEF CreateCommand, NoRow, TypeOK
  <2>4. ASSUME UNCHANGED <<row, link>>
        PROVE  row'[c] = row[c] /\ c \in link'
    BY <2>1, <2>4
  <2> QED
    BY <2>2, <2>3, <2>4 DEF Next, Environment, Runtime, Tick, ChangeControl, ChangeEvidence,
       AcquireLease, TakeControl, Begin, GateDispatch, GateSubmit, Claim, Send, Record, Blocked,
       Recover, Ask, Rollback, OnlySession
<1> QED
  BY <1>1, TypeCorrect, OutcomeInvariant, PTL DEF Spec, AcceptedIsFinal
=============================================================================
