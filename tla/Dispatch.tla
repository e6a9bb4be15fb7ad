------------------------------ MODULE Dispatch ------------------------------
(***************************************************************************)
(* Sending a durable order command to the broker.                          *)
(*                                                                         *)
(* A trading pass acquires the scheduler lease, reads the clock once and   *)
(* uses that moment throughout.  A command is written and committed, and   *)
(* then dispatched in a second transaction by the runtime that wrote it:   *)
(* two gates read the lease, the control and the blocking evidence, an     *)
(* UPDATE claims the command, the broker is called, the outcome is         *)
(* recorded, and the transaction commits.  Only the claim takes a lock, so *)
(* everything else may change between any two of these steps, and a        *)
(* rollback anywhere before the commit also undoes the claim.              *)
(*                                                                         *)
(* dispatch may be called again for a command, and recover may be called;  *)
(* nobody works on one command in two transactions at a time, as in        *)
(* composition.py, where a command belongs to the coroutine that made it.  *)
(***************************************************************************)
EXTENDS Integers, FiniteSets

CONSTANTS
    Runtimes,   \* runtime instances
    Opens,      \* SUBMIT commands of class SUBMIT_NEW_EXPOSURE
    Closes,     \* SUBMIT commands of class SUBMIT_STRICT_REDUCTION
    Cancels,    \* CANCEL commands
    Replaces,   \* REPLACE commands of class REPLACE_NON_INCREASING
    Ttl,        \* how long a lease lasts
    Window,     \* how long a command may be sent for
    MaxTime,    \* bound on the clock
    MaxToken,   \* bound on the fencing token of the lease
    MaxSends    \* bound on the broker calls for one command

Commands == Opens \cup Closes \cup Cancels \cup Replaces
Submits  == Opens \cup Closes

ASSUME KindsAssumption ==
    /\ Closes \cap (Opens \cup Cancels \cup Replaces) = {}
    /\ Cancels \cap (Opens \cup Replaces) = {}
    /\ Opens \cap Replaces = {}
ASSUME NobodyAssumption == "nobody" \notin Runtimes
ASSUME BoundsAssumption ==
    /\ Ttl \in Nat \ {0} /\ Window \in Nat \ {0}
    /\ MaxTime \in Nat /\ MaxToken \in Nat \ {0} /\ MaxSends \in Nat

VARIABLES
    clock,      \* the time of day
    lease,      \* OpsSchedulerLease; token 0 while there is no row
    control,    \* OpsTradingControl of the GLOBAL scope
    evidence,   \* open BLOCKING incidents and reconciliation differences
    account,    \* ExecutionAccount.fencing_token of each runtime, 0 if not built
    moment,     \* the now of each runtime's current pass
    row,        \* exec_order_command
    link,       \* commands whose order has a broker order link
    sess,       \* the dispatch transaction each runtime is in
    held,       \* commands the broker has carried out
    sends,      \* broker calls made for each command
    lost        \* transactions rolled back after a broker call, per command

vars == <<clock, lease, control, evidence, account, moment, row, link, sess,
          held, sends, lost>>

NoTime == -1
Nobody == "nobody"
None   == "none"

Times    == 0 .. MaxTime
Owners   == Runtimes \cup {Nobody}
Outcomes == {"accepted", "rejected", "error"}
Results  == {None, "ACCEPTED", "REJECTED", "UNKNOWN"}
Evidence == {"incident", "difference"}

NoRow == [owner |-> Nobody, token |-> 0, notAfter |-> 0,
          attempted |-> NoTime, result |-> None]

(* A transaction: the command, how far it got, what it has written so far,  *)
(* and the token of the lease when it began.                                *)
Idle == [pc |-> "idle", cmd |-> None, attempted |-> NoTime, result |-> None,
         linked |-> FALSE, start |-> 0, sent |-> FALSE, outcome |-> None]

Pcs == {"idle", "gate", "submitGate", "claim", "blocked", "send", "record",
        "recover", "ask", "commit"}

-----------------------------------------------------------------------------
Init ==
    /\ clock = 0
    /\ lease = [owner |-> Nobody, token |-> 0, expires |-> 0]
    /\ \E r \in Runtimes, isArmed \in BOOLEAN :
          control = [owner |-> r, token |-> 1, expires |-> Ttl,
                     armed |-> isArmed, kill |-> FALSE]
    /\ evidence = {}
    /\ account = [r \in Runtimes |-> 0]
    /\ moment = [r \in Runtimes |-> 0]
    /\ row = [c \in Commands |-> NoRow]
    /\ link = {}
    /\ sess = [r \in Runtimes |-> Idle]
    /\ held = {}
    /\ sends = [c \in Commands |-> 0]
    /\ lost = [c \in Commands |-> 0]

Tick ==
    /\ clock < MaxTime
    /\ clock' = clock + 1
    /\ UNCHANGED <<lease, control, evidence, account, moment, row, link, sess,
                   held, sends, lost>>

-----------------------------------------------------------------------------
(* Authority. *)

(* The lease row a runtime writes when it gets it: every acquisition, its own *)
(* renewal included, takes the next fencing token.                            *)
Leased(r) == [owner |-> r, token |-> lease.token + 1, expires |-> clock + Ttl]

(* run_pass: acquire_named_scheduler_lease for this moment, or do nothing.   *)
(* The account is built once, with the token the runtime then holds.         *)
AcquireLease(r) ==
    /\ sess[r].pc = "idle"
    /\ lease.owner = r \/ lease.expires <= clock
    /\ lease.token < MaxToken
    /\ lease' = Leased(r)
    /\ account' = [account EXCEPT ![r] = IF @ = 0 THEN lease'.token ELSE @]
    /\ moment' = [moment EXCEPT ![r] = clock]
    /\ UNCHANGED <<clock, control, evidence, row, link, sess, held, sends, lost>>

(* start_execution_control: refused while anybody's lease runs; taking an    *)
(* existing lease over also takes the control over, disarmed.                *)
TakeControl(r) ==
    /\ sess[r].pc = "idle"
    /\ lease.expires <= clock
    /\ lease.token < MaxToken
    /\ lease' = Leased(r)
    /\ control' = IF lease.token = 0 THEN control
                  ELSE [owner |-> r, token |-> control.token + 1,
                        expires |-> clock + Ttl, armed |-> FALSE,
                        kill |-> control.kill]
    /\ account' = [account EXCEPT ![r] = lease'.token]
    /\ moment' = [moment EXCEPT ![r] = clock]
    /\ UNCHANGED <<clock, evidence, row, link, sess, held, sends, lost>>

(* The back office and the trader's own safety actions: see TradingControls. *)
ChangeControl(isArmed, kill) ==
    /\ control' = [control EXCEPT !.armed = isArmed, !.kill = kill]
    /\ UNCHANGED <<clock, lease, evidence, account, moment, row, link, sess,
                   held, sends, lost>>

(* Incidents and reconciliation differences are opened and resolved. *)
ChangeEvidence(e) ==
    /\ evidence' = e
    /\ UNCHANGED <<clock, lease, control, account, moment, row, link, sess,
                   held, sends, lost>>

-----------------------------------------------------------------------------
(* The gates. *)

Unknowns == {c \in Commands : row[c].result = "UNKNOWN"}

(* Plausible bug: the gate compares owners and forgets the token. *)
HoldsLeaseBug(c, now) == lease.owner = row[c].owner /\ lease.expires > now

(* decide_dispatch, the lease: held, unexpired, by the command's owner, under *)
(* the command's token.                                                       *)
HoldsLease(c, now) ==
    /\ lease.owner = row[c].owner
    /\ lease.expires > now
    /\ lease.token = row[c].token

(* decide_dispatch, the control: owned, unexpired, same token, armed, no kill *)
(* switch, nothing blocking.                                                  *)
HoldsControl(c, now) ==
    /\ control.expires > now
    /\ control.owner = row[c].owner
    /\ control.token = row[c].token
    /\ control.armed /\ ~control.kill
    /\ "incident" \notin evidence
    /\ Unknowns = {}

(* MySqlDispatchStore._may_dispatch. *)
MayDispatch(c, now) ==
    /\ row[c].attempted = NoTime
    /\ now < row[c].notAfter
    /\ HoldsLease(c, now)
    /\ c \in Cancels \cup Closes \/ HoldsControl(c, now)

(* SubmissionGate._authority_failures: none. *)
GateAuthority(r, now) == control.expires > now /\ control.owner = r

(* SubmissionGate._increase_failures: none.  The effect is REDUCE for a       *)
(* closing command and INCREASE for every other one; the runtime mode and the *)
(* account's environment agree.                                               *)
GateIncrease(c, fresh) ==
    /\ control.armed /\ ~control.kill
    /\ fresh
    /\ evidence = {}
    /\ Unknowns = {}
    /\ c \notin Closes

(* MySqlDispatchStore._may_submit.  SubmissionGate lets a CANCEL whose effect *)
(* is REDUCE past the second half, but no command is both: the effect comes   *)
(* from the authority class, and only a closing SUBMIT has the one for it.    *)
MaySubmit(r, c, now, fresh) == GateAuthority(r, now) /\ GateIncrease(c, fresh)

-----------------------------------------------------------------------------
(* Dispatching. *)

Move(r, pc) == sess' = [sess EXCEPT ![r].pc = pc]

OnlySession == UNCHANGED <<clock, lease, control, evidence, account, moment, row,
                           link, held, sends, lost>>

(* The order store commits a command of this runtime. *)
CreateCommand(r, c) ==
    /\ sess[r].pc = "idle"
    /\ account[r] # 0
    /\ row[c] = NoRow
    /\ row' = [row EXCEPT ![c] = [owner |-> r, token |-> account[r],
                                  notAfter |-> moment[r] + Window,
                                  attempted |-> NoTime, result |-> None]]
    /\ UNCHANGED <<clock, lease, control, evidence, account, moment, link, sess,
                   held, sends, lost>>

(* A transaction on a command begins: dispatch at its gates, recover at once. *)
Begin(r, c, pc) ==
    /\ sess[r].pc = "idle"
    /\ row[c].owner = r
    /\ sess' = [sess EXCEPT ![r] =
           [pc |-> pc, cmd |-> c, attempted |-> row[c].attempted,
            result |-> row[c].result, linked |-> c \in link,
            start |-> lease.token, sent |-> FALSE, outcome |-> None]]
    /\ OnlySession

GateDispatch(r) ==
    /\ sess[r].pc = "gate"
    /\ Move(r, IF MayDispatch(sess[r].cmd, moment[r]) THEN "submitGate" ELSE "blocked")
    /\ OnlySession

GateSubmit(r, fresh) ==
    /\ sess[r].pc = "submitGate"
    /\ Move(r, IF MaySubmit(r, sess[r].cmd, moment[r], fresh) THEN "claim" ELSE "blocked")
    /\ OnlySession

(* The WHERE of the claiming UPDATE. *)
Claimable(c, now) ==
    /\ row[c].attempted = NoTime
    /\ row[c].result = None
    /\ now < row[c].notAfter

(* The claiming UPDATE writes the marker, or matches no row. *)
Claimed(t, now) ==
    IF Claimable(t.cmd, now) THEN [t EXCEPT !.pc = "send", !.attempted = now]
    ELSE [t EXCEPT !.pc = "blocked"]

Claim(r) ==
    /\ sess[r].pc = "claim"
    /\ sess' = [sess EXCEPT ![r] = Claimed(sess[r], moment[r])]
    /\ OnlySession

(* The broker is called.  It carries the command out or not, and answers, or *)
(* the call fails whichever it did.  A client order id it already knows may  *)
(* be answered either way.                                                   *)
Answered(t, outcome) ==
    [t EXCEPT !.pc = "record", !.sent = TRUE, !.outcome = outcome]

Send(r, outcome, carried) ==
    LET c == sess[r].cmd IN
    /\ sess[r].pc = "send"
    /\ sends[c] < MaxSends
    /\ outcome = "accepted" => carried
    /\ outcome = "rejected" => ~carried
    /\ held' = IF carried THEN held \cup {c} ELSE held
    /\ sends' = [sends EXCEPT ![c] = @ + 1]
    /\ sess' = [sess EXCEPT ![r] = Answered(sess[r], outcome)]
    /\ UNCHANGED <<clock, lease, control, evidence, account, moment, row, link,
                   lost>>

(* record_accepted: the result and the link in one go, once. *)
RecordAccepted(t) ==
    IF t.result = "ACCEPTED" THEN [t EXCEPT !.pc = "commit"]
    ELSE [t EXCEPT !.pc = "commit", !.result = "ACCEPTED", !.linked = TRUE]

(* _record_terminal: an accepted send outranks a later report. *)
RecordTerminal(t, state, now) ==
    IF t.result \in {"ACCEPTED", state} THEN [t EXCEPT !.pc = "commit"]
    ELSE [t EXCEPT !.pc = "commit", !.result = state,
                   !.attempted = IF t.attempted = NoTime THEN now ELSE t.attempted]

(* Plausible bug: a failed call is taken for a refusal. *)
RecordedErrorBug(t, now) ==
    IF t.outcome = "accepted" THEN RecordAccepted(t)
    ELSE RecordTerminal(t, "REJECTED", now)

(* What dispatch records for each answer of the broker. *)
Recorded(t, now) ==
    IF t.outcome = "accepted" THEN RecordAccepted(t)
    ELSE RecordTerminal(t, IF t.outcome = "rejected" THEN "REJECTED" ELSE "UNKNOWN", now)

Record(r) ==
    /\ sess[r].pc = "record"
    /\ sess' = [sess EXCEPT ![r] = Recorded(sess[r], moment[r])]
    /\ OnlySession

(* Not claimed: recoverable_command, and what dispatch does about it. *)
Blocked(r) ==
    LET recoverable == sess[r].attempted # NoTime
                       /\ sess[r].result \notin {"ACCEPTED", "REJECTED"}
    IN
    /\ sess[r].pc = "blocked"
    /\ Move(r, IF recoverable THEN "recover" ELSE "commit")
    /\ OnlySession

(* _recover up to the question to the broker: nothing to ask about a cancel  *)
(* or a replace, nor outside the time from the attempt to the deadline;       *)
(* record_recovery_attempt moves the marker of a send that is not accepted.   *)
Recovering(t, now) ==
    CASE t.cmd \notin Submits -> RecordTerminal(t, "UNKNOWN", now)
      [] t.cmd \in Submits /\ (t.attempted = NoTime \/ t.attempted > now
                               \/ now >= row[t.cmd].notAfter) ->
            [t EXCEPT !.pc = "commit"]
      [] OTHER ->
            [t EXCEPT !.pc = "ask",
                      !.attempted = IF t.result = "ACCEPTED" THEN t.attempted ELSE now]

Recover(r) ==
    /\ sess[r].pc = "recover"
    /\ sess' = [sess EXCEPT ![r] = Recovering(sess[r], moment[r])]
    /\ OnlySession

(* recover_submit: the broker finds the order, or does not. *)
Ask(r, found) ==
    /\ sess[r].pc = "ask"
    /\ found => sess[r].cmd \in held
    /\ sess' = [sess EXCEPT ![r] = IF found THEN RecordAccepted(sess[r])
                                   ELSE RecordTerminal(sess[r], "UNKNOWN", moment[r])]
    /\ OnlySession

(* Plausible bug: the caller commits an accepted command only. *)
CommitBug(r) ==
    LET t == sess[r] IN
    /\ t.pc = "commit"
    /\ row' = IF t.linked THEN [row EXCEPT ![t.cmd].attempted = t.attempted,
                                           ![t.cmd].result = t.result] ELSE row
    /\ link' = IF t.linked THEN link \cup {t.cmd} ELSE link
    /\ sess' = [sess EXCEPT ![r] = Idle]
    /\ UNCHANGED <<clock, lease, control, evidence, account, moment, held, sends,
                   lost>>

(* What the transaction wrote becomes durable. *)
Commit(r) ==
    LET t == sess[r] IN
    /\ t.pc = "commit"
    /\ row' = [row EXCEPT ![t.cmd].attempted = t.attempted, ![t.cmd].result = t.result]
    /\ link' = IF t.linked THEN link \cup {t.cmd} ELSE link
    /\ sess' = [sess EXCEPT ![r] = Idle]
    /\ UNCHANGED <<clock, lease, control, evidence, account, moment, held, sends,
                   lost>>

(* The transaction is rolled back: the process dies, the database fails, the *)
(* broker's recovery raises, or a cancellation is raised again after UNKNOWN *)
(* was written and the caller never commits.                                 *)
Rollback(r) ==
    /\ sess[r].pc # "idle"
    /\ lost' = [lost EXCEPT ![sess[r].cmd] = IF sess[r].sent THEN @ + 1 ELSE @]
    /\ sess' = [sess EXCEPT ![r] = Idle]
    /\ UNCHANGED <<clock, lease, control, evidence, account, moment, row, link,
                   held, sends>>

-----------------------------------------------------------------------------
Environment ==
    \/ Tick
    \/ \E isArmed, kill \in BOOLEAN : ChangeControl(isArmed, kill)
    \/ \E e \in SUBSET Evidence : ChangeEvidence(e)

Runtime(r) ==
    \/ AcquireLease(r)
    \/ TakeControl(r)
    \/ \E c \in Commands :
          \/ CreateCommand(r, c)
          \/ Begin(r, c, "gate")
          \/ Begin(r, c, "recover")
    \/ GateDispatch(r)
    \/ \E fresh \in BOOLEAN : GateSubmit(r, fresh)
    \/ Claim(r)
    \/ \E outcome \in Outcomes, carried \in BOOLEAN : Send(r, outcome, carried)
    \/ Record(r)
    \/ Blocked(r)
    \/ Recover(r)
    \/ \E found \in BOOLEAN : Ask(r, found)
    \/ Commit(r)
    \/ Rollback(r)

Next == Environment \/ \E r \in Runtimes : Runtime(r)

Spec == Init /\ [][Next]_vars

-----------------------------------------------------------------------------
Rows == [owner : Owners, token : Nat, notAfter : Nat,
         attempted : Times \cup {NoTime}, result : Results]

Sessions == [pc : Pcs, cmd : Commands \cup {None}, attempted : Times \cup {NoTime},
             result : Results, linked : BOOLEAN, start : Nat, sent : BOOLEAN,
             outcome : Outcomes \cup {None}]

TypeOK ==
    /\ clock \in Times
    /\ lease \in [owner : Owners, token : Nat, expires : Nat]
    /\ control \in [owner : Runtimes, token : Nat, expires : Nat,
                    armed : BOOLEAN, kill : BOOLEAN]
    /\ evidence \in SUBSET Evidence
    /\ account \in [Runtimes -> Nat]
    /\ moment \in [Runtimes -> Times]
    /\ row \in [Commands -> Rows]
    /\ link \in SUBSET Commands
    /\ sess \in [Runtimes -> Sessions]
    /\ \A r \in Runtimes : sess[r].pc # "idle" => sess[r].cmd \in Commands
    /\ held \in SUBSET Commands
    /\ sends \in [Commands -> Nat]
    /\ lost \in [Commands -> Nat]

(* The commands some transaction has open. *)
Open == {sess[r].cmd : r \in {q \in Runtimes : sess[q].pc # "idle"}}

(* One call to the broker per command, and one more for each transaction that  *)
(* was rolled back after its call: however often dispatch and recover are      *)
(* repeated (dispatch_store.py authorize_and_record_attempt).                  *)
OneSendUnlessLost == \A c \in Commands : sends[c] <= lost[c] + 1

(* What the durable row says agrees with what the broker did: ACCEPTED and its *)
(* link only for a command that was carried out; and, if no transaction was    *)
(* rolled back after its call, REJECTED and never attempted only for one that  *)
(* was not (dispatch_store.py record_accepted, _record_terminal).              *)
RowMatchesBroker ==
    \A c \in Commands :
        /\ c \in link <=> row[c].result = "ACCEPTED"
        /\ c \in link => c \in held
        /\ c \in held /\ lost[c] = 0 /\ c \notin Open =>
              row[c].result \in {"ACCEPTED", "UNKNOWN"}

(* The marker is never durable without an outcome, nor the outcome without the *)
(* marker: the only commands recoverable_command finds are UNKNOWN ones.       *)
MarkerHasOutcome ==
    \A c \in Commands : row[c].attempted # NoTime <=> row[c].result # None

(* A command whose fencing token was overtaken before its dispatch began is    *)
(* not claimed by it, however the lease moves while the gates are read         *)
(* (authorization.py decide_dispatch, operations.py acquire).                  *)
FencedForGood ==
    \A r \in Runtimes : sess[r].pc \in {"submitGate", "claim", "send"} =>
        sess[r].start <= row[sess[r].cmd].token

(* dispatch_store.py: once a broker has accepted, nothing overwrites it. *)
AcceptedIsFinal ==
    [][\A c \in Commands :
          row[c].result = "ACCEPTED" => row'[c] = row[c] /\ c \in link']_vars

-----------------------------------------------------------------------------
(* The strengthenings that make the invariants inductive. *)

(* Tokens are handed out in order and nothing carries one not handed out. *)
TokenInv ==
    /\ \A r \in Runtimes : account[r] <= lease.token /\ sess[r].start <= lease.token
    /\ \A c \in Commands : row[c].token <= lease.token
    /\ FencedForGood

(* What a transaction has in hand, against the durable row of its command. *)
Untouched(t) ==
    /\ ~t.sent
    /\ t.attempted = row[t.cmd].attempted
    /\ t.result = row[t.cmd].result
    /\ t.linked <=> t.cmd \in link

InFlight(t) ==
    /\ t.attempted # NoTime
    /\ t.result = None /\ row[t.cmd].result = None
    /\ ~t.linked

Answer(t) ==
    /\ InFlight(t) /\ t.sent
    /\ t.outcome = "accepted" => t.cmd \in held
    /\ t.outcome = "rejected" /\ lost[t.cmd] = 0 => t.cmd \notin held

Asking(t) ==
    /\ ~t.sent
    /\ t.attempted # NoTime
    /\ t.result = row[t.cmd].result /\ t.result # None
    /\ t.linked <=> t.cmd \in link
    /\ t.result = "ACCEPTED" => t.attempted = row[t.cmd].attempted

Ready(t) ==
    /\ t.attempted # NoTime <=> t.result # None
    /\ t.linked <=> t.result = "ACCEPTED"
    /\ t.linked => t.cmd \in held
    /\ row[t.cmd].result = "ACCEPTED" =>
          t.result = "ACCEPTED" /\ t.attempted = row[t.cmd].attempted
    /\ t.result = None => row[t.cmd].result = None /\ ~t.sent
    /\ t.cmd \in held /\ lost[t.cmd] = 0 => t.result \in {"ACCEPTED", "UNKNOWN"}

Coherent(t) ==
    /\ t.pc \in {"gate", "submitGate", "claim", "blocked", "recover"} => Untouched(t)
    /\ t.pc = "send" => InFlight(t) /\ ~t.sent
    /\ t.pc = "record" => Answer(t)
    /\ t.pc = "ask" => Asking(t)
    /\ t.pc = "commit" => Ready(t)

(* Commands whose transaction has called the broker. *)
Sent == {sess[r].cmd : r \in {q \in Runtimes : sess[q].pc # "idle" /\ sess[q].sent}}

CommandInv(c) ==
    /\ row[c].attempted # NoTime <=> row[c].result # None
    /\ c \in link <=> row[c].result = "ACCEPTED"
    /\ c \in link => c \in held
    /\ sends[c] <= lost[c] + 1
    /\ c \notin Sent /\ row[c].result = None => sends[c] <= lost[c]
    /\ c \notin Sent /\ c \in held /\ lost[c] = 0 =>
          row[c].result \in {"ACCEPTED", "UNKNOWN"}

OutcomeInv ==
    /\ \A r \in Runtimes : sess[r].pc # "idle" =>
          row[sess[r].cmd].owner = r /\ Coherent(sess[r])
    /\ \A c \in Commands : CommandInv(c)

-----------------------------------------------------------------------------
(* What the repository says of dispatching and the code does not keep. *)

(* dispatch_store.py: "The dispatch service writes an irreversible marker      *)
(* before it crosses the broker boundary, so that a crash between the send and *)
(* the reply can never be mistaken for 'never sent'."                          *)
SentIsNotForgotten ==
    \A c \in Commands : sends[c] > 0 /\ c \notin Open => row[c].attempted # NoTime

(* loop.py run_pass: "two loops trading one account is the worst outcome", and *)
(* authorization.py decide_dispatch: "Fail closed from one locked MySQL state  *)
(* snapshot before broker I/O."                                                *)
OneSender ==
    \A r, q \in Runtimes : sess[r].pc = "send" /\ sess[q].pc = "send" => r = q

(* operations.py lock_global_dispatch_guard: "Serialize new blocking evidence  *)
(* with dispatch authorization attempts."                                      *)
EvidenceIsSerialized ==
    [][\A r \in Runtimes :
          sess[r].pc = "claim" /\ sess'[r].pc = "send" => evidence = {}]_vars

(* dispatch_store.py _may_dispatch: "A closing order and a cancel are allowed  *)
(* past the arming checks by the gate itself: refusing to reduce exposure is   *)
(* not a safe default."                                                        *)
ReducingPassesTheGates ==
    \A r \in Runtimes :
        /\ sess[r].pc = "submitGate"
        /\ sess[r].cmd \in Closes \cup Cancels
        /\ GateAuthority(r, moment[r])
        => MaySubmit(r, sess[r].cmd, moment[r], TRUE)
=============================================================================
