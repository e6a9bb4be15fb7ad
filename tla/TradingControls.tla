--------------------------- MODULE TradingControls ---------------------------
(***************************************************************************)
(* The trading controls: the rows of ops_trading_control that decide       *)
(* whether anything may be traded, and everybody who writes them.          *)
(*                                                                         *)
(*  - the back office stops trading (DISARM, HALT, EMERGENCY) with a       *)
(*    session alone, and starts it (CLEAR_HALT, ARM) with an approval that *)
(*    the second password bought and that is bound to what was shown;      *)
(*  - every command is written to a ledger before it is attempted, closed  *)
(*    as a success in the transaction of the change and as a failure in a  *)
(*    transaction of its own;                                              *)
(*  - the trader raises the kill switch by itself: with the rows locked    *)
(*    (trip_kill_switch), or by reading them in one statement and writing  *)
(*    them at the commit, without a lock (protection guard, reconciler,    *)
(*    protection safety actions).                                          *)
(*                                                                         *)
(* A transaction that locks every row FOR UPDATE is one action.  One that  *)
(* does not is two, ReadControls and WriteControls, because MySQL runs at  *)
(* READ COMMITTED and no row carries an optimistic version check.          *)
(***************************************************************************)
EXTENDS Naturals, FiniteSets

CONSTANTS
    Scopes,     \* the (scope_type, scope_key) pairs a control row may have
    Global,     \* the GLOBAL/GLOBAL scope, the one a lease takeover disarms
    Commands,   \* back office commands (UUIDv7, so each is used once)
    ApprovalIds,\* approval identities, random and so never issued twice
    Sessions,   \* authenticated back office sessions
    Policies,   \* versions of the risk policy
    Writers     \* trader coroutines that write the controls without a lock

ASSUME GlobalAssumption == Global \in Scopes

VARIABLES
    rows,       \* scopes whose control row exists
    armed,      \* OpsTradingControl.armed
    level,      \* OpsTradingControl.kill_switch_level, as its rank
    policy,     \* the active RiskPolicyVersion
    approvals,  \* Redis: live approvals, each with what it is bound to
    issued,     \* approval identities used so far
    command,    \* the back office commands in memory
    ledger,     \* BackofficeCommandRow.status, per command
    pending,    \* unlocked transactions between their read and their commit
    stopped,    \* an operator's stop is committed and no ARM has followed
    committed   \* commands whose change to the controls is durable

vars == <<rows, armed, level, policy, approvals, issued, command, ledger,
          pending, stopped, committed>>

-----------------------------------------------------------------------------
(* KillSwitchLevel, by rank. *)
NONE               == 0
BLOCK_NEW_EXPOSURE == 1
EMERGENCY          == 2
Levels == {NONE, BLOCK_NEW_EXPOSURE, EMERGENCY}

SafetyActions    == {"DISARM", "HALT", "EMERGENCY"}
DangerousActions == {"CLEAR_HALT", "ARM"}

(* What an unlocked writer is about to do: _block_new_exposure and          *)
(* cancel_entry_and_adds are BLOCK, halt_account is HALT.                   *)
WriterKinds == {"BLOCK", "HALT"}
TargetLevel(kind) == IF kind = "HALT" THEN EMERGENCY ELSE BLOCK_NEW_EXPOSURE

Facts    == [armed : BOOLEAN, level : Levels, policy : Policies]
Bindings == [session : Sessions, action : DangerousActions, facts : Facts]

NoApproval == [session |-> "none"]
NoCommand  == [pc |-> "idle"]
NoRead     == [kind |-> "none"]

Snapshot == [kind : WriterKinds, rows : SUBSET Scopes,
             armed : [Scopes -> BOOLEAN], level : [Scopes -> Levels]]

SafetyCommand   == [pc : {"applying", "failing", "done"}, action : SafetyActions]
ExposureCommand == [pc : {"applying", "failing", "done"},
                    action : DangerousActions, session : Sessions,
                    approval : ApprovalIds]

LedgerStatus == {"ABSENT", "IN_PROGRESS", "SUCCEEDED", "FAILED"}

-----------------------------------------------------------------------------
(* control_state and _strongest: what the rows add up to. *)
AllArmed == \A s \in rows : armed[s]

Strongest ==
    IF \E s \in rows : level[s] = EMERGENCY THEN EMERGENCY
    ELSE IF \E s \in rows : level[s] = BLOCK_NEW_EXPOSURE THEN BLOCK_NEW_EXPOSURE
    ELSE NONE

(* _arming_facts: with no row at all the panel says disarmed and no switch. *)
ArmingFacts ==
    [armed |-> rows # {} /\ AllArmed, level |-> Strongest, policy |-> policy]

(* MySqlTradingControl.is_armed: the question the trader asks every pass. *)
IsArmed == rows # {} /\ \A s \in rows : armed[s] /\ level[s] = NONE

-----------------------------------------------------------------------------
Init ==
    /\ rows = {}
    /\ armed = [s \in Scopes |-> FALSE]
    /\ level = [s \in Scopes |-> NONE]
    /\ policy \in Policies
    /\ approvals = [a \in ApprovalIds |-> NoApproval]
    /\ issued = {}
    /\ command = [c \in Commands |-> NoCommand]
    /\ ledger = [c \in Commands |-> "ABSENT"]
    /\ pending = [w \in Writers |-> NoRead]
    /\ stopped = FALSE
    /\ committed = {}

(* create_control for a scope that has no row yet, with no kill switch on, as *)
(* its callers make it.  Its other branch, which rewrites a row that exists,  *)
(* has no caller in the program.                                              *)
CreateControl(s, isArmed) ==
    /\ s \notin rows
    /\ rows' = rows \cup {s}
    /\ armed' = [armed EXCEPT ![s] = isArmed]
    /\ level' = [level EXCEPT ![s] = NONE]
    /\ UNCHANGED <<policy, approvals, issued, command, ledger, pending,
                   stopped, committed>>

(* start_execution_control taking an expired lease over. *)
TakeOver ==
    /\ Global \in rows
    /\ armed' = [armed EXCEPT ![Global] = FALSE]
    /\ UNCHANGED <<rows, level, policy, approvals, issued, command, ledger,
                   pending, stopped, committed>>

(* MySqlPolicyCommands._switch: another policy version becomes active. *)
ActivatePolicy(p) ==
    /\ p # policy
    /\ policy' = p
    /\ UNCHANGED <<rows, armed, level, approvals, issued, command, ledger,
                   pending, stopped, committed>>

-----------------------------------------------------------------------------
(* Stopping. *)

(* SafetyControls.apply opens the ledger entry and commits it. *)
OpenSafety(c, action) ==
    /\ command[c] = NoCommand
    /\ command' = [command EXCEPT ![c] = [pc |-> "applying", action |-> action]]
    /\ ledger' = [ledger EXCEPT ![c] = "IN_PROGRESS"]
    /\ UNCHANGED <<rows, armed, level, policy, approvals, issued, pending,
                   stopped, committed>>

Applying(c, actions) ==
    /\ command[c].pc = "applying"
    /\ command[c].action \in actions

(* The transaction of a command commits its change and its success together. *)
(* The caller may still see an error: the answer to a commit can be lost.     *)
Committed(c) ==
    /\ ledger' = [ledger EXCEPT ![c] = "SUCCEEDED"]
    /\ committed' = committed \cup {c}
    /\ \E pc \in {"done", "failing"} : command' = [command EXCEPT ![c].pc = pc]

(* _KILL_SWITCH: the level each safety action writes, if it writes one. *)
SafetyLevel(action, old) ==
    CASE action = "DISARM"    -> old
      [] action = "HALT"      -> BLOCK_NEW_EXPOSURE
      [] action = "EMERGENCY" -> EMERGENCY

(* Plausible bug: a halt that leaves the system armed. *)
SafetyArmedBug(action, old) == old /\ action # "DISARM"

(* _apply_to: every safety action disarms. *)
SafetyArmed(action, old) == FALSE

(* SafetyControls._apply, all rows locked. *)
ApplySafety(c) ==
    LET action == command[c].action IN
    /\ Applying(c, SafetyActions)
    /\ rows # {}
    /\ armed' = [s \in Scopes |-> IF s \in rows THEN SafetyArmed(action, armed[s])
                                  ELSE armed[s]]
    /\ level' = [s \in Scopes |-> IF s \in rows THEN SafetyLevel(action, level[s])
                                  ELSE level[s]]
    /\ Committed(c)
    /\ stopped' = TRUE
    /\ UNCHANGED <<rows, policy, approvals, issued, pending>>

(* Rolled back: there is nothing to control, or the database failed. *)
AbortSafety(c) ==
    /\ Applying(c, SafetyActions)
    /\ command' = [command EXCEPT ![c].pc = "failing"]
    /\ UNCHANGED <<rows, armed, level, policy, approvals, issued, ledger,
                   pending, stopped, committed>>

(* Plausible bug: the failure is written whatever the entry says. *)
CloseFailedBug(status) == "FAILED"

(* MySqlCommandLedger.fail leaves an entry alone that is already closed. *)
CloseFailed(status) == IF status = "IN_PROGRESS" THEN "FAILED" ELSE status

Fail(c) ==
    /\ command[c].pc = "failing"
    /\ command' = [command EXCEPT ![c].pc = "done"]
    /\ ledger' = [ledger EXCEPT ![c] = CloseFailed(ledger[c])]
    /\ UNCHANGED <<rows, armed, level, policy, approvals, issued, pending,
                   stopped, committed>>

(* The back office dies with the command open; its entry stays IN_PROGRESS. *)
Crash(c) ==
    /\ command[c].pc \in {"applying", "failing"}
    /\ command' = [command EXCEPT ![c].pc = "done"]
    /\ UNCHANGED <<rows, armed, level, policy, approvals, issued, ledger,
                   pending, stopped, committed>>

-----------------------------------------------------------------------------
(* Starting. *)

(* approve: the password is right, the facts are read and shown, and an     *)
(* approval bound to the session, the action and the facts is stored.       *)
Issue(a, session, action) ==
    /\ a \notin issued
    /\ issued' = issued \cup {a}
    /\ approvals' = [approvals EXCEPT ![a] =
           [session |-> session, action |-> action, facts |-> ArmingFacts]]
    /\ UNCHANGED <<rows, armed, level, policy, command, ledger, pending,
                   stopped, committed>>

(* APPROVAL_LIFETIME passes. *)
Expire(a) ==
    /\ approvals[a] # NoApproval
    /\ approvals' = [approvals EXCEPT ![a] = NoApproval]
    /\ UNCHANGED <<rows, armed, level, policy, issued, command, ledger, pending,
                   stopped, committed>>

(* enable: ExposureControls.apply opens the ledger entry.  The form may name *)
(* any approval that was ever issued.                                        *)
OpenExposure(c, session, action, a) ==
    /\ command[c] = NoCommand
    /\ a \in issued
    /\ command' = [command EXCEPT ![c] = [pc |-> "applying", action |-> action,
                                          session |-> session, approval |-> a]]
    /\ ledger' = [ledger EXCEPT ![c] = "IN_PROGRESS"]
    /\ UNCHANGED <<rows, armed, level, policy, approvals, issued, pending,
                   stopped, committed>>

(* Plausible bug: the binding leaves the digest of the facts out. *)
AuthorizesBug(a, session, action) ==
    /\ approvals[a] # NoApproval
    /\ approvals[a].session = session
    /\ approvals[a].action = action

(* ApprovalStore.consume: the stored binding is the one recomputed under the *)
(* lock.                                                                     *)
Authorizes(a, session, action) ==
    approvals[a] = [session |-> session, action |-> action, facts |-> ArmingFacts]

(* Plausible bug: read and delete are two commands and the delete is lost. *)
SpendBug(a) == UNCHANGED approvals

(* GETDEL: spent whether it matches or not. *)
Spend(a) == approvals' = [approvals EXCEPT ![a] = NoApproval]

(* ExposureControls._apply, all rows locked. *)
ApplyArm(c) ==
    /\ Applying(c, {"ARM"})
    /\ rows # {}
    /\ Authorizes(command[c].approval, command[c].session, "ARM")
    /\ Spend(command[c].approval)
    /\ Strongest = NONE
    /\ armed' = [s \in Scopes |-> armed[s] \/ s \in rows]
    /\ stopped' = FALSE
    /\ Committed(c)
    /\ UNCHANGED <<rows, level, policy, issued, pending>>

ApplyClearHalt(c) ==
    /\ Applying(c, {"CLEAR_HALT"})
    /\ rows # {}
    /\ Authorizes(command[c].approval, command[c].session, "CLEAR_HALT")
    /\ Spend(command[c].approval)
    /\ level' = [s \in Scopes |-> IF s \in rows THEN NONE ELSE level[s]]
    /\ Committed(c)
    /\ UNCHANGED <<rows, armed, policy, issued, pending, stopped>>

(* Nothing to control, or the database failed before the approval was read. *)
AbortExposure(c) ==
    /\ Applying(c, DangerousActions)
    /\ command' = [command EXCEPT ![c].pc = "failing"]
    /\ UNCHANGED <<rows, armed, level, policy, approvals, issued, ledger,
                   pending, stopped, committed>>

(* The approval is spent and nothing else happens: it is missing or bound to *)
(* something else, the account is still halted, or the commit failed.        *)
RefuseExposure(c) ==
    /\ Applying(c, DangerousActions)
    /\ rows # {}
    /\ Spend(command[c].approval)
    /\ command' = [command EXCEPT ![c].pc = "failing"]
    /\ UNCHANGED <<rows, armed, level, policy, issued, ledger, pending,
                   stopped, committed>>

-----------------------------------------------------------------------------
(* The trader stopping itself. *)

(* trip_kill_switch: every row locked, and only ever raised. *)
TripKillSwitch(l) ==
    /\ \E s \in rows : level[s] < l
    /\ level' = [s \in Scopes |-> IF s \in rows /\ level[s] < l THEN l
                                  ELSE level[s]]
    /\ UNCHANGED <<rows, armed, policy, approvals, issued, command, ledger,
                   pending, stopped, committed>>

(* The SELECT of _block_new_exposure and of _raise_to: no lock. *)
ReadControls(w, kind) ==
    /\ pending[w] = NoRead
    /\ pending' = [pending EXCEPT ![w] = [kind |-> kind, rows |-> rows,
                                          armed |-> armed, level |-> level]]
    /\ UNCHANGED <<rows, armed, level, policy, approvals, issued, command,
                   ledger, stopped, committed>>

(* Their commit: the columns the code changed, decided from what was read. *)
WriteControls(w) ==
    LET seen == pending[w] IN
    /\ seen # NoRead
    /\ level' = [s \in Scopes |->
                   IF s \in seen.rows /\ seen.level[s] < TargetLevel(seen.kind)
                   THEN TargetLevel(seen.kind) ELSE level[s]]
    /\ armed' = [s \in Scopes |->
                   armed[s] /\ ~(s \in seen.rows /\ seen.kind = "HALT" /\ seen.armed[s])]
    /\ pending' = [pending EXCEPT ![w] = NoRead]
    /\ UNCHANGED <<rows, policy, approvals, issued, command, ledger, stopped,
                   committed>>

(* The transaction is rolled back: the trader died or the database failed. *)
AbortWrite(w) ==
    /\ pending[w] # NoRead
    /\ pending' = [pending EXCEPT ![w] = NoRead]
    /\ UNCHANGED <<rows, armed, level, policy, approvals, issued, command,
                   ledger, stopped, committed>>

-----------------------------------------------------------------------------
BackOffice ==
    \/ \E c \in Commands :
          \/ \E action \in SafetyActions : OpenSafety(c, action)
          \/ ApplySafety(c)
          \/ AbortSafety(c)
          \/ \E session \in Sessions, action \in DangerousActions,
                a \in ApprovalIds : OpenExposure(c, session, action, a)
          \/ ApplyArm(c)
          \/ ApplyClearHalt(c)
          \/ AbortExposure(c)
          \/ RefuseExposure(c)
          \/ Fail(c)
          \/ Crash(c)
    \/ \E a \in ApprovalIds :
          \/ \E session \in Sessions, action \in DangerousActions :
                Issue(a, session, action)
          \/ Expire(a)
    \/ \E p \in Policies : ActivatePolicy(p)

Trader ==
    \/ \E s \in Scopes, isArmed \in BOOLEAN : CreateControl(s, isArmed)
    \/ TakeOver
    \/ TripKillSwitch(EMERGENCY)
    \/ \E w \in Writers :
          \/ \E kind \in WriterKinds : ReadControls(w, kind)
          \/ WriteControls(w)
          \/ AbortWrite(w)

Next == BackOffice \/ Trader

Spec == Init /\ [][Next]_vars

-----------------------------------------------------------------------------
TypeOK ==
    /\ rows \in SUBSET Scopes
    /\ armed \in [Scopes -> BOOLEAN]
    /\ level \in [Scopes -> Levels]
    /\ policy \in Policies
    /\ approvals \in [ApprovalIds -> {NoApproval} \cup Bindings]
    /\ issued \in SUBSET ApprovalIds
    /\ command \in [Commands -> {NoCommand} \cup SafetyCommand \cup ExposureCommand]
    /\ ledger \in [Commands -> LedgerStatus]
    /\ pending \in [Writers -> {NoRead} \cup Snapshot]
    /\ stopped \in BOOLEAN
    /\ committed \in SUBSET Commands

(* What an operator stopped stays stopped until an approved ARM: whatever    *)
(* the trader, a takeover, a new control row or CLEAR_HALT do meanwhile,      *)
(* is_armed answers no (commands.py _apply_to, composition.py is_armed).      *)
StopHolds == stopped => ~IsArmed

(* The ledger says SUCCEEDED exactly for the commands whose change is durable, *)
(* also when the answer to the commit is lost and fail runs afterwards, and    *)
(* when the back office dies in between (ledger.py succeed and fail).          *)
LedgerTellsTheTruth ==
    \A c \in Commands : c \in committed <=> ledger[c] = "SUCCEEDED"

(* One typing of the second password changes the controls at most once, however *)
(* often its approval is submitted (second_password.py consume).                *)
ApprovalBuysOneChange ==
    \A c, d \in committed :
        /\ c # d
        /\ command[c].action \in DangerousActions
        /\ command[d].action \in DangerousActions
        => command[c].approval # command[d].approval

(* A row is armed, or its kill switch taken off, only by spending an approval  *)
(* that was given against exactly the state it is spent in; arming, only with  *)
(* no kill switch on (exposure.py _apply).                                     *)
StartStep ==
    \A s \in rows :
        LET arms   == ~armed[s] /\ armed'[s]
            clears == level[s] # NONE /\ level'[s] = NONE
        IN /\ arms \/ clears => \E a \in ApprovalIds :
                 /\ approvals[a] # NoApproval
                 /\ approvals[a].facts = ArmingFacts
                 /\ approvals[a].action = IF arms THEN "ARM" ELSE "CLEAR_HALT"
                 /\ approvals'[a] = NoApproval
           /\ arms => Strongest = NONE

StartingNeedsApproval == [][StartStep]_vars

-----------------------------------------------------------------------------
(* The strengthenings that make the three invariants inductive. *)

StopInv == stopped => \E s \in rows : ~armed[s]

LedgerInv ==
    \A c \in Commands :
        /\ c \in committed <=> ledger[c] = "SUCCEEDED"
        /\ command[c].pc = "applying" => ledger[c] = "IN_PROGRESS"
        /\ command[c].pc = "idle" => ledger[c] = "ABSENT"

(* An approval is live only once issued, a command names an issued one, and *)
(* the approval of a committed change is gone for good.                     *)
ApprovalInv ==
    /\ \A a \in ApprovalIds : approvals[a] # NoApproval => a \in issued
    /\ \A c \in Commands : command[c] \in ExposureCommand =>
          command[c].approval \in issued
    /\ \A c \in committed : command[c].pc \in {"failing", "done"}
    /\ \A c \in committed : command[c] \in ExposureCommand =>
          approvals[command[c].approval] = NoApproval
    /\ \A c, d \in committed :
          c # d /\ command[c] \in ExposureCommand /\ command[d] \in ExposureCommand
          => command[c].approval # command[d].approval

-----------------------------------------------------------------------------
(* What the repository says of the controls and the code does not keep. *)

(* docs/design/backoffice.md: "lowering kill-switch severity" is among what    *)
(* requires the second password.                                               *)
LoweringNeedsApproval ==
    [][\A s \in rows : level'[s] < level[s] =>
          \E a \in ApprovalIds : approvals[a] # NoApproval /\ approvals'[a] = NoApproval]_vars

(* live_safety.py _raise_to: "Only ever upward. A level already stronger       *)
(* stays."                                                                     *)
RaisesOnlyUpward ==
    [][\A w \in Writers : WriteControls(w) => \A s \in rows : level'[s] >= level[s]]_vars

(* exposure.py: "Clearing a halt is separate from arming on purpose. One click *)
(* that both undoes an emergency and starts trading again is one click too few *)
(* for either."                                                                *)
ClearingDoesNotStart ==
    [][\A c \in Commands : ApplyClearHalt(c) /\ ~IsArmed => ~IsArmed']_vars
=============================================================================
