--------------------------- MODULE BackOfficeProofs ---------------------------
(***************************************************************************)
(* TradingControls and BackOffice hold for any number of control rows,     *)
(* commands, approvals, sessions, policies and writers, and of accounts,   *)
(* policy versions, lists, secrets, logins, requests and faults.           *)
(***************************************************************************)
EXTENDS TradingControls, BackOffice, FiniteSetTheorems, TLAPS

-----------------------------------------------------------------------------
(* The controls that stop and start trading.                                   *)

(* Changing the program counter of a command leaves it a command. *)
LEMMA CommandPc ==
    ASSUME NEW r \in {NoCommand} \cup SafetyCommand \cup ExposureCommand,
           r.pc # "idle",
           NEW pc \in {"applying", "failing", "done"}
    PROVE  /\ [r EXCEPT !.pc = pc] \in SafetyCommand \cup ExposureCommand
           /\ [r EXCEPT !.pc = pc] # NoCommand
           /\ [r EXCEPT !.pc = pc].pc = pc
           /\ [r EXCEPT !.pc = pc].action = r.action
           /\ r \in ExposureCommand => [r EXCEPT !.pc = pc].approval = r.approval
           /\ r \in SafetyCommand \cup ExposureCommand
<1>1. CASE r \in SafetyCommand
  BY <1>1 DEF SafetyCommand, ExposureCommand, NoCommand, SafetyActions, DangerousActions
<1>2. CASE r \in ExposureCommand
  BY <1>2 DEF SafetyCommand, ExposureCommand, NoCommand, SafetyActions, DangerousActions
<1>3. r # NoCommand
  BY DEF NoCommand
<1> QED
  BY <1>1, <1>2, <1>3

(* The facts on the panel are always well formed. *)
LEMMA FactsType ==
    ASSUME TypeOK PROVE ArmingFacts \in Facts
BY DEF TypeOK, ArmingFacts, Facts, AllArmed, Strongest, Levels, NONE,
       BLOCK_NEW_EXPOSURE, EMERGENCY

(* The variables keep their types: operations.py, commands.py, exposure.py    *)
(* and live_safety.py write nothing else.                                     *)
THEOREM TypeCorrect == Spec => []TypeOK
<1>1. Init => TypeOK
  BY DEF Init, TypeOK, NONE, Levels, LedgerStatus
<1>2. TypeOK /\ [Next]_vars => TypeOK'
  <2> SUFFICES ASSUME TypeOK, [Next]_vars PROVE TypeOK'
    OBVIOUS
  <2> USE DEF TypeOK
  <2>1. ASSUME NEW s \in Scopes, NEW isArmed \in BOOLEAN, CreateControl(s, isArmed)
        PROVE  TypeOK'
    BY <2>1 DEF CreateControl, NONE, Levels
  <2>2. CASE TakeOver
    BY <2>2 DEF TakeOver
  <2>3. ASSUME NEW p \in Policies, ActivatePolicy(p)
        PROVE  TypeOK'
    BY <2>3 DEF ActivatePolicy
  <2>4. ASSUME NEW c \in Commands, NEW action \in SafetyActions, OpenSafety(c, action)
        PROVE  TypeOK'
    <3>1. [pc |-> "applying", action |-> action] \in SafetyCommand
      BY DEF SafetyCommand
    <3> QED
      BY <2>4, <3>1 DEF OpenSafety, LedgerStatus
  <2>5. ASSUME NEW c \in Commands, Committed(c), command[c].pc = "applying"
        PROVE  /\ command' \in [Commands -> {NoCommand} \cup SafetyCommand \cup ExposureCommand]
               /\ ledger' \in [Commands -> LedgerStatus]
               /\ committed' \in SUBSET Commands
    <3>1. PICK pc \in {"done", "failing"} : command' = [command EXCEPT ![c].pc = pc]
      BY <2>5 DEF Committed
    <3>2. [command[c] EXCEPT !.pc = pc] \in SafetyCommand \cup ExposureCommand
      BY <2>5, CommandPc
    <3>3. ledger' \in [Commands -> LedgerStatus] /\ committed' \in SUBSET Commands
      BY <2>5 DEF Committed, LedgerStatus
    <3> QED
      BY <3>1, <3>2, <3>3
  <2>6. ASSUME NEW c \in Commands, ApplySafety(c)
        PROVE  TypeOK'
    <3>1. \A old \in Levels : SafetyLevel(command[c].action, old) \in Levels
      BY <2>6 DEF ApplySafety, Applying, SafetyLevel, SafetyActions, Levels, EMERGENCY,
                  BLOCK_NEW_EXPOSURE
    <3> QED
      BY <2>5, <2>6, <3>1 DEF ApplySafety, Applying, SafetyArmed
  <2>7. ASSUME NEW c \in Commands, AbortSafety(c) \/ AbortExposure(c) \/ Crash(c)
        PROVE  TypeOK'
    <3>1. PICK pc \in {"failing", "done"} : command' = [command EXCEPT ![c].pc = pc]
      BY <2>7 DEF AbortSafety, AbortExposure, Crash
    <3>2. command[c].pc # "idle"
      BY <2>7 DEF AbortSafety, AbortExposure, Crash, Applying
    <3>3. [command[c] EXCEPT !.pc = pc] \in SafetyCommand \cup ExposureCommand
      BY <3>2, CommandPc
    <3> QED
      BY <2>7, <3>1, <3>3 DEF AbortSafety, AbortExposure, Crash
  <2>8. ASSUME NEW c \in Commands, Fail(c)
        PROVE  TypeOK'
    BY <2>8, CommandPc DEF Fail, CloseFailed, LedgerStatus
  <2>9. ASSUME NEW a \in ApprovalIds, NEW session \in Sessions,
               NEW action \in DangerousActions, Issue(a, session, action)
        PROVE  TypeOK'
    <3>1. [session |-> session, action |-> action, facts |-> ArmingFacts] \in Bindings
      BY FactsType DEF Bindings
    <3> QED
      BY <2>9, <3>1 DEF Issue
  <2>10. ASSUME NEW a \in ApprovalIds, Expire(a)
         PROVE  TypeOK'
    BY <2>10 DEF Expire
  <2>11. ASSUME NEW c \in Commands, NEW session \in Sessions,
                NEW action \in DangerousActions, NEW a \in ApprovalIds,
                OpenExposure(c, session, action, a)
         PROVE  TypeOK'
    <3>1. [pc |-> "applying", action |-> action, session |-> session,
           approval |-> a] \in ExposureCommand
      BY DEF ExposureCommand
    <3> QED
      BY <2>11, <3>1 DEF OpenExposure, LedgerStatus
  <2>12. ASSUME NEW c \in Commands, ApplyArm(c)
         PROVE  TypeOK'
    <3>1. armed' \in [Scopes -> BOOLEAN] /\ stopped' \in BOOLEAN
      BY <2>12 DEF ApplyArm
    <3> QED
      BY <2>5, <2>12, <3>1 DEF ApplyArm, Applying, Spend
  <2>13. ASSUME NEW c \in Commands, ApplyClearHalt(c)
         PROVE  TypeOK'
    <3>1. level' \in [Scopes -> Levels]
      BY <2>13 DEF ApplyClearHalt, Levels, NONE
    <3> QED
      BY <2>5, <2>13, <3>1 DEF ApplyClearHalt, Applying, Spend
  <2>14. ASSUME NEW c \in Commands, RefuseExposure(c)
         PROVE  TypeOK'
    BY <2>14, CommandPc DEF RefuseExposure, Applying, Spend
  <2>15. CASE TripKillSwitch(EMERGENCY)
    BY <2>15 DEF TripKillSwitch, Levels, EMERGENCY
  <2>16. ASSUME NEW w \in Writers, NEW kind \in WriterKinds, ReadControls(w, kind)
         PROVE  TypeOK'
    <3>1. [kind |-> kind, rows |-> rows, armed |-> armed, level |-> level] \in Snapshot
      BY DEF Snapshot
    <3> QED
      BY <2>16, <3>1 DEF ReadControls
  <2>17. ASSUME NEW w \in Writers, WriteControls(w)
         PROVE  TypeOK'
    <3>1. level' \in [Scopes -> Levels]
      BY <2>17 DEF WriteControls, TargetLevel, Levels, EMERGENCY, BLOCK_NEW_EXPOSURE
    <3>2. armed' \in [Scopes -> BOOLEAN]
      BY <2>17 DEF WriteControls
    <3> QED
      BY <2>17, <3>1, <3>2 DEF WriteControls
  <2>18. ASSUME NEW w \in Writers, AbortWrite(w)
         PROVE  TypeOK'
    BY <2>18 DEF AbortWrite
  <2>19. CASE UNCHANGED vars
    BY <2>19 DEF vars
  <2> QED
    BY <2>1, <2>2, <2>3, <2>4, <2>6, <2>7, <2>8, <2>9, <2>10, <2>11, <2>12, <2>13,
       <2>14, <2>15, <2>16, <2>17, <2>18, <2>19 DEF Next, BackOffice, Trader
<1> QED
  BY <1>1, <1>2, PTL DEF Spec

-----------------------------------------------------------------------------
(* What an operator stopped stays stopped until an approved ARM. *)
THEOREM StopHoldsAlways == Spec => []StopHolds
<1>1. Init => StopInv
  BY DEF Init, StopInv
<1>2. TypeOK /\ StopInv /\ [Next]_vars => StopInv'
  <2> SUFFICES ASSUME TypeOK, StopInv, [Next]_vars PROVE StopInv'
    OBVIOUS
  <2> USE DEF TypeOK, StopInv
  <2>1. ASSUME NEW s \in Scopes, NEW isArmed \in BOOLEAN, CreateControl(s, isArmed)
        PROVE  StopInv'
    BY <2>1 DEF CreateControl
  <2>2. CASE TakeOver
    BY <2>2 DEF TakeOver
  <2>3. ASSUME NEW c \in Commands, ApplySafety(c)
        PROVE  StopInv'
    BY <2>3 DEF ApplySafety, SafetyArmed
  <2>4. ASSUME NEW c \in Commands, ApplyArm(c)
        PROVE  StopInv'
    BY <2>4 DEF ApplyArm
  <2>5. ASSUME NEW w \in Writers, WriteControls(w)
        PROVE  StopInv'
    BY <2>5 DEF WriteControls
  <2>6. CASE UNCHANGED <<rows, armed, stopped>>
    BY <2>6
  <2> QED
    BY <2>1, <2>2, <2>3, <2>4, <2>5, <2>6
    DEF Next, BackOffice, Trader, ActivatePolicy, OpenSafety, AbortSafety, Fail, Crash,
        Issue, Expire, OpenExposure, ApplyClearHalt, AbortExposure, RefuseExposure,
        TripKillSwitch, ReadControls, AbortWrite, vars
<1>3. TypeOK /\ StopInv => StopHolds
  BY DEF TypeOK, StopInv, StopHolds, IsArmed
<1> QED
  BY <1>1, <1>2, <1>3, TypeCorrect, PTL DEF Spec

-----------------------------------------------------------------------------
(* The ledger says SUCCEEDED exactly for the commands whose change is durable. *)
THEOREM LedgerTellsTheTruthAlways == Spec => []LedgerTellsTheTruth
<1>1. Init => LedgerInv
  BY DEF Init, LedgerInv, NoCommand
<1>2. TypeOK /\ LedgerInv /\ [Next]_vars => LedgerInv'
  <2> SUFFICES ASSUME TypeOK, LedgerInv, [Next]_vars PROVE LedgerInv'
    OBVIOUS
  <2> USE DEF LedgerInv
  <2>1. ASSUME NEW c \in Commands, NEW action \in SafetyActions, OpenSafety(c, action)
        PROVE  LedgerInv'
    BY <2>1 DEF OpenSafety, TypeOK, NoCommand
  <2>2. ASSUME NEW c \in Commands, NEW session \in Sessions,
               NEW action \in DangerousActions, NEW a \in ApprovalIds,
               OpenExposure(c, session, action, a)
        PROVE  LedgerInv'
    BY <2>2 DEF OpenExposure, TypeOK, NoCommand
  <2>3. ASSUME NEW c \in Commands, command[c].pc = "applying", Committed(c)
        PROVE  LedgerInv'
    <3>1. PICK pc \in {"done", "failing"} : command' = [command EXCEPT ![c].pc = pc]
      BY <2>3 DEF Committed
    <3>2. command'[c].pc = pc /\ \A d \in Commands \ {c} : command'[d] = command[d]
      BY <2>3, <3>1, CommandPc DEF TypeOK
    <3> QED
      BY <2>3, <3>2 DEF Committed, TypeOK
  <2>4. ASSUME NEW c \in Commands, NEW pc \in {"failing", "done"},
               command[c].pc # "idle", command' = [command EXCEPT ![c].pc = pc],
               UNCHANGED committed,
               ledger' = ledger \/ ledger' = [ledger EXCEPT ![c] = CloseFailed(ledger[c])]
        PROVE  LedgerInv'
    <3>1. command'[c].pc = pc /\ \A d \in Commands \ {c} : command'[d] = command[d]
      BY <2>4, CommandPc DEF TypeOK
    <3> QED
      BY <2>4, <3>1 DEF CloseFailed, TypeOK
  <2>5. CASE UNCHANGED <<command, ledger, committed>>
    BY <2>5
  <2> QED
    BY <2>1, <2>2, <2>3, <2>4, <2>5
    DEF Next, BackOffice, Trader, CreateControl, TakeOver, ActivatePolicy, ApplySafety,
        AbortSafety, Fail, Crash, Issue, Expire, ApplyArm, ApplyClearHalt, AbortExposure,
        RefuseExposure, TripKillSwitch, ReadControls, WriteControls, AbortWrite, Applying, vars
<1>3. LedgerInv => LedgerTellsTheTruth
  BY DEF LedgerInv, LedgerTellsTheTruth
<1> QED
  BY <1>1, <1>2, <1>3, TypeCorrect, PTL DEF Spec

-----------------------------------------------------------------------------
(* A command that stays as it is, or only moves on, names what it named. *)
LEMMA CommandMoves ==
    ASSUME TypeOK, NEW c \in Commands, command[c].pc # "idle",
           NEW pc \in {"applying", "failing", "done"},
           command' = [command EXCEPT ![c].pc = pc]
    PROVE  /\ command'[c].pc = pc
           /\ \A d \in Commands : d # c => command'[d] = command[d]
           /\ \A d \in Commands :
                 command'[d] \in ExposureCommand =>
                    /\ command[d] \in ExposureCommand
                    /\ command'[d].approval = command[d].approval
<1>1. command'[c] = [command[c] EXCEPT !.pc = pc]
  BY DEF TypeOK
<1>2. command'[c].pc = pc /\ command'[c].action = command[c].action
  BY <1>1, CommandPc DEF TypeOK
<1>3. ASSUME command'[c] \in ExposureCommand
      PROVE  command[c] \in ExposureCommand /\ command'[c].approval = command[c].approval
  <2>1. command[c].action \in DangerousActions
    BY <1>2, <1>3 DEF ExposureCommand
  <2>2. command[c] \in ExposureCommand
    BY <2>1, CommandPc DEF TypeOK, SafetyCommand, SafetyActions, DangerousActions
  <2> QED
    BY <1>1, <2>2 DEF ExposureCommand
<1> QED
  BY <1>1, <1>2, <1>3 DEF TypeOK

(* One approval changes the controls at most once. *)
THEOREM ApprovalBuysOneChangeAlways == Spec => []ApprovalBuysOneChange
<1>1. Init => ApprovalInv
  BY DEF Init, ApprovalInv, NoCommand, ExposureCommand
<1>2. TypeOK /\ ApprovalInv /\ [Next]_vars => ApprovalInv'
  <2> SUFFICES ASSUME TypeOK, ApprovalInv, [Next]_vars PROVE ApprovalInv'
    OBVIOUS
  <2>1. ASSUME NEW c \in Commands, NEW action \in SafetyActions, OpenSafety(c, action)
        PROVE  ApprovalInv'
    <3>1. command'[c] \notin ExposureCommand
      BY <2>1 DEF OpenSafety, TypeOK, ExposureCommand, SafetyActions, DangerousActions
    <3>2. \A d \in Commands : d # c => command'[d] = command[d]
      BY <2>1 DEF OpenSafety, TypeOK
    <3>3. c \notin committed
      BY <2>1 DEF OpenSafety, ApprovalInv, NoCommand
    <3> QED
      BY <2>1, <3>1, <3>2, <3>3 DEF OpenSafety, ApprovalInv, TypeOK
  <2>2. ASSUME NEW c \in Commands, NEW session \in Sessions,
               NEW action \in DangerousActions, NEW a \in ApprovalIds,
               OpenExposure(c, session, action, a)
        PROVE  ApprovalInv'
    <3>1. command'[c].approval = a /\ a \in issued
      BY <2>2 DEF OpenExposure, TypeOK
    <3>2. \A d \in Commands : d # c => command'[d] = command[d]
      BY <2>2 DEF OpenExposure, TypeOK
    <3>3. c \notin committed
      BY <2>2 DEF OpenExposure, ApprovalInv, NoCommand
    <3> QED
      BY <2>2, <3>1, <3>2, <3>3 DEF OpenExposure, ApprovalInv, TypeOK
  <2>3. ASSUME NEW c \in Commands, ApplySafety(c)
        PROVE  ApprovalInv'
    <3>1. PICK pc \in {"done", "failing"} : command' = [command EXCEPT ![c].pc = pc]
      BY <2>3 DEF ApplySafety, Committed
    <3>2. command[c].pc # "idle" /\ command[c].action \in SafetyActions
      BY <2>3 DEF ApplySafety, Applying
    <3>3. command[c] \notin ExposureCommand
      BY <3>2 DEF ExposureCommand, SafetyActions, DangerousActions
    <3>4. /\ command'[c].pc = pc
          /\ \A d \in Commands : d # c => command'[d] = command[d]
          /\ \A d \in Commands : command'[d] \in ExposureCommand =>
                /\ command[d] \in ExposureCommand
                /\ command'[d].approval = command[d].approval
      BY <3>1, <3>2, CommandMoves
    <3>5. committed' = committed \cup {c} /\ UNCHANGED <<approvals, issued>>
      BY <2>3 DEF ApplySafety, Committed
    <3> QED
      BY <3>3, <3>4, <3>5 DEF ApprovalInv, TypeOK
  <2>4. ASSUME NEW c \in Commands, ApplyArm(c) \/ ApplyClearHalt(c)
        PROVE  ApprovalInv'
    <3> DEFINE a == command[c].approval
    <3>1. PICK pc \in {"done", "failing"} : command' = [command EXCEPT ![c].pc = pc]
      BY <2>4 DEF ApplyArm, ApplyClearHalt, Committed
    <3>2. command[c].pc # "idle" /\ command[c].action \in DangerousActions
      BY <2>4 DEF ApplyArm, ApplyClearHalt, Applying, DangerousActions
    <3>3. command[c] \in ExposureCommand
      BY <3>2, CommandPc DEF TypeOK, SafetyCommand, SafetyActions, DangerousActions
    <3>4. a \in ApprovalIds
      BY <3>3 DEF ExposureCommand
    <3>5. approvals[a] # NoApproval
      BY <2>4 DEF ApplyArm, ApplyClearHalt, Authorizes, NoApproval
    <3>6. /\ approvals' = [approvals EXCEPT ![a] = NoApproval]
          /\ committed' = committed \cup {c}
          /\ issued' = issued
      BY <2>4 DEF ApplyArm, ApplyClearHalt, Spend, Committed
    <3>7. \A d \in committed : command[d] \in ExposureCommand => command[d].approval # a
      BY <3>5 DEF ApprovalInv
    <3>8. \A d \in Commands : command[d] \in ExposureCommand => command[d].approval \in ApprovalIds
      BY DEF ExposureCommand
    <3> HIDE DEF a
    <3>9. a = command[c].approval
      BY DEF a
    <3> QED
      BY <3>1, <3>2, <3>3, <3>4, <3>6, <3>7, <3>8, <3>9, CommandMoves DEF ApprovalInv, TypeOK
  <2>5. ASSUME NEW c \in Commands, NEW pc \in {"failing", "done"},
               command[c].pc # "idle", command' = [command EXCEPT ![c].pc = pc],
               UNCHANGED <<issued, committed>>,
               \A b \in ApprovalIds : approvals'[b] \in {NoApproval, approvals[b]}
        PROVE  ApprovalInv'
    <3>1. \A d \in Commands : command[d] \in ExposureCommand => command[d].approval \in ApprovalIds
      BY DEF ExposureCommand
    <3>2. /\ command'[c].pc = pc
          /\ \A d \in Commands : d # c => command'[d] = command[d]
          /\ \A d \in Commands : command'[d] \in ExposureCommand =>
                /\ command[d] \in ExposureCommand
                /\ command'[d].approval = command[d].approval
      BY <2>5, CommandMoves
    <3> QED
      BY <2>5, <3>1, <3>2 DEF ApprovalInv, TypeOK
  <2>6. ASSUME NEW c \in Commands, AbortSafety(c) \/ AbortExposure(c) \/ Crash(c) \/ Fail(c)
        PROVE  ApprovalInv'
    <3>1. PICK pc \in {"failing", "done"} : command' = [command EXCEPT ![c].pc = pc]
      BY <2>6 DEF AbortSafety, AbortExposure, Crash, Fail
    <3>2. command[c].pc # "idle" /\ UNCHANGED <<approvals, issued, committed>>
      BY <2>6 DEF AbortSafety, AbortExposure, Crash, Fail, Applying
    <3> QED
      BY <2>5, <3>1, <3>2
  <2>7. ASSUME NEW c \in Commands, RefuseExposure(c)
        PROVE  ApprovalInv'
    <3> DEFINE a == command[c].approval
    <3>1. command[c].pc # "idle" /\ command[c].action \in DangerousActions
      BY <2>7 DEF RefuseExposure, Applying
    <3>2. a \in ApprovalIds
      BY <3>1, CommandPc
      DEF TypeOK, SafetyCommand, ExposureCommand, SafetyActions, DangerousActions
    <3>3. \A b \in ApprovalIds : approvals'[b] \in {NoApproval, approvals[b]}
      BY <2>7, <3>2 DEF RefuseExposure, Spend, TypeOK
    <3>4. /\ command' = [command EXCEPT ![c].pc = "failing"]
          /\ UNCHANGED <<issued, committed>>
      BY <2>7 DEF RefuseExposure
    <3> QED
      BY <2>5, <3>1, <3>2, <3>3, <3>4
  <2>8. ASSUME NEW a \in ApprovalIds, NEW session \in Sessions,
               NEW action \in DangerousActions, Issue(a, session, action)
        PROVE  ApprovalInv'
    BY <2>8 DEF Issue, ApprovalInv, TypeOK
  <2>9. ASSUME NEW a \in ApprovalIds, Expire(a)
        PROVE  ApprovalInv'
    <3>1. \A d \in Commands : command[d] \in ExposureCommand => command[d].approval \in ApprovalIds
      BY DEF ExposureCommand
    <3> QED
      BY <2>9, <3>1 DEF Expire, ApprovalInv, TypeOK
  <2>10. CASE UNCHANGED <<approvals, issued, command, committed>>
    BY <2>10 DEF ApprovalInv
  <2> QED
    BY <2>1, <2>2, <2>3, <2>4, <2>6, <2>7, <2>8, <2>9, <2>10
    DEF Next, BackOffice, Trader, CreateControl, TakeOver, ActivatePolicy,
        TripKillSwitch, ReadControls, WriteControls, AbortWrite, vars
<1>3. TypeOK /\ ApprovalInv => ApprovalBuysOneChange
  <2> SUFFICES ASSUME TypeOK, ApprovalInv, NEW c \in committed, NEW d \in committed,
                      c # d, command[c].action \in DangerousActions,
                      command[d].action \in DangerousActions
               PROVE  command[c].approval # command[d].approval
    BY DEF ApprovalBuysOneChange
  <2>1. \A e \in committed : command[e].action \in DangerousActions =>
           command[e] \in ExposureCommand
    BY CommandPc DEF TypeOK, ApprovalInv, SafetyCommand, SafetyActions, DangerousActions
  <2> QED
    BY <2>1 DEF ApprovalInv
<1> QED
  BY <1>1, <1>2, <1>3, TypeCorrect, PTL DEF Spec

-----------------------------------------------------------------------------
(* The approval of a command that is being applied is one of ApprovalIds. *)
LEMMA ExposureApproval ==
    ASSUME TypeOK, NEW c \in Commands, Applying(c, DangerousActions)
    PROVE  command[c].approval \in ApprovalIds
BY CommandPc DEF Applying, TypeOK, SafetyCommand, ExposureCommand, SafetyActions,
                 DangerousActions

(* Arming a row, and taking its kill switch off, spends an approval given     *)
(* against the very state it is spent in.                                     *)
THEOREM StartingNeedsApprovalAlways == Spec => StartingNeedsApproval
<1>1. TypeOK /\ [Next]_vars => [StartStep]_vars
  <2> SUFFICES ASSUME TypeOK, Next PROVE StartStep
    BY DEF StartStep, vars
  <2>1. ASSUME NEW c \in Commands, ApplyArm(c)
        PROVE  StartStep
    <3>1. command[c].approval \in ApprovalIds
      BY <2>1, ExposureApproval DEF ApplyArm, Applying, DangerousActions
    <3>2. UNCHANGED level /\ Strongest = NONE
      BY <2>1 DEF ApplyArm
    <3>3. /\ approvals[command[c].approval] # NoApproval
          /\ approvals[command[c].approval].facts = ArmingFacts
          /\ approvals[command[c].approval].action = "ARM"
      BY <2>1 DEF ApplyArm, Authorizes, NoApproval
    <3>4. approvals'[command[c].approval] = NoApproval
      BY <2>1, <3>1 DEF ApplyArm, Spend, TypeOK
    <3> QED
      BY <3>1, <3>2, <3>3, <3>4 DEF StartStep
  <2>2. ASSUME NEW c \in Commands, ApplyClearHalt(c)
        PROVE  StartStep
    <3>1. command[c].approval \in ApprovalIds
      BY <2>2, ExposureApproval DEF ApplyClearHalt, Applying, DangerousActions
    <3>2. UNCHANGED armed
      BY <2>2 DEF ApplyClearHalt
    <3>3. /\ approvals[command[c].approval] # NoApproval
          /\ approvals[command[c].approval].facts = ArmingFacts
          /\ approvals[command[c].approval].action = "CLEAR_HALT"
      BY <2>2 DEF ApplyClearHalt, Authorizes, NoApproval
    <3>4. approvals'[command[c].approval] = NoApproval
      BY <2>2, <3>1 DEF ApplyClearHalt, Spend, TypeOK
    <3> QED
      BY <3>1, <3>2, <3>3, <3>4 DEF StartStep
  <2>3. ASSUME \A s \in rows : /\ armed'[s] => armed[s]
                               /\ level[s] # NONE => level'[s] # NONE
        PROVE  StartStep
    BY <2>3 DEF StartStep
  <2>4. ASSUME NEW s \in Scopes, NEW isArmed \in BOOLEAN, CreateControl(s, isArmed)
        PROVE  StartStep
    BY <2>3, <2>4 DEF CreateControl, TypeOK
  <2>5. CASE TakeOver
    BY <2>3, <2>5, GlobalAssumption DEF TakeOver, TypeOK
  <2>6. ASSUME NEW c \in Commands, ApplySafety(c)
        PROVE  StartStep
    <3>1. \A old \in Levels : old # NONE => SafetyLevel(command[c].action, old) # NONE
      BY <2>6 DEF ApplySafety, Applying, SafetyActions, SafetyLevel, NONE, EMERGENCY,
                  BLOCK_NEW_EXPOSURE
    <3>2. \A s \in rows : ~armed'[s]
      BY <2>6 DEF ApplySafety, SafetyArmed, TypeOK
    <3>3. \A s \in rows : level[s] # NONE => level'[s] # NONE
      BY <2>6, <3>1 DEF ApplySafety, TypeOK
    <3> QED
      BY <2>3, <3>2, <3>3
  <2>7. CASE TripKillSwitch(EMERGENCY)
    BY <2>3, <2>7 DEF TripKillSwitch, TypeOK, NONE, EMERGENCY
  <2>8. ASSUME NEW w \in Writers, WriteControls(w)
        PROVE  StartStep
    BY <2>3, <2>8
    DEF WriteControls, TargetLevel, TypeOK, NONE, EMERGENCY, BLOCK_NEW_EXPOSURE
  <2>9. CASE UNCHANGED <<armed, level>>
    BY <2>3, <2>9
  <2> QED
    BY <2>1, <2>2, <2>4, <2>5, <2>6, <2>7, <2>8, <2>9
    DEF Next, BackOffice, Trader, ActivatePolicy, OpenSafety, AbortSafety, Fail, Crash,
        Issue, Expire, OpenExposure, AbortExposure, RefuseExposure, ReadControls, AbortWrite
<1> QED
  BY <1>1, TypeCorrect, PTL DEF Spec, StartingNeedsApproval

-----------------------------------------------------------------------------
(* The commands on accounts, policies, the universe and secrets.               *)

(* Every command there is. *)
AllCommands == Gated \cup Ungated \cup Unaudited

(* An account with a provider; a list that was in force once. *)
Provided(db, a) == db.accounts[a].stored /\ db.accounts[a].revision > 0
EverActive(db) == {d \in Dates : db.universe[d].state \in {"ACTIVE", "SUPERSEDED"}}

(* One list and one secret in force, and no account enabled without a provider. *)
Consistent(db) ==
    /\ \A c, d \in InForce(db.universe) : c = d
    /\ \A v, w \in ActiveSecret(db) : v = w
    /\ \A a \in Accounts : db.accounts[a].enabled => Provided(db, a)

(* What an activation has read: lists that were in force, none of them newer. *)
SeenThen(db, k, seen) ==
    /\ k[1] = "BIND_POLICY" => seen \subseteq Versions
    /\ k[1] = "ACTIVATE_UNIVERSE" =>
          seen \subseteq EverActive(db) /\ \A c \in seen : c <= k[2]

(* What a command is about. *)
LEMMA CommandTarget ==
    ASSUME NEW k \in AllCommands
    PROVE  /\ k[1] \in {"CREATE", "DELETE", "ENABLE", "DISABLE"} => k[2] \in Accounts
           /\ k[1] \in {"BIND_PROVIDER", "BIND_POLICY"} => k[2][1] \in Accounts
           /\ k[1] = "BIND_POLICY" => k[2][2] \in Versions
           /\ k[1] \in {"STAGE", "ACTIVATE_UNIVERSE"} => k[2] \in Dates
           /\ k[1] \in {"ACTIVATE_SECRET", "REGISTER_SECRET"} => k[2] \in SecretVersions
           /\ k[1] \in {"CREATE_POLICY", "ACTIVATE_POLICY"} => k[2] \in Versions
           /\ k[1] \in {"CREATE", "DELETE", "ENABLE", "DISABLE", "BIND_PROVIDER", "BIND_POLICY",
                        "STAGE", "ACTIVATE_UNIVERSE", "ACTIVATE_SECRET", "REGISTER_SECRET",
                        "RETIRE_SECRET", "CREATE_POLICY", "ACTIVATE_POLICY"}
<1>1. Approved \subseteq Versions
  BY BackOfficeAssumption DEF BackOfficeAssumption
<1>2. CASE k \in Gated
  BY <1>2 DEF Gated
<1>3. CASE k \in Ungated \cup Unaudited
  BY <1>1, <1>3 DEF Ungated, Unaudited
<1> QED
  BY <1>2, <1>3 DEF AllCommands

(* The tables one by one. *)
LEMMA TablesTyped ==
    ASSUME NEW db \in Stores
    PROVE  /\ db.accounts \in [Accounts -> AccountRows]
           /\ db.bound \in [Accounts -> [active : SUBSET Versions, past : SUBSET Versions]]
           /\ db.policies \in [Versions -> {"NONE", "INACTIVE", "ACTIVE"}]
           /\ db.universe \in
                [Dates -> [state : {"NONE", "STAGED", "ACTIVE", "SUPERSEDED"}, id : Nat]]
           /\ db.secrets \in [SecretVersions -> {"NONE", "STORED", "ACTIVE", "RETIRED"}]
BY DEF Stores

(* A table of the store is replaced. *)
LEMMA TableReplaced ==
    ASSUME NEW db \in Stores
    PROVE  /\ \A t \in [Accounts -> AccountRows] :
                 /\ [db EXCEPT !.accounts = t] \in Stores
                 /\ [db EXCEPT !.accounts = t].accounts = t
                 /\ [db EXCEPT !.accounts = t].universe = db.universe
                 /\ [db EXCEPT !.accounts = t].secrets = db.secrets
           /\ \A t \in [Accounts -> [active : SUBSET Versions, past : SUBSET Versions]] :
                 /\ [db EXCEPT !.bound = t] \in Stores
                 /\ [db EXCEPT !.bound = t].accounts = db.accounts
                 /\ [db EXCEPT !.bound = t].universe = db.universe
                 /\ [db EXCEPT !.bound = t].secrets = db.secrets
           /\ \A t \in [Versions -> {"NONE", "INACTIVE", "ACTIVE"}] :
                 /\ [db EXCEPT !.policies = t] \in Stores
                 /\ [db EXCEPT !.policies = t].accounts = db.accounts
                 /\ [db EXCEPT !.policies = t].universe = db.universe
                 /\ [db EXCEPT !.policies = t].secrets = db.secrets
           /\ \A t \in [Dates -> [state : {"NONE", "STAGED", "ACTIVE", "SUPERSEDED"}, id : Nat]] :
                 /\ [db EXCEPT !.universe = t] \in Stores
                 /\ [db EXCEPT !.universe = t].accounts = db.accounts
                 /\ [db EXCEPT !.universe = t].universe = t
                 /\ [db EXCEPT !.universe = t].secrets = db.secrets
           /\ \A t \in [SecretVersions -> {"NONE", "STORED", "ACTIVE", "RETIRED"}] :
                 /\ [db EXCEPT !.secrets = t] \in Stores
                 /\ [db EXCEPT !.secrets = t].accounts = db.accounts
                 /\ [db EXCEPT !.secrets = t].universe = db.universe
                 /\ [db EXCEPT !.secrets = t].secrets = t
<1>1. \A t \in [Accounts -> AccountRows] :
         /\ [db EXCEPT !.accounts = t] \in Stores
         /\ [db EXCEPT !.accounts = t].accounts = t
         /\ [db EXCEPT !.accounts = t].universe = db.universe
         /\ [db EXCEPT !.accounts = t].secrets = db.secrets
  BY DEF Stores
<1>2. \A t \in [Accounts -> [active : SUBSET Versions, past : SUBSET Versions]] :
         /\ [db EXCEPT !.bound = t] \in Stores
         /\ [db EXCEPT !.bound = t].accounts = db.accounts
         /\ [db EXCEPT !.bound = t].universe = db.universe
         /\ [db EXCEPT !.bound = t].secrets = db.secrets
  BY DEF Stores
<1>3. \A t \in [Versions -> {"NONE", "INACTIVE", "ACTIVE"}] :
         /\ [db EXCEPT !.policies = t] \in Stores
         /\ [db EXCEPT !.policies = t].accounts = db.accounts
         /\ [db EXCEPT !.policies = t].universe = db.universe
         /\ [db EXCEPT !.policies = t].secrets = db.secrets
  BY DEF Stores
<1>4. \A t \in [Dates -> [state : {"NONE", "STAGED", "ACTIVE", "SUPERSEDED"}, id : Nat]] :
         /\ [db EXCEPT !.universe = t] \in Stores
         /\ [db EXCEPT !.universe = t].accounts = db.accounts
         /\ [db EXCEPT !.universe = t].universe = t
         /\ [db EXCEPT !.universe = t].secrets = db.secrets
  BY DEF Stores
<1>5. \A t \in [SecretVersions -> {"NONE", "STORED", "ACTIVE", "RETIRED"}] :
         /\ [db EXCEPT !.secrets = t] \in Stores
         /\ [db EXCEPT !.secrets = t].accounts = db.accounts
         /\ [db EXCEPT !.secrets = t].universe = db.universe
         /\ [db EXCEPT !.secrets = t].secrets = t
  BY DEF Stores
<1> QED
  BY <1>1, <1>2, <1>3, <1>4, <1>5

(* What a commit may do to the tables that the other requests rely on. *)
Advances(db, new) ==
    /\ new \in Stores /\ Consistent(new)
    /\ \A a \in Accounts : Provided(db, a) => Provided(new, a)
    /\ EverActive(db) \subseteq EverActive(new)

(* An account may be enabled only with a provider, and an account with a       *)
(* provider is never deleted (set_enabled, delete_unused_account).             *)
LEMMA AccountsWritten ==
    ASSUME NEW db \in Stores, Consistent(db), NEW k \in AllCommands, NEW seen,
           k[1] \in {"CREATE", "DELETE", "ENABLE", "DISABLE", "BIND_PROVIDER"},
           ~Collides(db, k, seen), k[1] = "ENABLE" => Provided(db, k[2]),
           NEW new, new = Written(db, k, seen)
    PROVE  Advances(db, new) /\ new.universe = db.universe
<1>1. /\ db.accounts \in [Accounts -> AccountRows]
      /\ k[1] # "BIND_PROVIDER" => k[2] \in Accounts
      /\ k[1] = "BIND_PROVIDER" => k[2][1] \in Accounts
  BY CommandTarget, TablesTyped
<1>2. PICK a \in Accounts, row \in AccountRows :
         /\ new = [db EXCEPT !.accounts = [db.accounts EXCEPT ![a] = row]]
         /\ Provided(db, a) => row.stored /\ row.revision > 0
         /\ row.enabled => row.stored /\ row.revision > 0
  <2>1. CASE k[1] = "CREATE"
    <3>1. new = [db EXCEPT !.accounts = [db.accounts EXCEPT ![k[2]] = NewAccount]]
      BY <2>1 DEF Written
    <3>2. NewAccount \in AccountRows /\ ~ NewAccount.enabled
      BY DEF NewAccount, AccountRows
    <3>3. ~ Provided(db, k[2])
      BY <2>1 DEF Collides, Provided
    <3> QED
      BY <1>1, <2>1, <3>1, <3>2, <3>3
  <2>2. CASE k[1] = "DELETE"
    <3>1. new = [db EXCEPT !.accounts = [db.accounts EXCEPT ![k[2]] = NoAccount]]
      BY <2>2 DEF Written
    <3>2. NoAccount \in AccountRows /\ ~ NoAccount.enabled
      BY DEF NoAccount, AccountRows
    <3>3. ~ Provided(db, k[2])
      BY <2>2 DEF Collides, DeleteCollides, References, Provided
    <3> QED
      BY <1>1, <2>2, <3>1, <3>2, <3>3
  <2>3. CASE k[1] \in {"ENABLE", "DISABLE"}
    <3>1. PICK old \in AccountRows : old = db.accounts[k[2]]
      BY <1>1, <2>3
    <3>2. PICK on \in BOOLEAN : on <=> k[1] = "ENABLE"
      OBVIOUS
    <3>3. PICK row : row = [old EXCEPT !.enabled = on]
      OBVIOUS
    <3>4. /\ row \in AccountRows /\ row.enabled = on /\ row.stored = old.stored
          /\ row.revision = old.revision
      BY <3>3 DEF AccountRows
    <3>5. new = [db EXCEPT !.accounts = [db.accounts EXCEPT ![k[2]] = row]]
      <4>1. CASE k[1] = "ENABLE"
        <5>1. new = [db EXCEPT !.accounts[k[2]].enabled = TRUE]
          BY <4>1 DEF Written
        <5>2. on = TRUE
          BY <3>2, <4>1
        <5> QED
          BY <3>1, <3>3, <5>1, <5>2
      <4>2. CASE k[1] = "DISABLE"
        <5>1. new = [db EXCEPT !.accounts[k[2]].enabled = FALSE]
          BY <4>2 DEF Written
        <5>2. on = FALSE
          BY <3>2, <4>2
        <5> QED
          BY <3>1, <3>3, <5>1, <5>2
      <4> QED
        BY <2>3, <4>1, <4>2
    <3>6. on => old.stored /\ old.revision > 0
      BY <3>1, <3>2 DEF Provided
    <3>7. Provided(db, k[2]) => old.stored /\ old.revision > 0
      BY <3>1 DEF Provided
    <3>8. k[2] \in Accounts
      BY <1>1, <2>3
    <3> QED
      BY <3>4, <3>5, <3>6, <3>7, <3>8
  <2>4. CASE k[1] = "BIND_PROVIDER"
    <3>1. PICK old \in AccountRows : old = db.accounts[k[2][1]]
      BY <1>1, <2>4
    <3>2. old.revision \in Nat
      BY DEF AccountRows
    <3>3. PICK row : row = [old EXCEPT !.revision = old.revision + 1]
      OBVIOUS
    <3>4. /\ row \in AccountRows /\ row.enabled = old.enabled /\ row.stored = old.stored
          /\ row.revision = old.revision + 1 /\ row.revision > 0
      BY <3>2, <3>3 DEF AccountRows
    <3>5. new = [db EXCEPT !.accounts = [db.accounts EXCEPT ![k[2][1]] = row]]
      <4>1. new = [db EXCEPT !.accounts[k[2][1]].revision = @ + 1]
        BY <2>4 DEF Written
      <4> QED
        BY <3>1, <3>3, <4>1
    <3>6. old.enabled => old.stored
      BY <1>1, <2>4, <3>1 DEF Consistent, Provided
    <3>7. Provided(db, k[2][1]) => old.stored
      BY <3>1 DEF Provided
    <3>8. k[2][1] \in Accounts
      BY <1>1, <2>4
    <3> QED
      BY <3>4, <3>5, <3>6, <3>7, <3>8
  <2> QED
    BY <2>1, <2>2, <2>3, <2>4
<1>3. PICK t \in [Accounts -> AccountRows] : t = [db.accounts EXCEPT ![a] = row]
  BY <1>1
<1>4. /\ new \in Stores /\ new.accounts = t /\ new.universe = db.universe
      /\ new.secrets = db.secrets
  BY <1>2, <1>3, TableReplaced
<1>5. \A b \in Accounts : t[b] = IF b = a THEN row ELSE db.accounts[b]
  BY <1>1, <1>3
<1>6. \A b \in Accounts : Provided(db, b) => Provided(new, b)
  BY <1>2, <1>4, <1>5 DEF Provided
<1>7. Consistent(new)
  <2>1. \A b \in Accounts : new.accounts[b].enabled => Provided(new, b)
    BY <1>2, <1>4, <1>5 DEF Provided, Consistent
  <2> QED
    BY <1>4, <2>1 DEF Consistent, ActiveSecret
<1> QED
  BY <1>4, <1>6, <1>7 DEF Advances, EverActive

(* Policies are created, activated and bound; nothing else changes. *)
LEMMA PoliciesWritten ==
    ASSUME NEW db \in Stores, Consistent(db), NEW k \in AllCommands, NEW seen,
           k[1] \in {"BIND_POLICY", "CREATE_POLICY", "ACTIVATE_POLICY"}, SeenThen(db, k, seen),
           NEW new, new = Written(db, k, seen)
    PROVE  Advances(db, new) /\ new.universe = db.universe
<1>1. /\ new \in Stores /\ new.accounts = db.accounts /\ new.universe = db.universe
      /\ new.secrets = db.secrets
  <2>1. CASE k[1] = "BIND_POLICY"
    <3>1. k[2][1] \in Accounts /\ k[2][2] \in Versions /\ seen \subseteq Versions
      BY <2>1, CommandTarget DEF SeenThen
    <3>2. PICK b \in [active : SUBSET Versions, past : SUBSET Versions] :
             b = db.bound[k[2][1]]
      BY <3>1, TablesTyped
    <3>3. PICK row : row = bind(b, k[2][2], seen)
      OBVIOUS
    <3>4. row \in [active : SUBSET Versions, past : SUBSET Versions]
      BY <3>1, <3>3 DEF bind
    <3>5. PICK t : t = [db.bound EXCEPT ![k[2][1]] = row]
      OBVIOUS
    <3>6. t \in [Accounts -> [active : SUBSET Versions, past : SUBSET Versions]]
      BY <3>1, <3>4, <3>5, TablesTyped
    <3>7. new = [db EXCEPT !.bound = t]
      BY <2>1, <3>2, <3>3, <3>5 DEF Written
    <3> QED
      BY <3>6, <3>7, TableReplaced
  <2>2. CASE k[1] = "CREATE_POLICY"
    <3>1. PICK t : t = [db.policies EXCEPT ![k[2]] = "INACTIVE"]
      OBVIOUS
    <3>2. t \in [Versions -> {"NONE", "INACTIVE", "ACTIVE"}]
      BY <3>1, TablesTyped
    <3>3. new = [db EXCEPT !.policies = t]
      BY <2>2, <3>1 DEF Written
    <3> QED
      BY <3>2, <3>3, TableReplaced
  <2>3. CASE k[1] = "ACTIVATE_POLICY"
    <3>1. PICK t : t = switch(db.policies, k[2])
      OBVIOUS
    <3>2. t \in [Versions -> {"NONE", "INACTIVE", "ACTIVE"}]
      BY <3>1, TablesTyped DEF switch
    <3>3. new = [db EXCEPT !.policies = t]
      BY <2>3, <3>1 DEF Written
    <3> QED
      BY <3>2, <3>3, TableReplaced
  <2> QED
    BY <2>1, <2>2, <2>3
<1> QED
  BY <1>1 DEF Advances, Consistent, Provided, EverActive, ActiveSecret

(* The day a list is activated for is the only one that joins those ever in    *)
(* force, and it is no earlier than the list it replaces                       *)
(* (UniverseAuthorities.activate).                                             *)
LEMMA UniverseWritten ==
    ASSUME NEW db \in Stores, Consistent(db), NEW k \in AllCommands, NEW seen,
           k[1] \in {"STAGE", "ACTIVATE_UNIVERSE"}, SeenThen(db, k, seen),
           ~Collides(db, k, seen),
           NEW new, new = Written(db, k, seen)
    PROVE  /\ Advances(db, new)
           /\ k[1] = "STAGE" => EverActive(new) = EverActive(db)
           /\ k[1] = "ACTIVATE_UNIVERSE" =>
                 /\ EverActive(new) = EverActive(db) \cup {k[2]}
                 /\ \A d \in InForce(db.universe) : d = k[2] \/ d < k[2]
<1> DEFINE Snapshots == [state : {"NONE", "STAGED", "ACTIVE", "SUPERSEDED"}, id : Nat]
<1>1. k[2] \in Dates /\ db.universe \in [Dates -> Snapshots] /\ Dates \subseteq Nat
  BY CommandTarget, TablesTyped, BackOfficeAssumption DEF BackOfficeAssumption
<1>2. PICK u \in [Dates -> Snapshots] : u = db.universe
  BY <1>1
<1>3. \A t \in [Dates -> Snapshots] :
         /\ [db EXCEPT !.universe = t] \in Stores
         /\ [db EXCEPT !.universe = t].accounts = db.accounts
         /\ [db EXCEPT !.universe = t].universe = t
         /\ [db EXCEPT !.universe = t].secrets = db.secrets
  BY TableReplaced
<1>4. CASE k[1] = "STAGE"
  <2>1. NextId(db) \in Nat
    <3>1. PICK S : S = {d \in Dates : db.universe[d].state # "NONE"}
      OBVIOUS
    <3>2. S \subseteq Dates /\ IsFiniteSet(Dates)
      BY <3>1, BackOfficeAssumption DEF BackOfficeAssumption
    <3>3. IsFiniteSet(S)
      BY <3>2, FS_Subset
    <3>4. Cardinality(S) \in Nat
      BY <3>3, FS_CardinalityType
    <3> QED
      BY <3>1, <3>4 DEF NextId
  <2>2. PICK row \in Snapshots : row = [state |-> "STAGED", id |-> NextId(db)]
    BY <2>1
  <2>3. PICK t : t = [u EXCEPT ![k[2]] = row]
    OBVIOUS
  <2>4. t \in [Dates -> Snapshots] /\ \A c \in Dates : t[c] = IF c = k[2] THEN row ELSE u[c]
    BY <1>1, <2>3
  <2>5. new = [db EXCEPT !.universe = t]
    BY <1>2, <1>4, <2>2, <2>3 DEF Written, stage
  <2>6. /\ new \in Stores /\ new.accounts = db.accounts /\ new.universe = t
        /\ new.secrets = db.secrets
    BY <1>3, <2>4, <2>5
  <2>7. u[k[2]].state = "NONE"
    BY <1>2, <1>4 DEF Collides
  <2>8. row.state = "STAGED"
    BY <2>2
  <2>9. EverActive(new) = EverActive(db) /\ InForce(new.universe) = InForce(db.universe)
    BY <1>2, <2>4, <2>6, <2>7, <2>8 DEF EverActive, InForce
  <2>10. /\ ActiveSecret(new) = ActiveSecret(db)
         /\ \A a \in Accounts : Provided(db, a) <=> Provided(new, a)
    BY <2>6 DEF ActiveSecret, Provided
  <2>11. Consistent(new)
    BY <2>6, <2>9, <2>10 DEF Consistent
  <2> QED
    BY <1>4, <2>6, <2>9, <2>10, <2>11 DEF Advances
<1>5. CASE k[1] = "ACTIVATE_UNIVERSE"
  <2>1. PICK t : t = activate(u, k[2], seen)
    OBVIOUS
  <2>2. \A c \in Dates :
           /\ u[c] \in Snapshots
           /\ [u[c] EXCEPT !.state = "ACTIVE"] \in Snapshots
           /\ [u[c] EXCEPT !.state = "ACTIVE"].state = "ACTIVE"
           /\ [u[c] EXCEPT !.state = "SUPERSEDED"] \in Snapshots
           /\ [u[c] EXCEPT !.state = "SUPERSEDED"].state = "SUPERSEDED"
    OBVIOUS
  <2>3. /\ t \in [Dates -> Snapshots]
        /\ \A c \in Dates :
              t[c].state = IF c = k[2] THEN "ACTIVE"
                           ELSE IF c \in seen THEN "SUPERSEDED" ELSE u[c].state
    BY <2>1, <2>2 DEF activate
  <2>4. new = [db EXCEPT !.universe = t]
    BY <1>2, <1>5, <2>1 DEF Written
  <2>5. /\ new \in Stores /\ new.accounts = db.accounts /\ new.universe = t
        /\ new.secrets = db.secrets
    BY <1>3, <2>3, <2>4
  <2>6. \A c \in InForce(db.universe) \ {k[2]} : c \in seen
    BY <1>5 DEF Collides, UniverseCollides
  <2>7. seen \subseteq EverActive(db) /\ \A c \in seen : c <= k[2]
    BY <1>5 DEF SeenThen
  <2>8. \A d \in InForce(db.universe) : d = k[2] \/ d < k[2]
    <3> SUFFICES ASSUME NEW d \in InForce(db.universe), d # k[2]
                 PROVE  d < k[2]
      OBVIOUS
    <3>1. d <= k[2] /\ d \in Dates
      BY <2>6, <2>7 DEF InForce
    <3>2. d \in Nat /\ k[2] \in Nat
      BY <1>1, <3>1
    <3> QED
      BY <3>1, <3>2
  <2>9. EverActive(new) = EverActive(db) \cup {k[2]}
    <3>1. \A c \in Dates : c \in EverActive(new) <=> t[c].state \in {"ACTIVE", "SUPERSEDED"}
      BY <2>5 DEF EverActive
    <3>2. \A c \in Dates : c \in EverActive(db) <=> u[c].state \in {"ACTIVE", "SUPERSEDED"}
      BY <1>2 DEF EverActive
    <3>3. \A c \in Dates : c \in EverActive(new) <=> c \in EverActive(db) \/ c = k[2]
      BY <2>3, <2>7, <3>1, <3>2
    <3>4. EverActive(new) \subseteq Dates /\ EverActive(db) \subseteq Dates
      BY DEF EverActive
    <3> QED
      BY <1>1, <3>3, <3>4
  <2>10. \A c \in InForce(new.universe) : c = k[2]
    <3>1. \A c \in Dates : c \in InForce(new.universe) <=> t[c].state = "ACTIVE"
      BY <2>5 DEF InForce
    <3>2. \A c \in Dates : c \in InForce(db.universe) <=> u[c].state = "ACTIVE"
      BY <1>2 DEF InForce
    <3>3. InForce(new.universe) \subseteq Dates
      BY DEF InForce
    <3> QED
      BY <2>3, <2>6, <3>1, <3>2, <3>3
  <2>11. /\ ActiveSecret(new) = ActiveSecret(db)
         /\ \A a \in Accounts : Provided(db, a) <=> Provided(new, a)
    BY <2>5 DEF ActiveSecret, Provided
  <2>12. Consistent(new)
    BY <2>5, <2>10, <2>11 DEF Consistent
  <2> QED
    BY <1>5, <2>5, <2>8, <2>9, <2>11, <2>12 DEF Advances
<1> QED
  BY <1>4, <1>5

(* A version is activated only when every active one was read and retired      *)
(* (uq of the active marker).                                                  *)
LEMMA SecretsWritten ==
    ASSUME NEW db \in Stores, Consistent(db), NEW k \in AllCommands, NEW seen,
           k[1] \in {"ACTIVATE_SECRET", "RETIRE_SECRET", "REGISTER_SECRET"},
           ~Collides(db, k, seen),
           NEW new, new = Written(db, k, seen)
    PROVE  Advances(db, new) /\ new.universe = db.universe
<1> DEFINE States == {"NONE", "STORED", "ACTIVE", "RETIRED"}
<1>1. db.secrets \in [SecretVersions -> States]
  BY TablesTyped
<1>2. PICK s \in [SecretVersions -> States] : s = db.secrets
  BY <1>1
<1>3. \A v \in SecretVersions : v \in ActiveSecret(db) <=> s[v] = "ACTIVE"
  BY <1>2 DEF ActiveSecret
<1>4. \A v, w \in SecretVersions : s[v] = "ACTIVE" /\ s[w] = "ACTIVE" => v = w
  BY <1>3 DEF Consistent
<1>5. PICK t \in [SecretVersions -> States] :
         /\ new = [db EXCEPT !.secrets = t]
         /\ \A v, w \in SecretVersions : t[v] = "ACTIVE" /\ t[w] = "ACTIVE" => v = w
  <2>1. CASE k[1] = "ACTIVATE_SECRET"
    <3>1. PICK t : t = activate_secret(s, {k[2]}, seen)
      OBVIOUS
    <3>2. /\ t \in [SecretVersions -> States]
          /\ \A v \in SecretVersions :
                t[v] = IF v = k[2] THEN "ACTIVE" ELSE IF v \in seen THEN "RETIRED" ELSE s[v]
      BY <3>1 DEF activate_secret
    <3>3. new = [db EXCEPT !.secrets = t]
      BY <1>2, <2>1, <3>1 DEF Written
    <3>4. \A v \in ActiveSecret(db) : v \in seen
      BY <2>1 DEF Collides, SecretCollides
    <3> QED
      BY <1>3, <3>2, <3>3, <3>4
  <2>2. CASE k[1] = "RETIRE_SECRET"
    <3>1. PICK t : t = activate_secret(s, {}, seen)
      OBVIOUS
    <3>2. /\ t \in [SecretVersions -> States]
          /\ \A v \in SecretVersions : t[v] = IF v \in seen THEN "RETIRED" ELSE s[v]
      BY <3>1 DEF activate_secret
    <3>3. new = [db EXCEPT !.secrets = t]
      BY <1>2, <2>2, <3>1 DEF Written
    <3>4. \A v, w \in SecretVersions : t[v] = "ACTIVE" /\ t[w] = "ACTIVE" => v = w
      <4> SUFFICES ASSUME NEW v \in SecretVersions, NEW w \in SecretVersions,
                          t[v] = "ACTIVE", t[w] = "ACTIVE"
                   PROVE  v = w
        OBVIOUS
      <4>1. s[v] = "ACTIVE" /\ s[w] = "ACTIVE"
        BY <3>2
      <4> QED
        BY <1>4, <4>1
    <3> QED
      BY <3>2, <3>3, <3>4
  <2>3. CASE k[1] = "REGISTER_SECRET"
    <3>1. PICK t : t = store_in(s, k[2])
      OBVIOUS
    <3>2. /\ t \in [SecretVersions -> States]
          /\ \A v \in SecretVersions : t[v] = IF v = k[2] THEN "STORED" ELSE s[v]
      BY <3>1 DEF store_in
    <3>3. new = [db EXCEPT !.secrets = t]
      BY <1>2, <2>3, <3>1 DEF Written
    <3>4. \A v, w \in SecretVersions : t[v] = "ACTIVE" /\ t[w] = "ACTIVE" => v = w
      <4> SUFFICES ASSUME NEW v \in SecretVersions, NEW w \in SecretVersions,
                          t[v] = "ACTIVE", t[w] = "ACTIVE"
                   PROVE  v = w
        OBVIOUS
      <4>1. s[v] = "ACTIVE" /\ s[w] = "ACTIVE"
        BY <3>2
      <4> QED
        BY <1>4, <4>1
    <3> QED
      BY <3>2, <3>3, <3>4
  <2> QED
    BY <2>1, <2>2, <2>3
<1>6. /\ new \in Stores /\ new.accounts = db.accounts /\ new.universe = db.universe
      /\ new.secrets = t
  BY <1>5, TableReplaced
<1>7. \A v, w \in ActiveSecret(new) : v = w
  BY <1>5, <1>6 DEF ActiveSecret
<1> QED
  BY <1>6, <1>7 DEF Advances, Consistent, Provided, EverActive

(* A request that gave no command, and one that gave one. *)
SignedIn(q, status, change) ==
    /\ q = [at |-> q.at, cmd |-> q.cmd] /\ q.at \in {"idle", "verifying", "done"}
    /\ status = "NONE" /\ change = Nothing
CommandShape(q) ==
    q = [at |-> q.at, cmd |-> q.cmd, session |-> q.session, approval |-> q.approval,
         facts |-> q.facts, seen |-> q.seen, held |-> q.held, waited |-> q.waited]

(* What the ledger row says of a command, by whether it committed its change. *)
Tells(k, status, change) ==
    IF IsSecret(k)
    THEN status = "SUCCEEDED" => change # Nothing
    ELSE status # "NONE" => (status = "SUCCEEDED" <=> change # Nothing)

(* Until it commits, a command has changed nothing, and what it has checked of  *)
(* the tables still holds.                                                      *)
Uncommitted(q, status, change, db) ==
    /\ status \in {"NONE", "IN_PROGRESS"} /\ change = Nothing
    /\ q.cmd[1] = "ENABLE" => Provided(db, q.cmd[2])

(* A command on its way, in the order its handler goes. *)
Carried(q, status, change, db) ==
    /\ CommandShape(q) /\ q.cmd \in AllCommands
    /\ q.at \in {"opened", "cleared", "writing", "written", "failing", "done"}
    /\ status \in {"NONE", "IN_PROGRESS", "SUCCEEDED", "FAILED"}
    /\ q.at \in {"opened", "cleared", "writing"} => Uncommitted(q, status, change, db)
    /\ q.at = "opened" => q.approval \in Approvals
    /\ q.at = "writing" => SeenThen(db, q.cmd, q.seen)
    /\ q.at = "written" => IsSecret(q.cmd) /\ change # Nothing
    /\ Tells(q.cmd, status, change)

Sound(q, status, change, db) == SignedIn(q, status, change) \/ Carried(q, status, change, db)

(* The inductive invariant of the back office: the tables are consistent, and   *)
(* every request is where its ledger row and its change say it is.              *)
BackOfficeInv ==
    /\ store \in Stores /\ Consistent(store)
    /\ req = [r \in Requests |-> req[r]]
    /\ entries = [r \in Requests |-> entries[r]]
    /\ applied = [r \in Requests |-> applied[r]]
    /\ \A r \in Requests : Sound(req[r], entries[r], applied[r], store)

(* A panel is never empty. *)
LEMMA PanelShowsSomething ==
    ASSUME NEW db, NEW k
    PROVE  PanelFacts(db, k) # Nothing
<1>1. \A x : <<x>> # Nothing
  BY DEF Nothing
<1>2. \A x, y : <<x, y>> # Nothing
  BY DEF Nothing
<1> QED
  BY <1>1, <1>2 DEF PanelFacts, EnableFacts, BindingFacts, PolicyBindingFacts, PolicyFacts,
     ActivationFacts, SecretFacts

(* A step of a handler moves its request and leaves what it knows. *)
LEMMA RequestMoves ==
    ASSUME NEW q, CommandShape(q), NEW at
    PROVE  /\ CommandShape([q EXCEPT !.at = at])
           /\ [q EXCEPT !.at = at].at = at
           /\ [q EXCEPT !.at = at].cmd = q.cmd
           /\ [q EXCEPT !.at = at].seen = q.seen
BY DEF CommandShape

(* What a request relies on stands whatever the others commit. *)
LEMMA OthersUndisturbed ==
    ASSUME NEW q, NEW status, NEW change, NEW db \in Stores, NEW new, Advances(db, new),
           Sound(q, status, change, db)
    PROVE  Sound(q, status, change, new)
<1>1. CASE SignedIn(q, status, change)
  BY <1>1 DEF Sound
<1>2. CASE Carried(q, status, change, db)
  <2>1. q.cmd \in AllCommands /\ (q.cmd[1] = "ENABLE" => q.cmd[2] \in Accounts)
    BY <1>2, CommandTarget DEF Carried
  <2>2. Uncommitted(q, status, change, db) => Uncommitted(q, status, change, new)
    BY <2>1 DEF Uncommitted, Advances
  <2>3. SeenThen(db, q.cmd, q.seen) => SeenThen(new, q.cmd, q.seen)
    BY DEF SeenThen, Advances
  <2> QED
    BY <1>2, <2>2, <2>3 DEF Carried, Sound
<1> QED
  BY <1>1, <1>2 DEF Sound

(* A store that stays as it is has advanced. *)
LEMMA StoreStays ==
    ASSUME NEW db \in Stores, Consistent(db)
    PROVE  Advances(db, db)
BY DEF Advances

(* One request takes a step, and the invariant needs only that step. *)
LEMMA OneRequestSteps ==
    ASSUME BackOfficeInv, NEW r \in Requests, NEW q, NEW status, NEW change,
           req' = [req EXCEPT ![r] = q], entries' = [entries EXCEPT ![r] = status],
           applied' = [applied EXCEPT ![r] = change],
           Advances(store, store'), Sound(q, status, change, store')
    PROVE  BackOfficeInv'
<1>1. store' \in Stores /\ Consistent(store') /\ store \in Stores
  BY DEF BackOfficeInv, Advances
<1>2. /\ req = [x \in Requests |-> req[x]] /\ entries = [x \in Requests |-> entries[x]]
      /\ applied = [x \in Requests |-> applied[x]]
  BY DEF BackOfficeInv
<1>3. /\ req' = [x \in Requests |-> IF x = r THEN q ELSE req[x]]
      /\ entries' = [x \in Requests |-> IF x = r THEN status ELSE entries[x]]
      /\ applied' = [x \in Requests |-> IF x = r THEN change ELSE applied[x]]
  BY <1>2
<1>4. ASSUME NEW x \in Requests
      PROVE  Sound(req'[x], entries'[x], applied'[x], store')
  <2>1. CASE x = r
    BY <1>3, <2>1
  <2>2. CASE x # r
    <3>1. req'[x] = req[x] /\ entries'[x] = entries[x] /\ applied'[x] = applied[x]
      BY <1>3, <2>2
    <3>2. Sound(req[x], entries[x], applied[x], store)
      BY DEF BackOfficeInv
    <3>3. PICK old, new : old = store /\ new = store'
      OBVIOUS
    <3>4. Sound(req[x], entries[x], applied[x], new)
      BY <1>1, <3>2, <3>3, OthersUndisturbed
    <3> QED
      BY <3>1, <3>3, <3>4
  <2> QED
    BY <2>1, <2>2
<1>5. /\ req' = [x \in Requests |-> req'[x]] /\ entries' = [x \in Requests |-> entries'[x]]
      /\ applied' = [x \in Requests |-> applied'[x]]
  BY <1>3
<1> QED
  BY <1>1, <1>4, <1>5 DEF BackOfficeInv

(* The back office starts consistent, with no request under way. *)
LEMMA BackOfficeStarts == BackOfficeInit => BackOfficeInv
<1> SUFFICES ASSUME BackOfficeInit PROVE BackOfficeInv
  OBVIOUS
<1>1. store \in Stores /\ Consistent(store)
  BY StoresAssumption DEF StoresAssumption, BackOfficeInit, Consistent, Provided
<1>2. \A r \in Requests : req[r] = Idle /\ entries[r] = "NONE" /\ applied[r] = Nothing
  BY DEF BackOfficeInit
<1>3. SignedIn(Idle, "NONE", Nothing)
  BY DEF SignedIn, Idle
<1>4. /\ req = [r \in Requests |-> req[r]] /\ entries = [r \in Requests |-> entries[r]]
      /\ applied = [r \in Requests |-> applied[r]]
  BY DEF BackOfficeInit
<1> QED
  BY <1>1, <1>2, <1>3, <1>4 DEF BackOfficeInv, Sound

(* Signing in changes neither the tables nor the ledger. *)
LEMMA SigningInStep ==
    ASSUME BackOfficeInv, NEW r \in Requests,
           CallbackEnds(r) \/ \E l \in Logins : CallbackBegins(r, l)
    PROVE  BackOfficeInv'
<1>1. /\ store' = store /\ Advances(store, store')
      /\ entries' = [entries EXCEPT ![r] = entries[r]]
      /\ applied' = [applied EXCEPT ![r] = applied[r]]
  <2>1. store' = store /\ entries' = entries /\ applied' = applied
    BY DEF CallbackEnds, CallbackBegins
  <2>2. entries = [x \in Requests |-> entries[x]] /\ applied = [x \in Requests |-> applied[x]]
    BY DEF BackOfficeInv
  <2> QED
    BY <2>1, <2>2, StoreStays DEF BackOfficeInv
<1>2. PICK q : /\ req' = [req EXCEPT ![r] = q]
               /\ q = [at |-> q.at, cmd |-> q.cmd] /\ q.at \in {"verifying", "done"}
               /\ req[r].at \in {"idle", "verifying"}
  <2>1. CASE CallbackEnds(r)
    <3>1. req[r].at = "verifying" /\ Sound(req[r], entries[r], applied[r], store)
      BY <2>1 DEF CallbackEnds, BackOfficeInv
    <3>2. req[r] = [at |-> req[r].at, cmd |-> req[r].cmd]
      BY <3>1 DEF Sound, SignedIn, Carried
    <3>3. PICK q : q = [at |-> "done", cmd |-> req[r].cmd]
      OBVIOUS
    <3>4. [req[r] EXCEPT !.at = "done"] = q
      BY <3>2, <3>3
    <3>5. req' = [req EXCEPT ![r] = q]
      BY <2>1, <3>4 DEF CallbackEnds
    <3> QED
      BY <3>1, <3>3, <3>5
  <2>2. CASE \E l \in Logins : CallbackBegins(r, l)
    <3>1. PICK l \in Logins : CallbackBegins(r, l)
      BY <2>2
    <3>2. PICK q : q = [at |-> "verifying", cmd |-> <<"LOGIN", l>>]
      OBVIOUS
    <3>3. req' = [req EXCEPT ![r] = q] /\ req[r].at = "idle"
      BY <3>1, <3>2 DEF CallbackBegins, Idle
    <3> QED
      BY <3>2, <3>3
  <2> QED
    BY <2>1, <2>2
<1>3. SignedIn(req[r], entries[r], applied[r])
  BY <1>2 DEF BackOfficeInv, Sound, Carried
<1>4. Sound(q, entries[r], applied[r], store')
  BY <1>2, <1>3 DEF SignedIn, Sound
<1> QED
  BY <1>1, <1>2, <1>4, OneRequestSteps

(* A command starts from facts read just now (set_enabled, the prepare of a    *)
(* panel).                                                                     *)
LEMMA OpenStep ==
    ASSUME BackOfficeInv, NEW r \in Requests, NEW s, NEW k \in AllCommands, NEW p,
           Open(r, s, k, p)
    PROVE  BackOfficeInv'
<1>1. Advances(store, store') /\ store' = store /\ applied[r] = Nothing
      /\ applied' = [applied EXCEPT ![r] = applied[r]]
  <2>1. store' = store /\ applied' = applied /\ req[r].at = "idle"
    BY DEF Open, Idle
  <2>2. applied = [x \in Requests |-> applied[x]]
    BY DEF BackOfficeInv
  <2>3. applied[r] = Nothing
    BY <2>1 DEF BackOfficeInv, Sound, Carried, SignedIn
  <2> QED
    BY <2>1, <2>2, <2>3, StoreStays DEF BackOfficeInv
<1>2. PICK q : q = [at |-> IF k \in Gated THEN "opened" ELSE "cleared", cmd |-> k, session |-> s,
                    approval |-> p, facts |-> PanelFacts(store, k), seen |-> {}, held |-> {},
                    waited |-> FALSE]
  OBVIOUS
<1>3. PICK status : status = IF k \in Unaudited THEN "NONE" ELSE "IN_PROGRESS"
  OBVIOUS
<1>4. req' = [req EXCEPT ![r] = q] /\ entries' = [entries EXCEPT ![r] = status]
  BY <1>2, <1>3 DEF Open
<1>5. CommandShape(q) /\ q.cmd = k /\ q.at \in {"opened", "cleared"}
  BY <1>2 DEF CommandShape
<1>6. k[1] = "ENABLE" => Provided(store, k[2])
  BY DEF Open, Readable, SetEnabledAccepts, Provided
<1>7. Uncommitted(q, status, applied[r], store')
  BY <1>1, <1>3, <1>5, <1>6 DEF Uncommitted
<1>8. Tells(k, status, applied[r])
  BY <1>1, <1>3 DEF Tells
<1>9. q.at = "opened" => q.approval \in Approvals
  BY <1>2 DEF Open
<1>10. Carried(q, status, applied[r], store')
  BY <1>3, <1>5, <1>7, <1>8, <1>9 DEF Carried
<1> QED
  BY <1>1, <1>4, <1>10, OneRequestSteps DEF Sound

(* A command that moves on without changing a table or the ledger. *)
OnlyMoves(r, q) ==
    /\ req[r].at \in {"opened", "cleared", "writing"}
    /\ req' = [req EXCEPT ![r] = q]
    /\ CommandShape(q) /\ q.cmd = req[r].cmd
    /\ q.at \in {"cleared", "writing", "failing"}
    /\ q.at = "writing" => SeenThen(store, q.cmd, q.seen)
    /\ store' = store /\ entries' = entries /\ applied' = applied

(* Such a move keeps the invariant. *)
LEMMA MovesOn ==
    ASSUME BackOfficeInv, NEW r \in Requests, NEW q, OnlyMoves(r, q)
    PROVE  BackOfficeInv'
<1> PICK status, change : status = entries[r] /\ change = applied[r]
  OBVIOUS
<1>1. /\ Advances(store, store')
      /\ entries' = [entries EXCEPT ![r] = status]
      /\ applied' = [applied EXCEPT ![r] = change]
      /\ req' = [req EXCEPT ![r] = q]
  <2>1. entries = [x \in Requests |-> entries[x]] /\ applied = [x \in Requests |-> applied[x]]
    BY DEF BackOfficeInv
  <2> QED
    BY <2>1, StoreStays DEF BackOfficeInv, OnlyMoves
<1>2. Carried(req[r], status, change, store)
  BY DEF BackOfficeInv, Sound, SignedIn, OnlyMoves
<1>3. Uncommitted(q, status, change, store)
  BY <1>2 DEF Carried, Uncommitted, OnlyMoves
<1>4. Sound(q, status, change, store)
  BY <1>2, <1>3 DEF Carried, Sound, OnlyMoves
<1>5. Sound(q, status, change, store')
  BY <1>4 DEF OnlyMoves
<1> QED
  BY <1>1, <1>5, OneRequestSteps

(* The approval is spent, and buys the command its way or not (consume). *)
LEMMA ConsumeStep ==
    ASSUME BackOfficeInv, NEW r \in Requests, Consume(r)
    PROVE  BackOfficeInv'
<1>1. PICK at \in {"cleared", "failing"} : req' = [req EXCEPT ![r].at = at]
  BY DEF Consume
<1>2. PICK q : q = [req[r] EXCEPT !.at = at]
  OBVIOUS
<1>3. /\ req[r].at = "opened" /\ store' = store /\ entries' = entries /\ applied' = applied
      /\ req' = [req EXCEPT ![r] = q]
  BY <1>1, <1>2 DEF Consume
<1>4. CommandShape(req[r])
  BY <1>3 DEF BackOfficeInv, Sound, SignedIn, Carried
<1>5. CommandShape(q) /\ q.at = at /\ q.cmd = req[r].cmd
  BY <1>2, <1>4, RequestMoves
<1>9. OnlyMoves(r, q)
  BY <1>1, <1>3, <1>5 DEF OnlyMoves
<1> QED
  BY <1>9, MovesOn

(* It waits for a row another transaction has locked. *)
LEMMA WaitStep ==
    ASSUME BackOfficeInv, NEW r \in Requests, Wait(r)
    PROVE  BackOfficeInv'
<1>1. PICK q : q = [req[r] EXCEPT !.waited = TRUE]
  OBVIOUS
<1>2. /\ req[r].at = "cleared" /\ store' = store /\ entries' = entries /\ applied' = applied
      /\ req' = [req EXCEPT ![r] = q]
  BY <1>1 DEF Wait
<1>3. CommandShape(req[r])
  BY <1>2 DEF BackOfficeInv, Sound, SignedIn, Carried
<1>4. CommandShape(q) /\ q.at = "cleared" /\ q.cmd = req[r].cmd
  BY <1>1, <1>2, <1>3 DEF CommandShape
<1>9. OnlyMoves(r, q)
  BY <1>2, <1>4 DEF OnlyMoves
<1> QED
  BY <1>9, MovesOn

(* What an activation finds in force is in force, and none of it newer. *)
LEMMA ReadIsOfThen ==
    ASSUME NEW db \in Stores, NEW k \in AllCommands, NEW seen \in {Current(db, k), {}},
           ~Refuses(db, k, seen)
    PROVE  SeenThen(db, k, seen)
<1>1. ASSUME k[1] = "BIND_POLICY" PROVE seen \subseteq Versions
  <2>1. k[2][1] \in Accounts
    BY <1>1, CommandTarget
  <2>2. db.bound[k[2][1]] \in [active : SUBSET Versions, past : SUBSET Versions]
    BY <2>1, TablesTyped
  <2>3. Current(db, k) = db.bound[k[2][1]].active
    BY <1>1 DEF Current, IsSecret
  <2> QED
    BY <2>2, <2>3
<1>2. ASSUME k[1] = "ACTIVATE_UNIVERSE"
      PROVE  seen \subseteq EverActive(db) /\ \A c \in seen : c <= k[2]
  <2>1. k[2] \in Dates /\ Dates \subseteq Nat
    BY <1>2, CommandTarget, BackOfficeAssumption DEF BackOfficeAssumption
  <2>2. Current(db, k) = InForce(db.universe)
    BY <1>2 DEF Current, IsSecret
  <2>3. seen \subseteq EverActive(db) /\ seen \subseteq Dates
    BY <2>2 DEF InForce, EverActive
  <2>4. \A c \in seen : ~ (c > k[2])
    BY <1>2 DEF Refuses, ActivateUniverseRefuses
  <2>5. \A c \in seen : c \in Nat /\ k[2] \in Nat
    BY <2>1, <2>3
  <2> QED
    BY <2>3, <2>4, <2>5
<1> QED
  BY <1>1, <1>2 DEF SeenThen

(* The transaction of the command reads what it is to replace. *)
LEMMA ReadStep ==
    ASSUME BackOfficeInv, NEW r \in Requests, Read(r)
    PROVE  BackOfficeInv'
<1>1. PICK k : k = req[r].cmd
  OBVIOUS
<1>2. /\ req[r].at = "cleared" /\ store' = store /\ entries' = entries /\ applied' = applied
      /\ Carried(req[r], entries[r], applied[r], store)
  BY DEF Read, BackOfficeInv, Sound, SignedIn
<1>3. PICK seen \in {Current(store, k), {}} :
         req' = [req EXCEPT ![r] =
                   [@ EXCEPT !.at = IF Refuses(store, k, seen) THEN "failing" ELSE "writing",
                             !.seen = seen, !.held = Locks(store, k)]]
  BY <1>1 DEF Read
<1>4. PICK at, held :
         /\ at = (IF Refuses(store, k, seen) THEN "failing" ELSE "writing")
         /\ held = Locks(store, k)
  OBVIOUS
<1>5. PICK q : q = [req[r] EXCEPT !.at = at, !.seen = seen, !.held = held]
  OBVIOUS
<1>6. req' = [req EXCEPT ![r] = q]
  BY <1>3, <1>4, <1>5
<1>7. CommandShape(q) /\ q.at = at /\ q.cmd = k /\ q.seen = seen
  BY <1>1, <1>2, <1>5 DEF Carried, CommandShape
<1>8. at = "writing" => SeenThen(store, k, seen)
  BY <1>1, <1>2, <1>4, ReadIsOfThen DEF BackOfficeInv, Carried
<1>9. OnlyMoves(r, q)
  BY <1>1, <1>2, <1>4, <1>6, <1>7, <1>8 DEF OnlyMoves
<1> QED
  BY <1>9, MovesOn

(* A key of the schema refuses the flush, and nothing of it stays. *)
LEMMA RollBackStep ==
    ASSUME BackOfficeInv, NEW r \in Requests, RollBack(r)
    PROVE  BackOfficeInv'
<1>1. PICK q : q = [req[r] EXCEPT !.at = "failing"]
  OBVIOUS
<1>2. /\ req[r].at = "writing" /\ store' = store /\ entries' = entries /\ applied' = applied
      /\ req' = [req EXCEPT ![r] = q]
  BY <1>1 DEF RollBack, Flushes
<1>3. CommandShape(req[r])
  BY <1>2 DEF BackOfficeInv, Sound, SignedIn, Carried
<1>4. CommandShape(q) /\ q.at = "failing" /\ q.cmd = req[r].cmd
  BY <1>1, <1>3, RequestMoves
<1>9. OnlyMoves(r, q)
  BY <1>2, <1>4 DEF OnlyMoves
<1> QED
  BY <1>9, MovesOn

(* What a commit writes keeps the tables consistent, and settles the past. *)
LEMMA CommitWrites ==
    ASSUME NEW db \in Stores, Consistent(db), NEW k \in AllCommands, NEW seen,
           k[1] = "ENABLE" => Provided(db, k[2]), SeenThen(db, k, seen),
           ~Collides(db, k, seen),
           NEW new, new = Written(db, k, seen)
    PROVE  /\ Advances(db, new)
           /\ \/ EverActive(new) = EverActive(db)
              \/ \E d2 \in Dates :
                    /\ EverActive(new) = EverActive(db) \cup {d2}
                    /\ \A d \in InForce(db.universe) : d = d2 \/ d < d2
<1>1. CASE k[1] \in {"CREATE", "DELETE", "ENABLE", "DISABLE", "BIND_PROVIDER"}
  <2>1. Advances(db, new) /\ new.universe = db.universe
    BY <1>1, AccountsWritten
  <2> QED
    BY <2>1 DEF EverActive
<1>2. CASE k[1] \in {"BIND_POLICY", "CREATE_POLICY", "ACTIVATE_POLICY"}
  <2>1. Advances(db, new) /\ new.universe = db.universe
    BY <1>2, PoliciesWritten
  <2> QED
    BY <2>1 DEF EverActive
<1>3. CASE k[1] \in {"STAGE", "ACTIVATE_UNIVERSE"}
  <2>1. k[2] \in Dates
    BY <1>3, CommandTarget
  <2> QED
    BY <1>3, <2>1, UniverseWritten
<1>4. CASE k[1] \in {"ACTIVATE_SECRET", "RETIRE_SECRET", "REGISTER_SECRET"}
  <2>1. Advances(db, new) /\ new.universe = db.universe
    BY <1>4, SecretsWritten
  <2> QED
    BY <2>1 DEF EverActive
<1> QED
  BY <1>1, <1>2, <1>3, <1>4, CommandTarget

(* Whoever commits has read what it replaces, and the store advances. *)
LEMMA CommitAdvances ==
    ASSUME BackOfficeInv, NEW r \in Requests, Commit(r)
    PROVE  /\ Carried(req[r], entries[r], applied[r], store)
           /\ Advances(store, store')
           /\ \/ EverActive(store') = EverActive(store)
              \/ \E d2 \in Dates :
                    /\ EverActive(store') = EverActive(store) \cup {d2}
                    /\ \A d \in InForce(store.universe) : d = d2 \/ d < d2
<1>1. PICK db, k, seen, new :
         db = store /\ k = req[r].cmd /\ seen = req[r].seen /\ new = store'
  OBVIOUS
<1>2. req[r].at = "writing"
  BY DEF Commit, Flushes
<1>3. Carried(req[r], entries[r], applied[r], store)
  BY <1>2 DEF BackOfficeInv, Sound, SignedIn
<1>4. /\ k \in AllCommands /\ (k[1] = "ENABLE" => Provided(db, k[2])) /\ SeenThen(db, k, seen)
      /\ db \in Stores /\ Consistent(db)
  BY <1>1, <1>2, <1>3 DEF Carried, Uncommitted, BackOfficeInv
<1>5. ~Collides(db, k, seen) /\ new = Written(db, k, seen)
  BY <1>1 DEF Commit
<1>6. /\ Advances(db, new)
      /\ \/ EverActive(new) = EverActive(db)
         \/ \E d2 \in Dates :
               /\ EverActive(new) = EverActive(db) \cup {d2}
               /\ \A d \in InForce(db.universe) : d = d2 \/ d < d2
  BY <1>4, <1>5, CommitWrites
<1> QED
  BY <1>1, <1>3, <1>6

(* The change and its SUCCEEDED are committed together, a secret's change      *)
(* before (EnabledCommand.commit, the store of secrets).                       *)
LEMMA CommitStep ==
    ASSUME BackOfficeInv, NEW r \in Requests, Commit(r)
    PROVE  BackOfficeInv'
<1>1. Carried(req[r], entries[r], applied[r], store) /\ Advances(store, store')
  BY CommitAdvances
<1>2. PICK old, k, change :
         old = entries[r] /\ k = req[r].cmd /\ change = PanelFacts(store, k)
  OBVIOUS
<1>3. PICK status : status = IF old = "NONE" \/ IsSecret(k) THEN old ELSE "SUCCEEDED"
  OBVIOUS
<1>4. PICK at \in {"written", "done", "failing"} :
         req' = [req EXCEPT ![r].at = at] /\ (at = "written" => IsSecret(k))
  <2>1. CASE req' = [req EXCEPT ![r].at = IF IsSecret(k) THEN "written" ELSE "done"]
    BY <2>1
  <2>2. CASE req' = [req EXCEPT ![r].at = "failing"]
    BY <2>2
  <2> QED
    BY <1>2, <2>1, <2>2 DEF Commit
<1>5. PICK q : q = [req[r] EXCEPT !.at = at]
  OBVIOUS
<1>6. /\ req' = [req EXCEPT ![r] = q] /\ applied' = [applied EXCEPT ![r] = change]
      /\ entries' = [entries EXCEPT ![r] = status]
  <2>1. req' = [req EXCEPT ![r] = q]
    BY <1>4, <1>5
  <2>2. applied' = [applied EXCEPT ![r] = change]
    BY <1>2 DEF Commit
  <2>3. entries' = [entries EXCEPT ![r] = status]
    BY <1>2, <1>3 DEF Commit, Succeed
  <2> QED
    BY <2>1, <2>2, <2>3
<1>7. CommandShape(q) /\ q.at = at /\ q.cmd = k
  BY <1>1, <1>2, <1>5, RequestMoves DEF Carried
<1>8. change # Nothing
  BY <1>2, PanelShowsSomething
<1>9. old \in {"NONE", "IN_PROGRESS"} /\ k \in AllCommands
  BY <1>1, <1>2 DEF Carried, Uncommitted, Commit, Flushes
<1>10. Tells(k, status, change) /\ status \in {"NONE", "IN_PROGRESS", "SUCCEEDED"}
  BY <1>3, <1>8, <1>9 DEF Tells
<1>11. PICK new : new = store'
  OBVIOUS
<1>12. Carried(q, status, change, new)
  BY <1>4, <1>7, <1>8, <1>9, <1>10 DEF Carried
<1>13. Sound(q, status, change, store')
  BY <1>11, <1>12 DEF Sound
<1> QED
  BY <1>1, <1>6, <1>13, OneRequestSteps

(* The end of a command: a secret's success, or a failure, which never takes   *)
(* the place of a success (MySqlCommandLedger.fail).                           *)
LEMMA EndStep ==
    ASSUME BackOfficeInv, NEW r \in Requests, SecretSucceeds(r) \/ FailCommand(r)
    PROVE  BackOfficeInv'
<1>1. PICK old, k, change : old = entries[r] /\ k = req[r].cmd /\ change = applied[r]
  OBVIOUS
<1>2. /\ Carried(req[r], old, change, store) /\ CommandShape(req[r])
      /\ k \in AllCommands /\ Tells(k, old, change)
      /\ old \in {"NONE", "IN_PROGRESS", "SUCCEEDED", "FAILED"}
  BY <1>1 DEF SecretSucceeds, FailCommand, BackOfficeInv, Sound, SignedIn, Carried
<1>3. PICK status :
         /\ entries' = [entries EXCEPT ![r] = status]
         /\ Tells(k, status, change)
         /\ status \in {"NONE", "IN_PROGRESS", "SUCCEEDED", "FAILED"}
  <2>1. CASE SecretSucceeds(r)
    <3>1. IsSecret(k) /\ change # Nothing
      BY <1>1, <1>2, <2>1 DEF SecretSucceeds, Carried
    <3>2. Tells(k, "SUCCEEDED", change)
      BY <3>1 DEF Tells
    <3>3. entries' = [entries EXCEPT ![r] = "SUCCEEDED"]
      BY <2>1 DEF SecretSucceeds
    <3> QED
      BY <3>2, <3>3
  <2>2. CASE FailCommand(r)
    <3>1. PICK status : status = FailedStatus(old)
      OBVIOUS
    <3>2. /\ Tells(k, status, change)
          /\ status \in {"NONE", "IN_PROGRESS", "SUCCEEDED", "FAILED"}
      BY <1>2, <3>1 DEF FailedStatus, Tells
    <3>3. entries' = [entries EXCEPT ![r] = status]
      BY <1>1, <2>2, <3>1 DEF FailCommand
    <3> QED
      BY <3>2, <3>3
  <2> QED
    BY <2>1, <2>2
<1>4. PICK q : q = [req[r] EXCEPT !.at = "done"]
  OBVIOUS
<1>5. /\ req' = [req EXCEPT ![r] = q] /\ store' = store /\ applied' = applied
  BY <1>4 DEF SecretSucceeds, FailCommand
<1>6. CommandShape(q) /\ q.at = "done" /\ q.cmd = k
  BY <1>1, <1>2, <1>4, RequestMoves
<1>7. Carried(q, status, change, store)
  BY <1>2, <1>3, <1>6 DEF Carried
<1>8. Sound(q, status, change, store') /\ Advances(store, store')
  BY <1>5, <1>7, StoreStays DEF Sound, BackOfficeInv
<1>9. applied' = [applied EXCEPT ![r] = change]
  BY <1>1, <1>5 DEF BackOfficeInv
<1> QED
  BY <1>3, <1>5, <1>8, <1>9, OneRequestSteps

(* A restart leaves the commands that were under way where they were. *)
LEMMA RestartStep ==
    ASSUME BackOfficeInv, Restart
    PROVE  BackOfficeInv'
<1>1. /\ req' = [r \in Requests |-> IF Live(r) THEN [req[r] EXCEPT !.at = "done"] ELSE req[r]]
      /\ store' = store /\ entries' = entries /\ applied' = applied
  BY DEF Restart
<1>2. ASSUME NEW r \in Requests
      PROVE  Sound(req'[r], entries'[r], applied'[r], store')
  <2>1. Sound(req[r], entries[r], applied[r], store)
    BY DEF BackOfficeInv
  <2>2. CASE ~ Live(r)
    BY <1>1, <2>1, <2>2
  <2>3. CASE Live(r)
    <3>1. PICK q, old : old = req[r] /\ q = [old EXCEPT !.at = "done"]
      OBVIOUS
    <3>2. PICK status, change, db :
             status = entries[r] /\ change = applied[r] /\ db = store
      OBVIOUS
    <3>3. CASE SignedIn(old, status, change)
      <4>1. q = [at |-> "done", cmd |-> old.cmd]
        BY <3>1, <3>3 DEF SignedIn
      <4>2. SignedIn(q, status, change)
        BY <3>3, <4>1 DEF SignedIn
      <4> QED
        BY <1>1, <2>3, <3>1, <3>2, <4>2 DEF Sound
    <3>4. CASE Carried(old, status, change, db)
      <4>1. CommandShape(q) /\ q.at = "done" /\ q.cmd = old.cmd
        BY <3>1, <3>4, RequestMoves DEF Carried
      <4>2. Carried(q, status, change, db)
        BY <3>4, <4>1 DEF Carried
      <4> QED
        BY <1>1, <2>3, <3>1, <3>2, <4>2 DEF Sound
    <3> QED
      BY <2>1, <3>1, <3>2, <3>3, <3>4 DEF Sound
  <2> QED
    BY <2>2, <2>3
<1>3. req' = [r \in Requests |-> req'[r]]
  BY <1>1
<1> QED
  BY <1>1, <1>2, <1>3 DEF BackOfficeInv

(* Sessions, logins and approvals are Redis's, and leave tables and ledger alone. *)
LEMMA RedisSteps ==
    ASSUME \/ \E l \in Logins : Login(l)
           \/ \E s \in sessions : EndSession(s)
           \/ \E s \in sessions, k \in Gated \cap menu, p \in Approvals : Approve(s, k, p)
           \/ RedisExpires
           \/ UNCHANGED backOfficeVars
    PROVE  UNCHANGED <<store, req, entries, applied>>
BY DEF Login, EndSession, Approve, RedisExpires, backOfficeVars

(* Only a commit changes a table. *)
LEMMA OnlyCommitsWrite ==
    ASSUME [BackOfficeNext]_backOfficeVars
    PROVE  store' = store \/ \E r \in Requests : Commit(r)
<1>1. CASE \E l \in Logins, r \in Requests : CallbackBegins(r, l)
  BY <1>1 DEF CallbackBegins
<1>2. CASE \E r \in Requests : \E s, k, p : Open(r, s, k, p)
  BY <1>2 DEF Open
<1>3. CASE \E r \in Requests : CallbackEnds(r) \/ Consume(r) \/ Wait(r) \/ Read(r)
  BY <1>3 DEF CallbackEnds, Consume, Wait, Read
<1>4. CASE \E r \in Requests : RollBack(r) \/ SecretSucceeds(r) \/ FailCommand(r)
  BY <1>4 DEF RollBack, SecretSucceeds, FailCommand
<1>5. CASE Restart
  BY <1>5 DEF Restart
<1> QED
  BY <1>1, <1>2, <1>3, <1>4, <1>5, RedisSteps DEF BackOfficeNext

(* Every step of the back office keeps the invariant. *)
LEMMA BackOfficeKept ==
    ASSUME BackOfficeInv, [BackOfficeNext]_backOfficeVars
    PROVE  BackOfficeInv'
<1>1. CASE \E r \in Requests : CallbackEnds(r) \/ \E l \in Logins : CallbackBegins(r, l)
  BY <1>1, SigningInStep
<1>2. CASE \E r \in Requests, k \in AllCommands : \E s, p : Open(r, s, k, p)
  BY <1>2, OpenStep
<1>3. CASE \E r \in Requests : Consume(r)
  BY <1>3, ConsumeStep
<1>4. CASE \E r \in Requests : Wait(r)
  BY <1>4, WaitStep
<1>5. CASE \E r \in Requests : Read(r)
  BY <1>5, ReadStep
<1>6. CASE \E r \in Requests : Commit(r)
  BY <1>6, CommitStep
<1>7. CASE \E r \in Requests : RollBack(r)
  BY <1>7, RollBackStep
<1>8. CASE \E r \in Requests : SecretSucceeds(r) \/ FailCommand(r)
  BY <1>8, EndStep
<1>9. CASE Restart
  BY <1>9, RestartStep
<1>10. CASE UNCHANGED <<store, req, entries, applied>>
  BY <1>10 DEF BackOfficeInv, Consistent, Provided, InForce, ActiveSecret, Sound, SignedIn, Carried,
     Uncommitted, SeenThen, EverActive
<1>11. ASSUME \/ \E r \in Requests, s \in sessions, k \in Gated \cap menu, p \in Approvals :
                    Open(r, s, k, p)
              \/ \E r \in Requests, s \in sessions, k \in (Ungated \cup Unaudited) \cap menu :
                    Open(r, s, k, Unapproved)
       PROVE  \E r \in Requests, k \in AllCommands : \E s, p : Open(r, s, k, p)
  BY <1>11 DEF AllCommands
<1> QED
  BY <1>1, <1>2, <1>3, <1>4, <1>5, <1>6, <1>7, <1>8, <1>9, <1>10, <1>11, RedisSteps
     DEF BackOfficeNext

(* The tables are consistent and the ledger is sound, at every moment. *)
THEOREM BackOfficeConsistentAlways == BackOfficeSpec => []BackOfficeInv
BY BackOfficeStarts, BackOfficeKept, PTL DEF BackOfficeSpec

(* The command ledger says SUCCEEDED of exactly the commands whose change is   *)
(* committed, whatever was lost or raced in between.                           *)
THEOREM LedgerTellsTruthAlways == BackOfficeSpec => []LedgerTellsTruth
<1>1. BackOfficeInv => LedgerTellsTruth
  BY DEF BackOfficeInv, LedgerTellsTruth, Sound, SignedIn, Carried, Tells
<1> QED
  BY <1>1, BackOfficeConsistentAlways, PTL

(* A set without two different members has at most one. *)
LEMMA AtMostOne ==
    ASSUME NEW S, \A x, y \in S : x = y
    PROVE  Cardinality(S) <= 1
<1>1. CASE S = {}
  BY <1>1, FS_EmptySet
<1>2. CASE S # {}
  <2>1. PICK x \in S : S = {x}
    BY <1>2
  <2>2. Cardinality({x}) = 1
    BY FS_Singleton
  <2> QED
    BY <2>1, <2>2
<1> QED
  BY <1>1, <1>2

(* However the activations of two of them overlap, one snapshot of a universe  *)
(* is in force, and one version of a secret: the key of the active marker      *)
(* refuses the writer that did not read the one it is to replace.              *)
THEOREM OneInForceAlways == BackOfficeSpec => []OneInForce
<1>1. BackOfficeInv => OneInForce
  BY AtMostOne DEF BackOfficeInv, Consistent, OneInForce
<1> QED
  BY <1>1, BackOfficeConsistentAlways, PTL

(* An account that may trade exists and has a provider: no binding is ever     *)
(* taken away, and no account that has one is deleted.                         *)
THEOREM EnabledIsBoundAlways == BackOfficeSpec => []EnabledIsBound
<1>1. BackOfficeInv => EnabledIsBound
  BY DEF BackOfficeInv, Consistent, Provided, EnabledIsBound
<1> QED
  BY <1>1, BackOfficeConsistentAlways, PTL

(* A day that joins those ever in force is later than the list in force, so    *)
(* what was in force up to that one is what it was.                            *)
LEMMA HistoryKept ==
    ASSUME BackOfficeInv, [BackOfficeNext]_backOfficeVars,
           NEW d \in InForce(store.universe), NEW as_of \in Dates, as_of <= d
    PROVE  snapshot_in_force(store.universe', as_of)
               = snapshot_in_force(store.universe, as_of)
<1>1. CASE store' = store
  BY <1>1
<1>2. CASE \E r \in Requests : Commit(r)
  <2>1. PICK old, new : old = EverActive(store) /\ new = EverActive(store')
    OBVIOUS
  <2>2. \/ new = old
        \/ \E d2 \in Dates : new = old \cup {d2} /\ (d = d2 \/ d < d2)
    BY <1>2, <2>1, CommitAdvances
  <2>3. d \in old /\ d \in Dates /\ Dates \subseteq Nat
    BY <2>1, BackOfficeAssumption DEF InForce, EverActive, BackOfficeAssumption
  <2>4. \A c \in Dates : c <= as_of => (c \in new <=> c \in old)
    BY <2>2, <2>3
  <2>5. /\ \A c \in Dates :
              c \in old <=> store.universe[c].state \in {"ACTIVE", "SUPERSEDED"}
        /\ \A c \in Dates :
              c \in new <=> store.universe'[c].state \in {"ACTIVE", "SUPERSEDED"}
    BY <2>1 DEF EverActive
  <2> QED
    BY <2>4, <2>5 DEF snapshot_in_force
<1> QED
  BY <1>1, <1>2, OnlyCommitsWrite

(* Once a list is in force, what was in force on any day up to it is settled:  *)
(* a decision of the past is judged by the same list for ever.                 *)
THEOREM HistoryIsSettledAlways == BackOfficeSpec => HistoryIsSettled
<1>1. ASSUME BackOfficeInv, [BackOfficeNext]_backOfficeVars
      PROVE  [\A d \in InForce(store.universe), as_of \in Dates :
                 as_of <= d =>
                     snapshot_in_force(store.universe', as_of)
                         = snapshot_in_force(store.universe, as_of)]_backOfficeVars
  BY <1>1, HistoryKept
<1> QED
  BY <1>1, BackOfficeConsistentAlways, PTL DEF BackOfficeSpec, HistoryIsSettled

(* What was not spent yet let nobody through, and what was spent is not given  *)
(* again: Redis gives and deletes in one step (GETDEL).                        *)
SpendInv ==
    /\ logins = [l \in Logins |-> logins[l]]
    /\ granted = [p \in Approvals |-> granted[p]]
    /\ spentBy = [x \in Logins \cup Approvals |-> spentBy[x]]
    /\ \A l \in Logins : logins[l] # "SPENT" => spentBy[l] = {}
    /\ \A p \in Approvals : granted[p] # Spent => spentBy[p] = {}
    /\ \A x \in Logins \cup Approvals : \A r1, r2 \in spentBy[x] : r1 = r2

(* A login state is redeemed by at most one callback and an approval lets at   *)
(* most one command through, however many requests carry it at once            *)
(* (take_login, ApprovalStore.consume).                                        *)
THEOREM SpentOnceAlways == BackOfficeSpec => []SpentOnce
<1>1. Logins \cap Approvals = {}
  BY BackOfficeAssumption DEF BackOfficeAssumption
<1>2. \A s, k, facts : Binding(s, k, facts) # Spent /\ Binding(s, k, facts) # Unissued
  BY DEF Binding, Spent, Unissued
<1>3. Unissued # Spent
  BY DEF Spent, Unissued
<1>4. BackOfficeInit => SpendInv
  BY <1>3 DEF BackOfficeInit, SpendInv
<1>5. ASSUME SpendInv, BackOfficeInv, [BackOfficeNext]_backOfficeVars
      PROVE  SpendInv'
  <2>1. CASE \E l \in Logins : Login(l)
    <3>1. PICK l \in Logins : Login(l)
      BY <2>1
    <3>2. /\ logins' = [logins EXCEPT ![l] = "IN_FLIGHT"] /\ logins[l] = "NEW"
          /\ granted' = granted /\ spentBy' = spentBy
      BY <3>1 DEF Login
    <3> QED
      BY <1>5, <3>2 DEF SpendInv
  <2>2. CASE \E r \in Requests, l \in Logins : CallbackBegins(r, l)
    <3>1. PICK r \in Requests, l \in Logins : CallbackBegins(r, l)
      BY <2>2
    <3>2. /\ logins' = [logins EXCEPT ![l] = "SPENT"] /\ logins[l] = "IN_FLIGHT"
          /\ granted' = granted /\ spentBy' = [spentBy EXCEPT ![l] = @ \cup {r}]
      BY <3>1 DEF CallbackBegins, TakeLogin
    <3>3. spentBy' = [spentBy EXCEPT ![l] = {r}]
      BY <1>5, <3>2 DEF SpendInv
    <3>4. /\ spentBy' = [x \in Logins \cup Approvals |-> IF x = l THEN {r} ELSE spentBy[x]]
          /\ logins' = [x \in Logins |-> IF x = l THEN "SPENT" ELSE logins[x]]
      BY <1>5, <3>2, <3>3 DEF SpendInv
    <3>5. \A x \in Logins : x # l => spentBy'[x] = spentBy[x] /\ logins'[x] = logins[x]
      BY <3>4
    <3>6. \A p \in Approvals : spentBy'[p] = spentBy[p] /\ granted'[p] = granted[p]
      BY <1>1, <3>2, <3>4
    <3>7. logins'[l] = "SPENT" /\ spentBy'[l] = {r}
      BY <3>4
    <3>8. /\ logins' = [x \in Logins |-> logins'[x]]
          /\ granted' = [x \in Approvals |-> granted'[x]]
          /\ spentBy' = [x \in Logins \cup Approvals |-> spentBy'[x]]
      BY <1>5, <3>2, <3>4 DEF SpendInv
    <3>9. /\ \A x \in Logins : logins'[x] # "SPENT" => spentBy'[x] = {}
          /\ \A p \in Approvals : granted'[p] # Spent => spentBy'[p] = {}
      BY <1>5, <3>5, <3>6, <3>7 DEF SpendInv
    <3>10. ASSUME NEW x \in Logins \cup Approvals, NEW r1 \in spentBy'[x], NEW r2 \in spentBy'[x]
           PROVE  r1 = r2
      <4>1. CASE x = l
        BY <3>7, <3>10, <4>1
      <4>2. CASE x # l
        BY <1>5, <3>5, <3>6, <3>10, <4>2 DEF SpendInv
      <4> QED
        BY <4>1, <4>2
    <3> QED
      BY <3>8, <3>9, <3>10 DEF SpendInv
  <2>3. CASE \E p \in Approvals : \E s, k : Approve(s, k, p)
    <3>1. PICK p \in Approvals : \E s, k : Approve(s, k, p)
      BY <2>3
    <3>2. PICK b : /\ granted' = [granted EXCEPT ![p] = b] /\ granted[p] = Unissued
                   /\ logins' = logins /\ spentBy' = spentBy
      BY <3>1 DEF Approve
    <3> QED
      BY <1>3, <1>5, <3>2 DEF SpendInv
  <2>4. CASE \E r \in Requests : Consume(r)
    <3>1. PICK r \in Requests : Consume(r)
      BY <2>4
    <3>2. PICK p : p = req[r].approval
      OBVIOUS
    <3>3. CASE granted[p] = Binding(req[r].session, req[r].cmd, req[r].facts)
      <4>1. /\ granted' = [granted EXCEPT ![p] = Spent] /\ logins' = logins
            /\ spentBy' = [spentBy EXCEPT ![p] = @ \cup {r}] /\ granted[p] # Spent
        BY <1>2, <3>1, <3>2, <3>3 DEF Consume, Redeem
      <4>2. CASE p \in Approvals
        <5>1. spentBy' = [spentBy EXCEPT ![p] = {r}]
          BY <1>5, <4>1, <4>2 DEF SpendInv
        <5>2. /\ spentBy' = [x \in Logins \cup Approvals |-> IF x = p THEN {r} ELSE spentBy[x]]
              /\ granted' = [x \in Approvals |-> IF x = p THEN Spent ELSE granted[x]]
          BY <1>5, <4>1, <4>2, <5>1 DEF SpendInv
        <5>3. \A x \in Logins : spentBy'[x] = spentBy[x] /\ logins'[x] = logins[x]
          BY <1>1, <4>1, <4>2, <5>2
        <5>4. \A x \in Approvals : x # p => spentBy'[x] = spentBy[x] /\ granted'[x] = granted[x]
          BY <5>2
        <5>5. granted'[p] = Spent /\ spentBy'[p] = {r}
          BY <4>2, <5>2
        <5>6. /\ logins' = [x \in Logins |-> logins'[x]]
              /\ granted' = [x \in Approvals |-> granted'[x]]
              /\ spentBy' = [x \in Logins \cup Approvals |-> spentBy'[x]]
          BY <1>5, <4>1, <5>2 DEF SpendInv
        <5>7. /\ \A x \in Logins : logins'[x] # "SPENT" => spentBy'[x] = {}
              /\ \A x \in Approvals : granted'[x] # Spent => spentBy'[x] = {}
          BY <1>5, <5>3, <5>4, <5>5 DEF SpendInv
        <5>8. ASSUME NEW x \in Logins \cup Approvals,
                     NEW r1 \in spentBy'[x], NEW r2 \in spentBy'[x]
              PROVE  r1 = r2
          <6>1. CASE x = p
            BY <5>5, <5>8, <6>1
          <6>2. CASE x # p
            BY <1>5, <5>3, <5>4, <5>8, <6>2 DEF SpendInv
          <6> QED
            BY <6>1, <6>2
        <5> QED
          BY <5>6, <5>7, <5>8 DEF SpendInv
      <4>3. p \in Approvals
        BY <1>5, <3>1, <3>2 DEF Consume, BackOfficeInv, Sound, SignedIn, Carried
      <4> QED
        BY <4>2, <4>3
    <3>4. CASE granted[p] # Binding(req[r].session, req[r].cmd, req[r].facts)
      <4>1. /\ granted' = [granted EXCEPT ![p] = IF @ = Unissued THEN @ ELSE Spent]
            /\ logins' = logins /\ spentBy' = spentBy
        BY <3>1, <3>2, <3>4 DEF Consume
      <4> QED
        BY <1>5, <4>1 DEF SpendInv
    <3> QED
      BY <3>3, <3>4
  <2>5. CASE RedisExpires
    <3>1. spentBy' = spentBy
      BY <2>5 DEF RedisExpires
    <3>2. \/ logins' = logins /\ \E p \in Approvals : granted' = [granted EXCEPT ![p] = Spent]
          \/ granted' = granted /\ \E l \in Logins : logins' = [logins EXCEPT ![l] = "SPENT"]
      BY <2>5 DEF RedisExpires
    <3> QED
      BY <1>5, <3>1, <3>2 DEF SpendInv
  <2>6. CASE UNCHANGED <<logins, granted, spentBy>>
    BY <1>5, <2>6 DEF SpendInv
  <2> QED
    BY <1>5, <2>1, <2>2, <2>3, <2>4, <2>5, <2>6 DEF BackOfficeNext, backOfficeVars, redis,
       EndSession, Open, CallbackEnds, Wait, Read, Commit, RollBack, SecretSucceeds, FailCommand,
       Restart
<1>6. SpendInv => SpentOnce
  BY AtMostOne DEF SpendInv, SpentOnce
<1> QED
  BY <1>4, <1>5, <1>6, BackOfficeConsistentAlways, PTL DEF BackOfficeSpec
=============================================================================
