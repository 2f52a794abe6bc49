-------------------------- MODULE AutomationProofs --------------------------
(***************************************************************************)
(* Theorems about Automation for every value of its constants: types, one  *)
(* submission per contract call, the finality of finished executions, and  *)
(* approval before submission.                                             *)
(***************************************************************************)
EXTENDS Automation, FiniteSetTheorems, TLAPS

\* The groups of variables, throughout.
USE DEF rows, world, callers

-----------------------------------------------------------------------------
(* Layer 1: types, with what a program counter says of the caller's        *)
(* locals and of the rule's action.  Versions are left for the slots.      *)

CallsWellFormed ==
    /\ rule.version + (MaxSlot + 1 - rule.next) <= MaxVersion
    /\ \A c \in Callers :
           /\ pc[c] \in Working \cup {"claim"} => on[c] \in Executions
           /\ pc[c] \in {"schedule", "trigger"} => seen[c] \in ScheduleRead
           /\ pc[c] \in {"record", "send"} => rule.action = "CONTRACT_CALL"
           /\ pc[c] \in {"pay", "judge", "defer"} => rule.action # "CONTRACT_CALL"

TypeInv == TypeOK /\ CallsWellFormed

(***************************************************************************)
(* The types hold initially.                                               *)
(***************************************************************************)
LEMMA TypeInit == Init => TypeInv
<1> SUFFICES ASSUME Init PROVE TypeInv
    OBVIOUS
<1> USE ConstantsAssumption DEF ConstantsAssumption
<1>1. rule \in AutomationRule /\ rule.version = 1 /\ rule.next = 1
  BY DEF Init, AutomationRule, RuleStatus
<1>2. TypeOK
  BY <1>1 DEF Init, TypeOK, ExecutionStatus, Codes, PaymentState, ChainState
<1>3. CallsWellFormed
  BY <1>1 DEF Init, CallsWellFormed, Working
<1> QED
  BY <1>2, <1>3 DEF TypeInv

(***************************************************************************)
(* The bounds of a rule's version and of its next run.                     *)
(***************************************************************************)
LEMMA RuleColumns ==
    ASSUME NEW r \in AutomationRule
    PROVE  r.version \in 1 .. MaxVersion /\ r.next \in 1 .. (MaxSlot + 1)
BY DEF AutomationRule

(***************************************************************************)
(* Every step keeps the types and the well-formedness of callers.          *)
(***************************************************************************)
LEMMA TypeStep == TypeInv /\ [Next]_vars => TypeInv'
<1>t. SUFFICES ASSUME TypeInv, [Next]_vars PROVE TypeInv'
    OBVIOUS
<1> USE ConstantsAssumption DEF ConstantsAssumption
<1>1. ASSUME NEW s \in {"ACTIVE", "PAUSED", "ARCHIVED"}, PatchRule(s)
      PROVE  TypeInv'
  <2>0. rule \in AutomationRule /\ s \in RuleStatus /\ rule.version + 1 \in 1 .. MaxVersion
    BY <1>1, <1>t, RuleColumns DEF PatchRule, VersionsLeft, TypeInv, TypeOK, RuleStatus
  <2>1. /\ rule' \in AutomationRule /\ rule'.version = rule.version + 1
        /\ rule'.next = rule.next /\ rule'.action = rule.action
    BY <1>1, <2>0 DEF PatchRule, AutomationRule
  <2>2. TypeOK'
    BY <1>1, <1>t, <2>1 DEF PatchRule, TypeInv, TypeOK
  <2>3. CallsWellFormed'
    BY <1>1, <1>t, <2>0, <2>1, RuleColumns DEF PatchRule, VersionsLeft, TypeInv, CallsWellFormed
  <2> QED
    BY <2>2, <2>3 DEF TypeInv
<1>2. ASSUME SetKillSwitch
      PROVE  TypeInv'
  BY <1>2, <1>t DEF SetKillSwitch, TypeInv, TypeOK, CallsWellFormed, Working,
     Executions, ExecutionStatus, Codes, PaymentState, ChainState,
     ScheduleRead, Observation
<1>3. ASSUME DeleteOrganization
      PROVE  TypeInv'
  <2>0. rule \in AutomationRule /\ "ARCHIVED" \in RuleStatus /\ rule.version + 1 \in 1 .. MaxVersion
    BY <1>3, <1>t, RuleColumns
    DEF DeleteOrganization, VersionsLeft, TypeInv, TypeOK, RuleStatus
  <2>1. /\ rule' \in AutomationRule /\ rule'.version \in {rule.version, rule.version + 1}
        /\ rule'.next = rule.next /\ rule'.action = rule.action
    BY <1>3, <2>0 DEF DeleteOrganization, AutomationRule
  <2>2. TypeOK'
    <3>1. status' \in [Executions -> ExecutionStatus] /\ code' \in [Executions -> Codes]
      BY <1>3, <1>t DEF DeleteOrganization, TypeInv, TypeOK, ExecutionStatus, Codes
    <3> QED
      BY <1>3, <1>t, <2>1, <3>1 DEF DeleteOrganization, TypeInv, TypeOK
  <2>3. CallsWellFormed'
    BY <1>3, <1>t, <2>0, <2>1, RuleColumns
    DEF DeleteOrganization, VersionsLeft, TypeInv, CallsWellFormed
  <2> QED
    BY <2>2, <2>3 DEF TypeInv
<1>4. ASSUME NEW c \in Callers, NEW e \in Executions, NEW u \in Users \cup {None}, Trigger(c, e, u)
      PROVE  TypeInv'
  BY <1>4, <1>t DEF Trigger, TriggerAutomation, Enter, Return, TypeInv, TypeOK,
     CallsWellFormed, Working, Executions, ExecutionStatus, Codes,
     PaymentState, ChainState, ScheduleRead, Observation
<1>5. ASSUME NEW c \in Callers, ReadSchedule(c)
      PROVE  TypeInv'
  <2>1. [version |-> rule.version, slot |-> rule.next] \in ScheduleRead
    BY <1>5, <1>t, RuleColumns DEF ReadSchedule, TypeInv, TypeOK, ScheduleRead
  <2> QED
    BY <1>5, <1>t, <2>1 DEF ReadSchedule, TypeInv, TypeOK, CallsWellFormed, Working
<1>6. ASSUME NEW c \in Callers, TakeSlot(c)
      PROVE  TypeInv'
  <2>1. CASE Unchanged(c)
    <3>1. seen[c] \in ScheduleRead
      BY <1>6, <1>t DEF TakeSlot, TypeInv, CallsWellFormed
    <3>2. rule.next + 1 \in 1 .. (MaxSlot + 1) /\ rule \in AutomationRule
      BY <1>t, <2>1, <3>1 DEF Unchanged, ScheduleRead, Slots, TypeInv, TypeOK
    <3>3. rule.version + 1 \in 1 .. MaxVersion
      BY <1>t, <3>2, RuleColumns DEF TypeInv, CallsWellFormed
    <3>4. /\ rule' \in AutomationRule /\ rule'.version = rule.version + 1
          /\ rule'.next = rule.next + 1 /\ rule'.action = rule.action
      BY <1>6, <2>1, <3>2, <3>3 DEF TakeSlot, AutomationRule
    <3>5. TypeOK'
      BY <1>6, <1>t, <2>1, <3>4 DEF TakeSlot, Goto, TypeInv, TypeOK
    <3>6. CallsWellFormed'
      BY <1>6, <1>t, <2>1, <3>1, <3>2, <3>4, RuleColumns
      DEF TakeSlot, Goto, TypeInv, TypeOK, CallsWellFormed, Working
    <3> QED
      BY <3>5, <3>6 DEF TypeInv
  <2>2. CASE ~Unchanged(c)
    BY <1>6, <1>t, <2>2 DEF TakeSlot, Return, TypeInv, TypeOK, CallsWellFormed, Working
  <2> QED
    BY <2>1, <2>2
<1>7. ASSUME NEW c \in Callers, TriggerSlot(c)
      PROVE  TypeInv'
  BY <1>7, <1>t DEF TriggerSlot, TriggerAutomation, Enter, Return, TypeInv,
     TypeOK, CallsWellFormed, Working, Executions, ExecutionStatus, Codes,
     PaymentState, ChainState, ScheduleRead, Observation
<1>8. ASSUME NEW c \in Callers, LoseSlot(c)
      PROVE  TypeInv'
  BY <1>8, <1>t DEF LoseSlot, Return, TypeInv, TypeOK, CallsWellFormed, Working,
     Executions, ExecutionStatus, Codes, PaymentState, ChainState,
     ScheduleRead, Observation
<1>9. ASSUME NEW c \in Callers, NEW e \in Executions, NEW u \in Users, Approve(c, e, u)
      PROVE  TypeInv'
  BY <1>9, <1>t DEF Approve, Enter, Return, TypeInv, TypeOK, CallsWellFormed,
     Working, Executions, ExecutionStatus, Codes, PaymentState, ChainState,
     ScheduleRead, Observation
<1>10. ASSUME NEW e \in Executions, NEW u \in Users, Reject(e, u)
      PROVE  TypeInv'
  BY <1>10, <1>t DEF Reject, TypeInv, TypeOK, CallsWellFormed, Working,
     Executions, ExecutionStatus, Codes, PaymentState, ChainState,
     ScheduleRead, Observation
<1>11. ASSUME NEW c \in Callers, Claim(c)
      PROVE  TypeInv'
  BY <1>11, <1>t DEF Claim, Claimable, Goto, Return, TypeInv, TypeOK,
     CallsWellFormed, Working, Executions, ExecutionStatus, Codes,
     PaymentState, ChainState, ScheduleRead, Observation
<1>12. ASSUME NEW c \in Callers, Check(c)
      PROVE  TypeInv'
  BY <1>12, <1>t DEF Check, Goto, TypeInv, TypeOK, CallsWellFormed, Working,
     Executions, ExecutionStatus, Codes, PaymentState, ChainState,
     ScheduleRead, Observation
<1>13. ASSUME NEW c \in Callers, Record(c)
      PROVE  TypeInv'
  BY <1>13, <1>t DEF Record, Goto, TypeInv, TypeOK, CallsWellFormed, Working,
     Executions, ExecutionStatus, Codes, PaymentState, ChainState,
     ScheduleRead, Observation
<1>14. ASSUME NEW c \in Callers, Send(c)
      PROVE  TypeInv'
  BY <1>14, <1>t DEF Send, Goto, TypeInv, TypeOK, CallsWellFormed, Working,
     Executions, ExecutionStatus, Codes, PaymentState, ChainState,
     ScheduleRead, Observation
<1>15. ASSUME NEW c \in Callers, Await(c)
      PROVE  TypeInv'
  BY <1>15, <1>t DEF Await, Goto, TypeInv, TypeOK, CallsWellFormed, Working,
     Executions, ExecutionStatus, Codes, PaymentState, ChainState,
     ScheduleRead, Observation
<1>16. ASSUME NEW c \in Callers, Pay(c)
      PROVE  TypeInv'
  BY <1>16, <1>t DEF Pay, Goto, TypeInv, TypeOK, CallsWellFormed, Working,
     Executions, ExecutionStatus, Codes, PaymentState, ChainState,
     ScheduleRead, Observation
<1>17. ASSUME NEW c \in Callers, Judge(c)
      PROVE  TypeInv'
  BY <1>17, <1>t DEF Judge, Goto, AutomationPaymentOutcome, TypeInv, TypeOK,
     CallsWellFormed, Working, Executions, ExecutionStatus, Codes,
     PaymentState, ChainState, ScheduleRead, Observation
<1>18. ASSUME NEW c \in Callers, Defer(c)
      PROVE  TypeInv'
  BY <1>18, <1>t DEF Defer, Finish, Return, TypeInv, TypeOK, CallsWellFormed,
     Working, Executions, ExecutionStatus, Codes, PaymentState, ChainState,
     ScheduleRead, Observation
<1>19. ASSUME NEW c \in Callers, MarkUnknown(c)
      PROVE  TypeInv'
  BY <1>19, <1>t DEF MarkUnknown, Finish, Return, TypeInv, TypeOK,
     CallsWellFormed, Working, Executions, ExecutionStatus, Codes,
     PaymentState, ChainState, ScheduleRead, Observation
<1>20. ASSUME NEW c \in Callers, Fail(c)
      PROVE  TypeInv'
  BY <1>20, <1>t DEF Fail, Finish, Return, TypeInv, TypeOK, CallsWellFormed,
     Working, Executions, ExecutionStatus, Codes, PaymentState, ChainState,
     ScheduleRead, Observation
<1>21. ASSUME NEW c \in Callers, Complete(c)
      PROVE  TypeInv'
  BY <1>21, <1>t DEF Complete, Finish, Goto, Return, TypeInv, TypeOK,
     CallsWellFormed, Working, Executions, ExecutionStatus, Codes,
     PaymentState, ChainState, ScheduleRead, Observation
<1>22. ASSUME NEW c \in Callers, Stop(c)
      PROVE  TypeInv'
  BY <1>22, <1>t DEF Stop, Return, TypeInv, TypeOK, CallsWellFormed, Working,
     Executions, ExecutionStatus, Codes, PaymentState, ChainState,
     ScheduleRead, Observation
<1>23. ASSUME NEW c \in Callers, NEW e \in Executions, Resume(c, e)
      PROVE  TypeInv'
  BY <1>23, <1>t DEF Resume, Deferred, Enter, Return, TypeInv, TypeOK,
     CallsWellFormed, Working, Executions, ExecutionStatus, Codes,
     PaymentState, ChainState, ScheduleRead, Observation
<1>24. ASSUME NEW k \in Jobs, NEW e \in Executions, Observe(k, e)
      PROVE  TypeInv'
  BY <1>24, <1>t DEF Observe, InDoubt, ContractMirrorOutcome, TypeInv, TypeOK,
     CallsWellFormed, Working, Executions, ExecutionStatus, Codes,
     PaymentState, ChainState, ScheduleRead, Observation
<1>25. ASSUME NEW k \in Jobs, Reconcile(k)
      PROVE  TypeInv'
  BY <1>25, <1>t DEF Reconcile, InDoubt, TypeInv, TypeOK, CallsWellFormed,
     Working, Executions, ExecutionStatus, Codes, PaymentState, ChainState,
     ScheduleRead, Observation
<1>26. ASSUME NEW e \in Executions, ChainDecides(e)
      PROVE  TypeInv'
  BY <1>26, <1>t DEF ChainDecides, TypeInv, TypeOK, CallsWellFormed, Working,
     Executions, ExecutionStatus, Codes, PaymentState, ChainState,
     ScheduleRead, Observation
<1>27. ASSUME NEW e \in Executions, PaymentMoves(e)
      PROVE  TypeInv'
  BY <1>27, <1>t DEF PaymentMoves, PaymentSteps, TypeInv, TypeOK,
     CallsWellFormed, Working, Executions, ExecutionStatus, Codes,
     PaymentState, ChainState, ScheduleRead, Observation
<1>28. ASSUME NEW e \in Executions, Elapse(e)
      PROVE  TypeInv'
  BY <1>28, <1>t DEF Elapse, TypeInv, TypeOK, CallsWellFormed, Working,
     Executions, ExecutionStatus, Codes, PaymentState, ChainState,
     ScheduleRead, Observation
<1>29. ASSUME UNCHANGED vars PROVE TypeInv'
  BY <1>29, <1>t DEF vars, TypeInv, TypeOK, CallsWellFormed, Working,
     Executions, ExecutionStatus, Codes, PaymentState, ChainState,
     ScheduleRead, Observation
<1> QED
  BY <1>t, <1>1, <1>2, <1>3, <1>4, <1>5, <1>6, <1>7, <1>8, <1>9, <1>10, <1>11,
     <1>12, <1>13, <1>14, <1>15, <1>16, <1>17, <1>18, <1>19, <1>20, <1>21,
     <1>22, <1>23, <1>24, <1>25, <1>26, <1>27, <1>28, <1>29 DEF Next, Call,
     Proceed

(***************************************************************************)
(* Every reachable state is well typed.                                    *)
(***************************************************************************)
THEOREM TypeCorrectness == Spec => []TypeOK
<1>1. TypeInv => TypeOK
  BY DEF TypeInv
<1> QED
  BY <1>1, TypeInit, TypeStep, PTL DEF Spec

\* The same with what the layer adds, for the layer above.
LEMMA TypeInvariant == Spec => []TypeInv
  BY TypeInit, TypeStep, PTL DEF Spec

-----------------------------------------------------------------------------
(* Layer 2: claims.  An execution in the hands of a call is EXECUTING, no  *)
(* two calls hold one, and a contract call once handed over is behind it.  *)

Busy(c) == pc[c] \in Working

ClaimInv ==
    /\ \A c \in Callers : Busy(c) => status[on[c]] = "EXECUTING"
    /\ \A c, d \in Callers : Busy(c) /\ Busy(d) /\ on[c] = on[d] => c = d
    /\ \A c \in Callers : pc[c] \in {"check", "record", "send"} => sends[on[c]] = 0
    /\ \A e \in Executions :
           /\ sends[e] <= 1
           /\ sends[e] > 0 => /\ rule.action = "CONTRACT_CALL"
                              /\ status[e] \in {"EXECUTING", "SUBMISSION_UNKNOWN",
                                                "SUCCEEDED", "FAILED"}

(***************************************************************************)
(* The claims hold initially.                                              *)
(***************************************************************************)
LEMMA ClaimInit == Init => ClaimInv
BY DEF Init, ClaimInv, Busy, Working

(***************************************************************************)
(* Every step keeps them.                                                  *)
(***************************************************************************)
LEMMA ClaimStep == TypeInv /\ ClaimInv /\ [Next]_vars => ClaimInv'
<1>t. SUFFICES ASSUME TypeInv, ClaimInv, [Next]_vars PROVE ClaimInv'
    OBVIOUS
<1>1. ASSUME NEW s \in {"ACTIVE", "PAUSED", "ARCHIVED"}, PatchRule(s)
      PROVE  ClaimInv'
  BY <1>1, <1>t DEF PatchRule, VersionsLeft, TypeInv, TypeOK, CallsWellFormed,
     ClaimInv, Busy, Working
<1>2. ASSUME SetKillSwitch
      PROVE  ClaimInv'
  BY <1>2, <1>t DEF SetKillSwitch, TypeInv, TypeOK, CallsWellFormed, ClaimInv,
     Busy, Working
<1>3. ASSUME DeleteOrganization
      PROVE  ClaimInv'
  BY <1>3, <1>t DEF DeleteOrganization, VersionsLeft, TypeInv, TypeOK,
     CallsWellFormed, ClaimInv, Busy, Working
<1>4. ASSUME NEW c \in Callers, NEW e \in Executions, NEW u \in Users \cup {None}, Trigger(c, e, u)
      PROVE  ClaimInv'
  BY <1>4, <1>t DEF Trigger, TriggerAutomation, Enter, Return, TypeInv, TypeOK,
     CallsWellFormed, ClaimInv, Busy, Working
<1>5. ASSUME NEW c \in Callers, ReadSchedule(c)
      PROVE  ClaimInv'
  BY <1>5, <1>t DEF ReadSchedule, TypeInv, TypeOK, CallsWellFormed, ClaimInv,
     Busy, Working
<1>6. ASSUME NEW c \in Callers, TakeSlot(c)
      PROVE  ClaimInv'
  <2>1. rule'.action = rule.action
    BY <1>6, <1>t DEF TakeSlot, TypeInv, TypeOK, AutomationRule
  <2> QED
    BY <1>6, <1>t, <2>1 DEF TakeSlot, Goto, Return, TypeInv, TypeOK, CallsWellFormed,
       ClaimInv, Busy, Working
<1>7. ASSUME NEW c \in Callers, TriggerSlot(c)
      PROVE  ClaimInv'
  BY <1>7, <1>t DEF TriggerSlot, TriggerAutomation, Enter, Return, TypeInv,
     TypeOK, CallsWellFormed, ClaimInv, Busy, Working
<1>8. ASSUME NEW c \in Callers, LoseSlot(c)
      PROVE  ClaimInv'
  BY <1>8, <1>t DEF LoseSlot, Return, TypeInv, TypeOK, CallsWellFormed,
     ClaimInv, Busy, Working
<1>9. ASSUME NEW c \in Callers, NEW e \in Executions, NEW u \in Users, Approve(c, e, u)
      PROVE  ClaimInv'
  BY <1>9, <1>t DEF Approve, Enter, Return, TypeInv, TypeOK, CallsWellFormed,
     ClaimInv, Busy, Working
<1>10. ASSUME NEW e \in Executions, NEW u \in Users, Reject(e, u)
      PROVE  ClaimInv'
  BY <1>10, <1>t DEF Reject, TypeInv, TypeOK, CallsWellFormed, ClaimInv, Busy,
     Working
<1>11. ASSUME NEW c \in Callers, Claim(c)
      PROVE  ClaimInv'
  BY <1>11, <1>t DEF Claim, Claimable, Goto, Return, TypeInv, TypeOK,
     CallsWellFormed, ClaimInv, Busy, Working
<1>12. ASSUME NEW c \in Callers, Check(c)
      PROVE  ClaimInv'
  BY <1>12, <1>t DEF Check, Goto, TypeInv, TypeOK, CallsWellFormed, ClaimInv,
     Busy, Working
<1>13. ASSUME NEW c \in Callers, Record(c)
      PROVE  ClaimInv'
  BY <1>13, <1>t DEF Record, Goto, TypeInv, TypeOK, CallsWellFormed, ClaimInv,
     Busy, Working
<1>14. ASSUME NEW c \in Callers, Send(c)
      PROVE  ClaimInv'
  <2>1. on[c] \in Executions /\ sends[on[c]] = 0 /\ status[on[c]] = "EXECUTING"
    BY <1>14, <1>t DEF Send, TypeInv, CallsWellFormed, ClaimInv, Busy, Working
  <2>2. \A d \in Callers : Busy(d)' => Busy(d)
    BY <1>14, <1>t DEF Send, Goto, TypeInv, TypeOK, Busy, Working
  <2>3. \A d \in Callers : pc'[d] \in {"check", "record", "send"} => on[d] # on[c]
    BY <1>14, <1>t, <2>1 DEF Send, Goto, TypeInv, TypeOK, ClaimInv, Busy, Working
  <2>4. rule.action = "CONTRACT_CALL"
    BY <1>14, <1>t DEF Send, TypeInv, CallsWellFormed
  <2> QED
    BY <1>14, <1>t, <2>1, <2>2, <2>3, <2>4 DEF Send, Goto, TypeInv, TypeOK, CallsWellFormed,
       ClaimInv, Busy, Working
<1>15. ASSUME NEW c \in Callers, Await(c)
      PROVE  ClaimInv'
  BY <1>15, <1>t DEF Await, Goto, TypeInv, TypeOK, CallsWellFormed, ClaimInv,
     Busy, Working
<1>16. ASSUME NEW c \in Callers, Pay(c)
      PROVE  ClaimInv'
  BY <1>16, <1>t DEF Pay, Goto, TypeInv, TypeOK, CallsWellFormed, ClaimInv,
     Busy, Working
<1>17. ASSUME NEW c \in Callers, Judge(c)
      PROVE  ClaimInv'
  BY <1>17, <1>t DEF Judge, Goto, AutomationPaymentOutcome, TypeInv, TypeOK,
     CallsWellFormed, ClaimInv, Busy, Working
<1>18. ASSUME NEW c \in Callers, Defer(c)
      PROVE  ClaimInv'
  BY <1>18, <1>t DEF Defer, Finish, Return, TypeInv, TypeOK, CallsWellFormed,
     ClaimInv, Busy, Working
<1>19. ASSUME NEW c \in Callers, MarkUnknown(c)
      PROVE  ClaimInv'
  BY <1>19, <1>t DEF MarkUnknown, Finish, Return, TypeInv, TypeOK,
     CallsWellFormed, ClaimInv, Busy, Working
<1>20. ASSUME NEW c \in Callers, Fail(c)
      PROVE  ClaimInv'
  BY <1>20, <1>t DEF Fail, Finish, Return, TypeInv, TypeOK, CallsWellFormed,
     ClaimInv, Busy, Working
<1>21. ASSUME NEW c \in Callers, Complete(c)
      PROVE  ClaimInv'
  BY <1>21, <1>t DEF Complete, Finish, Goto, Return, TypeInv, TypeOK,
     CallsWellFormed, ClaimInv, Busy, Working
<1>22. ASSUME NEW c \in Callers, Stop(c)
      PROVE  ClaimInv'
  BY <1>22, <1>t DEF Stop, Return, TypeInv, TypeOK, CallsWellFormed, ClaimInv,
     Busy, Working
<1>23. ASSUME NEW c \in Callers, NEW e \in Executions, Resume(c, e)
      PROVE  ClaimInv'
  BY <1>23, <1>t DEF Resume, Deferred, Enter, Return, TypeInv, TypeOK,
     CallsWellFormed, ClaimInv, Busy, Working
<1>24. ASSUME NEW k \in Jobs, NEW e \in Executions, Observe(k, e)
      PROVE  ClaimInv'
  BY <1>24, <1>t DEF Observe, InDoubt, ContractMirrorOutcome, TypeInv, TypeOK,
     CallsWellFormed, ClaimInv, Busy, Working
<1>25. ASSUME NEW k \in Jobs, Reconcile(k)
      PROVE  ClaimInv'
  BY <1>25, <1>t DEF Reconcile, InDoubt, TypeInv, TypeOK, CallsWellFormed,
     ClaimInv, Busy, Working
<1>26. ASSUME NEW e \in Executions, ChainDecides(e)
      PROVE  ClaimInv'
  BY <1>26, <1>t DEF ChainDecides, TypeInv, TypeOK, CallsWellFormed, ClaimInv,
     Busy, Working
<1>27. ASSUME NEW e \in Executions, PaymentMoves(e)
      PROVE  ClaimInv'
  BY <1>27, <1>t DEF PaymentMoves, PaymentSteps, TypeInv, TypeOK,
     CallsWellFormed, ClaimInv, Busy, Working
<1>28. ASSUME NEW e \in Executions, Elapse(e)
      PROVE  ClaimInv'
  BY <1>28, <1>t DEF Elapse, TypeInv, TypeOK, CallsWellFormed, ClaimInv, Busy,
     Working
<1>29. ASSUME UNCHANGED vars PROVE ClaimInv'
  BY <1>29, <1>t DEF vars, TypeInv, TypeOK, CallsWellFormed, ClaimInv, Busy,
     Working
<1> QED
  BY <1>t, <1>1, <1>2, <1>3, <1>4, <1>5, <1>6, <1>7, <1>8, <1>9, <1>10, <1>11,
     <1>12, <1>13, <1>14, <1>15, <1>16, <1>17, <1>18, <1>19, <1>20, <1>21,
     <1>22, <1>23, <1>24, <1>25, <1>26, <1>27, <1>28, <1>29 DEF Next, Call,
     Proceed

(***************************************************************************)
(* The claims hold in every reachable state.                               *)
(***************************************************************************)
LEMMA ClaimInvariant == Spec => []ClaimInv
  BY TypeInvariant, ClaimInit, ClaimStep, PTL DEF Spec

(***************************************************************************)
(* A contract call is handed over at most once, for any number of callers, *)
(* triggers, approvers and sweeps.                                         *)
(***************************************************************************)
THEOREM ContractSentOnce == Spec => []SentOnce
<1>1. ClaimInv => SentOnce
  BY DEF ClaimInv, SentOnce
<1> QED
  BY <1>1, ClaimInvariant, PTL

(***************************************************************************)
(* No step changes a finished execution: the writes that name a row by its *)
(* id are made by the one call that holds it.                              *)
(***************************************************************************)
LEMMA FinishedStep ==
    TypeInv /\ ClaimInv /\ [Next]_vars =>
        \A x \in Executions :
            status[x] \in {"SUCCEEDED", "FAILED", "CANCELED"} => status'[x] = status[x]
<1>t. SUFFICES ASSUME TypeInv, ClaimInv, [Next]_vars, NEW x \in Executions,
                      status[x] \in {"SUCCEEDED", "FAILED", "CANCELED"}
               PROVE  status'[x] = status[x]
    OBVIOUS
<1>1. ASSUME NEW s \in {"ACTIVE", "PAUSED", "ARCHIVED"}, PatchRule(s)
      PROVE  status'[x] = status[x]
  BY <1>1, <1>t DEF PatchRule, VersionsLeft, TypeInv, TypeOK, CallsWellFormed,
     ClaimInv, Busy, Working
<1>2. ASSUME SetKillSwitch
      PROVE  status'[x] = status[x]
  BY <1>2, <1>t DEF SetKillSwitch, TypeInv, TypeOK, CallsWellFormed, ClaimInv,
     Busy, Working
<1>3. ASSUME DeleteOrganization
      PROVE  status'[x] = status[x]
  BY <1>3, <1>t DEF DeleteOrganization, VersionsLeft, TypeInv, TypeOK,
     CallsWellFormed, ClaimInv, Busy, Working
<1>4. ASSUME NEW c \in Callers, NEW e \in Executions, NEW u \in Users \cup {None}, Trigger(c, e, u)
      PROVE  status'[x] = status[x]
  BY <1>4, <1>t DEF Trigger, TriggerAutomation, Enter, Return, TypeInv, TypeOK,
     CallsWellFormed, ClaimInv, Busy, Working
<1>5. ASSUME NEW c \in Callers, ReadSchedule(c)
      PROVE  status'[x] = status[x]
  BY <1>5, <1>t DEF ReadSchedule, TypeInv, TypeOK, CallsWellFormed, ClaimInv,
     Busy, Working
<1>6. ASSUME NEW c \in Callers, TakeSlot(c)
      PROVE  status'[x] = status[x]
  BY <1>6, <1>t DEF TakeSlot, Unchanged, Goto, Return, TypeInv, TypeOK,
     CallsWellFormed, ClaimInv, Busy, Working
<1>7. ASSUME NEW c \in Callers, TriggerSlot(c)
      PROVE  status'[x] = status[x]
  BY <1>7, <1>t DEF TriggerSlot, TriggerAutomation, Enter, Return, TypeInv,
     TypeOK, CallsWellFormed, ClaimInv, Busy, Working
<1>8. ASSUME NEW c \in Callers, LoseSlot(c)
      PROVE  status'[x] = status[x]
  BY <1>8, <1>t DEF LoseSlot, Return, TypeInv, TypeOK, CallsWellFormed,
     ClaimInv, Busy, Working
<1>9. ASSUME NEW c \in Callers, NEW e \in Executions, NEW u \in Users, Approve(c, e, u)
      PROVE  status'[x] = status[x]
  BY <1>9, <1>t DEF Approve, Enter, Return, TypeInv, TypeOK, CallsWellFormed,
     ClaimInv, Busy, Working
<1>10. ASSUME NEW e \in Executions, NEW u \in Users, Reject(e, u)
      PROVE  status'[x] = status[x]
  BY <1>10, <1>t DEF Reject, TypeInv, TypeOK, CallsWellFormed, ClaimInv, Busy,
     Working
<1>11. ASSUME NEW c \in Callers, Claim(c)
      PROVE  status'[x] = status[x]
  BY <1>11, <1>t DEF Claim, Claimable, Goto, Return, TypeInv, TypeOK,
     CallsWellFormed, ClaimInv, Busy, Working
<1>12. ASSUME NEW c \in Callers, Check(c)
      PROVE  status'[x] = status[x]
  BY <1>12, <1>t DEF Check, Goto, TypeInv, TypeOK, CallsWellFormed, ClaimInv,
     Busy, Working
<1>13. ASSUME NEW c \in Callers, Record(c)
      PROVE  status'[x] = status[x]
  BY <1>13, <1>t DEF Record, Goto, TypeInv, TypeOK, CallsWellFormed, ClaimInv,
     Busy, Working
<1>14. ASSUME NEW c \in Callers, Send(c)
      PROVE  status'[x] = status[x]
  BY <1>14, <1>t DEF Send, Goto, TypeInv, TypeOK, CallsWellFormed, ClaimInv,
     Busy, Working
<1>15. ASSUME NEW c \in Callers, Await(c)
      PROVE  status'[x] = status[x]
  BY <1>15, <1>t DEF Await, Goto, TypeInv, TypeOK, CallsWellFormed, ClaimInv,
     Busy, Working
<1>16. ASSUME NEW c \in Callers, Pay(c)
      PROVE  status'[x] = status[x]
  BY <1>16, <1>t DEF Pay, Goto, TypeInv, TypeOK, CallsWellFormed, ClaimInv,
     Busy, Working
<1>17. ASSUME NEW c \in Callers, Judge(c)
      PROVE  status'[x] = status[x]
  BY <1>17, <1>t DEF Judge, Goto, AutomationPaymentOutcome, TypeInv, TypeOK,
     CallsWellFormed, ClaimInv, Busy, Working
<1>18. ASSUME NEW c \in Callers, Defer(c)
      PROVE  status'[x] = status[x]
  BY <1>18, <1>t DEF Defer, Finish, Return, TypeInv, TypeOK, CallsWellFormed,
     ClaimInv, Busy, Working
<1>19. ASSUME NEW c \in Callers, MarkUnknown(c)
      PROVE  status'[x] = status[x]
  BY <1>19, <1>t DEF MarkUnknown, Finish, Return, TypeInv, TypeOK,
     CallsWellFormed, ClaimInv, Busy, Working
<1>20. ASSUME NEW c \in Callers, Fail(c)
      PROVE  status'[x] = status[x]
  BY <1>20, <1>t DEF Fail, Finish, Return, TypeInv, TypeOK, CallsWellFormed,
     ClaimInv, Busy, Working
<1>21. ASSUME NEW c \in Callers, Complete(c)
      PROVE  status'[x] = status[x]
  BY <1>21, <1>t DEF Complete, Finish, Goto, Return, TypeInv, TypeOK,
     CallsWellFormed, ClaimInv, Busy, Working
<1>22. ASSUME NEW c \in Callers, Stop(c)
      PROVE  status'[x] = status[x]
  BY <1>22, <1>t DEF Stop, Return, TypeInv, TypeOK, CallsWellFormed, ClaimInv,
     Busy, Working
<1>23. ASSUME NEW c \in Callers, NEW e \in Executions, Resume(c, e)
      PROVE  status'[x] = status[x]
  BY <1>23, <1>t DEF Resume, Deferred, Enter, Return, TypeInv, TypeOK,
     CallsWellFormed, ClaimInv, Busy, Working
<1>24. ASSUME NEW k \in Jobs, NEW e \in Executions, Observe(k, e)
      PROVE  status'[x] = status[x]
  BY <1>24, <1>t DEF Observe, InDoubt, ContractMirrorOutcome, TypeInv, TypeOK,
     CallsWellFormed, ClaimInv, Busy, Working
<1>25. ASSUME NEW k \in Jobs, Reconcile(k)
      PROVE  status'[x] = status[x]
  BY <1>25, <1>t DEF Reconcile, InDoubt, TypeInv, TypeOK, CallsWellFormed,
     ClaimInv, Busy, Working
<1>26. ASSUME NEW e \in Executions, ChainDecides(e)
      PROVE  status'[x] = status[x]
  BY <1>26, <1>t DEF ChainDecides, TypeInv, TypeOK, CallsWellFormed, ClaimInv,
     Busy, Working
<1>27. ASSUME NEW e \in Executions, PaymentMoves(e)
      PROVE  status'[x] = status[x]
  BY <1>27, <1>t DEF PaymentMoves, PaymentSteps, TypeInv, TypeOK,
     CallsWellFormed, ClaimInv, Busy, Working
<1>28. ASSUME NEW e \in Executions, Elapse(e)
      PROVE  status'[x] = status[x]
  BY <1>28, <1>t DEF Elapse, TypeInv, TypeOK, CallsWellFormed, ClaimInv, Busy,
     Working
<1>29. ASSUME UNCHANGED vars PROVE status'[x] = status[x]
  BY <1>29, <1>t DEF vars, TypeInv, TypeOK, CallsWellFormed, ClaimInv, Busy,
     Working
<1> QED
  BY <1>t, <1>1, <1>2, <1>3, <1>4, <1>5, <1>6, <1>7, <1>8, <1>9, <1>10, <1>11,
     <1>12, <1>13, <1>14, <1>15, <1>16, <1>17, <1>18, <1>19, <1>20, <1>21,
     <1>22, <1>23, <1>24, <1>25, <1>26, <1>27, <1>28, <1>29 DEF Next, Call,
     Proceed

(***************************************************************************)
(* A finished execution stays as it is.                                    *)
(***************************************************************************)
THEOREM FinishedIsFinal == Spec => FinishedStays
<1>1. TypeInv /\ ClaimInv /\ [Next]_vars =>
          [\A e \in Executions :
              status[e] \in {"SUCCEEDED", "FAILED", "CANCELED"} => status'[e] = status[e]]_vars
  BY FinishedStep
<1> QED
  BY <1>1, TypeInvariant, ClaimInvariant, PTL DEF Spec, FinishedStays

-----------------------------------------------------------------------------
(* Layer 3: approvals.  What left AWAITING_APPROVAL for execution had its  *)
(* votes, and what was submitted has left it.                              *)

ApprovalInv ==
    \A e \in Executions :
        /\ status[e] = "none" => approvers[e] = {}
        /\ approvers[e] \cap {Creator, triggeredBy[e]} = {}
        /\ Submitted(e) => status[e] \notin {"none", "AWAITING_APPROVAL"}
        /\ (\/ Submitted(e)
            \/ status[e] \notin {"none", "AWAITING_APPROVAL", "CANCELED"})
               => Cardinality(approvers[e]) >= rule.threshold

(***************************************************************************)
(* Approvals are in order initially.                                       *)
(***************************************************************************)
LEMMA ApprovalInit == Init => ApprovalInv
BY DEF Init, ApprovalInv, Submitted

(***************************************************************************)
(* Every step keeps them in order.                                         *)
(***************************************************************************)
LEMMA ApprovalStep == TypeInv /\ ClaimInv /\ ApprovalInv /\ [Next]_vars => ApprovalInv'
<1>t. SUFFICES ASSUME TypeInv, ClaimInv, ApprovalInv, [Next]_vars PROVE ApprovalInv'
    OBVIOUS
<1>z. \A e \in Executions : status[e] = "none" /\ ~(rule.threshold > 0) =>
          Cardinality(approvers[e]) >= rule.threshold
  <2>1. rule.threshold \in Nat
    BY <1>t, ConstantsAssumption DEF TypeInv, TypeOK, AutomationRule, ConstantsAssumption
  <2>2. Cardinality({}) = 0
    BY FS_EmptySet
  <2> QED
    BY <1>t, <2>1, <2>2 DEF ApprovalInv
<1>1. ASSUME NEW s \in {"ACTIVE", "PAUSED", "ARCHIVED"}, PatchRule(s)
      PROVE  ApprovalInv'
  <2>1. rule'.threshold = rule.threshold
    BY <1>1, <1>t DEF PatchRule, TypeInv, TypeOK, AutomationRule
  <2> QED
    BY <1>1, <1>t, <2>1 DEF PatchRule, ApprovalInv, Submitted
<1>2. ASSUME SetKillSwitch
      PROVE  ApprovalInv'
  BY <1>2, <1>t, <1>z DEF SetKillSwitch, TypeInv, TypeOK, CallsWellFormed,
     ClaimInv, Busy, Working, ApprovalInv, Submitted
<1>3. ASSUME DeleteOrganization
      PROVE  ApprovalInv'
  <2>1. rule'.threshold = rule.threshold
    BY <1>3, <1>t DEF DeleteOrganization, TypeInv, TypeOK, AutomationRule
  <2> QED
    BY <1>3, <1>t, <2>1 DEF DeleteOrganization, ApprovalInv, Submitted
<1>4. ASSUME NEW c \in Callers, NEW e \in Executions, NEW u \in Users \cup {None}, Trigger(c, e, u)
      PROVE  ApprovalInv'
  BY <1>4, <1>t, <1>z DEF Trigger, TriggerAutomation, Enter, Return, TypeInv,
     TypeOK, CallsWellFormed, ClaimInv, Busy, Working, ApprovalInv, Submitted
<1>5. ASSUME NEW c \in Callers, ReadSchedule(c)
      PROVE  ApprovalInv'
  BY <1>5, <1>t, <1>z DEF ReadSchedule, TypeInv, TypeOK, CallsWellFormed,
     ClaimInv, Busy, Working, ApprovalInv, Submitted
<1>6. ASSUME NEW c \in Callers, TakeSlot(c)
      PROVE  ApprovalInv'
  <2>1. rule'.threshold = rule.threshold
    BY <1>6, <1>t DEF TakeSlot, TypeInv, TypeOK, AutomationRule
  <2> QED
    BY <1>6, <1>t, <2>1 DEF TakeSlot, ApprovalInv, Submitted
<1>7. ASSUME NEW c \in Callers, TriggerSlot(c)
      PROVE  ApprovalInv'
  BY <1>7, <1>t, <1>z DEF TriggerSlot, TriggerAutomation, Enter, Return,
     TypeInv, TypeOK, CallsWellFormed, ClaimInv, Busy, Working, ApprovalInv,
     Submitted
<1>8. ASSUME NEW c \in Callers, LoseSlot(c)
      PROVE  ApprovalInv'
  BY <1>8, <1>t, <1>z DEF LoseSlot, Return, TypeInv, TypeOK, CallsWellFormed,
     ClaimInv, Busy, Working, ApprovalInv, Submitted
<1>9. ASSUME NEW c \in Callers, NEW e \in Executions, NEW u \in Users, Approve(c, e, u)
      PROVE  ApprovalInv'
  <2>1. /\ status[e] = "AWAITING_APPROVAL" /\ ~Submitted(e)
        /\ u # Creator /\ u # triggeredBy[e]
    BY <1>9, <1>t DEF Approve, AutomationApproverIsIndependent, ApprovalInv
  <2>2. approvers'[e] = approvers[e] \cup {u}
    BY <1>9, <1>t DEF Approve, TypeInv, TypeOK
  <2>3. status'[e] = IF Cardinality(approvers'[e]) >= rule.threshold
                     THEN "PENDING" ELSE "AWAITING_APPROVAL"
    BY <1>9, <1>t, <2>1, <2>2 DEF Approve, TypeInv, TypeOK
  <2>4. ASSUME NEW x \in Executions, x # e
        PROVE  status'[x] = status[x] /\ approvers'[x] = approvers[x]
    BY <1>9, <1>t, <2>4 DEF Approve, TypeInv, TypeOK
  <2>5. UNCHANGED <<rule, sends, payment, triggeredBy>>
    BY <1>9 DEF Approve
  <2> QED
    BY <1>t, <2>1, <2>2, <2>3, <2>4, <2>5 DEF ApprovalInv, Submitted
<1>10. ASSUME NEW e \in Executions, NEW u \in Users, Reject(e, u)
      PROVE  ApprovalInv'
  BY <1>10, <1>t, <1>z DEF Reject, TypeInv, TypeOK, CallsWellFormed, ClaimInv,
     Busy, Working, ApprovalInv, Submitted
<1>11. ASSUME NEW c \in Callers, Claim(c)
      PROVE  ApprovalInv'
  BY <1>11, <1>t, <1>z DEF Claim, Claimable, Goto, Return, TypeInv, TypeOK,
     CallsWellFormed, ClaimInv, Busy, Working, ApprovalInv, Submitted
<1>12. ASSUME NEW c \in Callers, Check(c)
      PROVE  ApprovalInv'
  BY <1>12, <1>t, <1>z DEF Check, Goto, TypeInv, TypeOK, CallsWellFormed,
     ClaimInv, Busy, Working, ApprovalInv, Submitted
<1>13. ASSUME NEW c \in Callers, Record(c)
      PROVE  ApprovalInv'
  BY <1>13, <1>t, <1>z DEF Record, Goto, TypeInv, TypeOK, CallsWellFormed,
     ClaimInv, Busy, Working, ApprovalInv, Submitted
<1>14. ASSUME NEW c \in Callers, Send(c)
      PROVE  ApprovalInv'
  BY <1>14, <1>t, <1>z DEF Send, Goto, TypeInv, TypeOK, CallsWellFormed,
     ClaimInv, Busy, Working, ApprovalInv, Submitted
<1>15. ASSUME NEW c \in Callers, Await(c)
      PROVE  ApprovalInv'
  BY <1>15, <1>t, <1>z DEF Await, Goto, TypeInv, TypeOK, CallsWellFormed,
     ClaimInv, Busy, Working, ApprovalInv, Submitted
<1>16. ASSUME NEW c \in Callers, Pay(c)
      PROVE  ApprovalInv'
  BY <1>16, <1>t, <1>z DEF Pay, Goto, TypeInv, TypeOK, CallsWellFormed,
     ClaimInv, Busy, Working, ApprovalInv, Submitted
<1>17. ASSUME NEW c \in Callers, Judge(c)
      PROVE  ApprovalInv'
  BY <1>17, <1>t, <1>z DEF Judge, Goto, AutomationPaymentOutcome, TypeInv,
     TypeOK, CallsWellFormed, ClaimInv, Busy, Working, ApprovalInv, Submitted
<1>18. ASSUME NEW c \in Callers, Defer(c)
      PROVE  ApprovalInv'
  BY <1>18, <1>t, <1>z DEF Defer, Finish, Return, TypeInv, TypeOK,
     CallsWellFormed, ClaimInv, Busy, Working, ApprovalInv, Submitted
<1>19. ASSUME NEW c \in Callers, MarkUnknown(c)
      PROVE  ApprovalInv'
  BY <1>19, <1>t, <1>z DEF MarkUnknown, Finish, Return, TypeInv, TypeOK,
     CallsWellFormed, ClaimInv, Busy, Working, ApprovalInv, Submitted
<1>20. ASSUME NEW c \in Callers, Fail(c)
      PROVE  ApprovalInv'
  BY <1>20, <1>t, <1>z DEF Fail, Finish, Return, TypeInv, TypeOK,
     CallsWellFormed, ClaimInv, Busy, Working, ApprovalInv, Submitted
<1>21. ASSUME NEW c \in Callers, Complete(c)
      PROVE  ApprovalInv'
  BY <1>21, <1>t, <1>z DEF Complete, Finish, Goto, Return, TypeInv, TypeOK,
     CallsWellFormed, ClaimInv, Busy, Working, ApprovalInv, Submitted
<1>22. ASSUME NEW c \in Callers, Stop(c)
      PROVE  ApprovalInv'
  BY <1>22, <1>t, <1>z DEF Stop, Return, TypeInv, TypeOK, CallsWellFormed,
     ClaimInv, Busy, Working, ApprovalInv, Submitted
<1>23. ASSUME NEW c \in Callers, NEW e \in Executions, Resume(c, e)
      PROVE  ApprovalInv'
  BY <1>23, <1>t, <1>z DEF Resume, Deferred, Enter, Return, TypeInv, TypeOK,
     CallsWellFormed, ClaimInv, Busy, Working, ApprovalInv, Submitted
<1>24. ASSUME NEW k \in Jobs, NEW e \in Executions, Observe(k, e)
      PROVE  ApprovalInv'
  BY <1>24, <1>t, <1>z DEF Observe, InDoubt, ContractMirrorOutcome, TypeInv,
     TypeOK, CallsWellFormed, ClaimInv, Busy, Working, ApprovalInv, Submitted
<1>25. ASSUME NEW k \in Jobs, Reconcile(k)
      PROVE  ApprovalInv'
  BY <1>25, <1>t, <1>z DEF Reconcile, InDoubt, TypeInv, TypeOK, CallsWellFormed,
     ClaimInv, Busy, Working, ApprovalInv, Submitted
<1>26. ASSUME NEW e \in Executions, ChainDecides(e)
      PROVE  ApprovalInv'
  BY <1>26, <1>t, <1>z DEF ChainDecides, TypeInv, TypeOK, CallsWellFormed,
     ClaimInv, Busy, Working, ApprovalInv, Submitted
<1>27. ASSUME NEW e \in Executions, PaymentMoves(e)
      PROVE  ApprovalInv'
  BY <1>27, <1>t, <1>z DEF PaymentMoves, PaymentSteps, TypeInv, TypeOK,
     CallsWellFormed, ClaimInv, Busy, Working, ApprovalInv, Submitted
<1>28. ASSUME NEW e \in Executions, Elapse(e)
      PROVE  ApprovalInv'
  BY <1>28, <1>t, <1>z DEF Elapse, TypeInv, TypeOK, CallsWellFormed, ClaimInv,
     Busy, Working, ApprovalInv, Submitted
<1>29. ASSUME UNCHANGED vars PROVE ApprovalInv'
  BY <1>29, <1>t, <1>z DEF vars, TypeInv, TypeOK, CallsWellFormed, ClaimInv,
     Busy, Working, ApprovalInv, Submitted
<1> QED
  BY <1>t, <1>1, <1>2, <1>3, <1>4, <1>5, <1>6, <1>7, <1>8, <1>9, <1>10, <1>11,
     <1>12, <1>13, <1>14, <1>15, <1>16, <1>17, <1>18, <1>19, <1>20, <1>21,
     <1>22, <1>23, <1>24, <1>25, <1>26, <1>27, <1>28, <1>29 DEF Next, Call,
     Proceed

(***************************************************************************)
(* Nothing is submitted for an execution without the approvals its rule    *)
(* asks for, of independent members, and no contract call is ever handed   *)
(* over for a canceled one.                                                *)
(***************************************************************************)
THEOREM SubmittedWithApproval == Spec => []ApprovedIndependently
<1>1. TypeInv /\ ClaimInv /\ ApprovalInv => ApprovedIndependently
  <2> SUFFICES ASSUME TypeInv, ClaimInv, ApprovalInv, NEW e \in Executions
               PROVE  /\ Submitted(e) => /\ Cardinality(approvers[e]) >= rule.threshold
                                         /\ approvers[e] \cap {Creator, triggeredBy[e]} = {}
                      /\ status[e] = "CANCELED" => sends[e] = 0
    BY DEF ApprovedIndependently
  <2>1. status[e] = "CANCELED" => sends[e] = 0
    BY DEF TypeInv, TypeOK, ClaimInv
  <2> QED
    BY <2>1 DEF ApprovalInv
<1> QED
  BY <1>1, TypeInvariant, ClaimInvariant, ApprovalInit, ApprovalStep, PTL DEF Spec

-----------------------------------------------------------------------------
(* Layer 4: the daily limit.  What holds a place in it is counted until it *)
(* is canceled, and what is canceled with a submission belongs to a rule   *)
(* that no trigger can use any more.                                       *)

HoldsPlace(e) == CountedToday(e) \/ Submitted(e)
Places == {e \in Executions : HoldsPlace(e)}

Moot == \A e \in Executions :
            status[e] = "CANCELED" /\ Submitted(e) => rule.status = "ARCHIVED"

LimitInv == Moot /\ Cardinality(Places) <= MaxPerDay

(***************************************************************************)
(* A day's executions are finitely many.                                   *)
(***************************************************************************)
LEMMA FiniteExecutions == \A S : S \subseteq Executions => IsFiniteSet(S)
<1>1. IsFiniteSet(Slots)
  BY ConstantsAssumption, FS_Interval DEF ConstantsAssumption, Slots
<1>2. IsFiniteSet(Executions)
  BY <1>1, ConstantsAssumption, FS_Union DEF ConstantsAssumption, Executions
<1> QED
  BY <1>2, FS_Subset

(***************************************************************************)
(* A step that gives no place away, and one that gives one within the      *)
(* limit, keep the limit.                                                  *)
(***************************************************************************)
LEMMA NoNewPlace ==
    ASSUME LimitInv, \A x \in Executions : HoldsPlace(x)' => HoldsPlace(x)
    PROVE  Cardinality(Places)' <= MaxPerDay
<1>1. Places' \subseteq Places /\ IsFiniteSet(Places)
  BY FiniteExecutions DEF Places
<1>2. Cardinality(Places') <= Cardinality(Places)
  BY <1>1, FS_Subset
<1>3. Cardinality(Places) \in Nat /\ Cardinality(Places') \in Nat /\ MaxPerDay \in Nat
  BY <1>1, FS_Subset, FS_CardinalityType, ConstantsAssumption DEF ConstantsAssumption
<1> QED
  BY <1>2, <1>3 DEF LimitInv

LEMMA Triggered ==
    ASSUME TypeInv, ApprovalInv, LimitInv, NEW c \in Callers, NEW e \in Executions,
           NEW u \in Users \cup {None}, TriggerAutomation(c, e, u)
    PROVE  LimitInv'
<1>1. /\ Moot'
      /\ \A x \in Executions \ {e} : HoldsPlace(x)' => HoldsPlace(x)
  BY DEF TriggerAutomation, TypeInv, TypeOK, ApprovalInv, LimitInv, Moot, HoldsPlace,
     CountedToday, Submitted
<1>2. CASE HoldsPlace(e)
  BY <1>1, <1>2, NoNewPlace DEF LimitInv
<1>3. CASE ~HoldsPlace(e)
  <2>1. status[e] # "none" => UNCHANGED status
    BY DEF TriggerAutomation
  <2>2. CASE status[e] # "none"
    BY <1>1, <1>3, <2>1, <2>2, NoNewPlace
    DEF TriggerAutomation, LimitInv, HoldsPlace, CountedToday, Submitted
  <2>3. CASE status[e] = "none"
    <3>1. Cardinality({x \in Executions : CountedToday(x)}) < MaxPerDay /\ rule.status = "ACTIVE"
      BY <2>3 DEF TriggerAutomation
    <3>2. Places = {x \in Executions : CountedToday(x)}
      BY <3>1 DEF ApprovalInv, LimitInv, Moot, Places, HoldsPlace, CountedToday
    <3>3. Places' \subseteq Places \cup {e}
      BY <1>1 DEF Places
    <3>4. IsFiniteSet(Places) /\ IsFiniteSet(Places \cup {e}) /\ IsFiniteSet(Places')
      BY FiniteExecutions DEF Places
    <3>5. Cardinality(Places') <= Cardinality(Places \cup {e})
      BY <3>3, <3>4, FS_Subset
    <3>6. Cardinality(Places \cup {e}) <= Cardinality(Places) + 1
      BY <3>4, FS_AddElement, FS_CardinalityType
    <3>7. /\ Cardinality(Places) \in Nat /\ Cardinality(Places') \in Nat
          /\ Cardinality(Places \cup {e}) \in Nat /\ MaxPerDay \in Nat
      BY <3>4, FS_CardinalityType, ConstantsAssumption DEF ConstantsAssumption
    <3>8. Cardinality(Places') <= MaxPerDay
      BY <3>1, <3>2, <3>5, <3>6, <3>7
    <3> QED
      BY <1>1, <3>8 DEF LimitInv
  <2> QED
    BY <2>2, <2>3
<1> QED
  BY <1>2, <1>3

(***************************************************************************)
(* Every step keeps the limit: only a trigger gives a place away.          *)
(***************************************************************************)
LEMMA LimitStep == TypeInv /\ ClaimInv /\ ApprovalInv /\ LimitInv /\ [Next]_vars => LimitInv'
<1>t. SUFFICES ASSUME TypeInv, ClaimInv, ApprovalInv, LimitInv, [Next]_vars PROVE LimitInv'
    OBVIOUS
<1>q. (Moot' /\ \A x \in Executions : HoldsPlace(x)' => HoldsPlace(x)) => LimitInv'
  BY <1>t, NoNewPlace DEF LimitInv
<1>1. ASSUME NEW s \in {"ACTIVE", "PAUSED", "ARCHIVED"}, PatchRule(s)
      PROVE  LimitInv'
  BY <1>1, <1>t, <1>q DEF PatchRule, VersionsLeft, TypeInv, TypeOK,
     CallsWellFormed, ClaimInv, Busy, Working, ApprovalInv, LimitInv, Moot,
     HoldsPlace, CountedToday, Submitted
<1>2. ASSUME SetKillSwitch
      PROVE  LimitInv'
  BY <1>2, <1>t, <1>q DEF SetKillSwitch, TypeInv, TypeOK, CallsWellFormed,
     ClaimInv, Busy, Working, ApprovalInv, LimitInv, Moot, HoldsPlace,
     CountedToday, Submitted
<1>3. ASSUME DeleteOrganization
      PROVE  LimitInv'
  BY <1>3, <1>t, <1>q DEF DeleteOrganization, VersionsLeft, TypeInv, TypeOK,
     CallsWellFormed, ClaimInv, Busy, Working, ApprovalInv, LimitInv, Moot,
     HoldsPlace, CountedToday, Submitted
<1>4. ASSUME NEW c \in Callers, NEW e \in Executions, NEW u \in Users \cup {None}, Trigger(c, e, u)
      PROVE  LimitInv'
  BY <1>4, <1>t, Triggered DEF Trigger
<1>5. ASSUME NEW c \in Callers, ReadSchedule(c)
      PROVE  LimitInv'
  BY <1>5, <1>t, <1>q DEF ReadSchedule, TypeInv, TypeOK, CallsWellFormed,
     ClaimInv, Busy, Working, ApprovalInv, LimitInv, Moot, HoldsPlace,
     CountedToday, Submitted
<1>6. ASSUME NEW c \in Callers, TakeSlot(c)
      PROVE  LimitInv'
  <2>1. rule'.status = rule.status /\ UNCHANGED <<rows, world>>
    BY <1>6, <1>t DEF TakeSlot, TypeInv, TypeOK, AutomationRule
  <2> QED
    BY <1>t, <1>q, <2>1 DEF LimitInv, Moot, HoldsPlace, CountedToday, Submitted
<1>7. ASSUME NEW c \in Callers, TriggerSlot(c)
      PROVE  LimitInv'
  <2>1. pc[c] = "trigger" /\ seen[c].slot \in Executions
    BY <1>7, <1>t DEF TriggerSlot, TypeInv, TypeOK, CallsWellFormed, ScheduleRead, Executions
  <2> QED
    BY <1>7, <1>t, <2>1, Triggered DEF TriggerSlot
<1>8. ASSUME NEW c \in Callers, LoseSlot(c)
      PROVE  LimitInv'
  BY <1>8, <1>t, <1>q DEF LoseSlot, Return, TypeInv, TypeOK,
     CallsWellFormed, ClaimInv, Busy, Working, ApprovalInv, LimitInv, Moot,
     HoldsPlace, CountedToday, Submitted
<1>9. ASSUME NEW c \in Callers, NEW e \in Executions, NEW u \in Users, Approve(c, e, u)
      PROVE  LimitInv'
  BY <1>9, <1>t, <1>q DEF Approve, Enter, Return, TypeInv, TypeOK,
     CallsWellFormed, ClaimInv, Busy, Working, ApprovalInv, LimitInv, Moot,
     HoldsPlace, CountedToday, Submitted
<1>10. ASSUME NEW e \in Executions, NEW u \in Users, Reject(e, u)
      PROVE  LimitInv'
  BY <1>10, <1>t, <1>q DEF Reject, TypeInv, TypeOK, CallsWellFormed,
     ClaimInv, Busy, Working, ApprovalInv, LimitInv, Moot, HoldsPlace,
     CountedToday, Submitted
<1>11. ASSUME NEW c \in Callers, Claim(c)
      PROVE  LimitInv'
  BY <1>11, <1>t, <1>q DEF Claim, Claimable, Goto, Return, TypeInv, TypeOK,
     CallsWellFormed, ClaimInv, Busy, Working, ApprovalInv, LimitInv, Moot,
     HoldsPlace, CountedToday, Submitted
<1>12. ASSUME NEW c \in Callers, Check(c)
      PROVE  LimitInv'
  BY <1>12, <1>t, <1>q DEF Check, Goto, TypeInv, TypeOK, CallsWellFormed,
     ClaimInv, Busy, Working, ApprovalInv, LimitInv, Moot, HoldsPlace,
     CountedToday, Submitted
<1>13. ASSUME NEW c \in Callers, Record(c)
      PROVE  LimitInv'
  BY <1>13, <1>t, <1>q DEF Record, Goto, TypeInv, TypeOK, CallsWellFormed,
     ClaimInv, Busy, Working, ApprovalInv, LimitInv, Moot, HoldsPlace,
     CountedToday, Submitted
<1>14. ASSUME NEW c \in Callers, Send(c)
      PROVE  LimitInv'
  BY <1>14, <1>t, <1>q DEF Send, Goto, TypeInv, TypeOK, CallsWellFormed,
     ClaimInv, Busy, Working, ApprovalInv, LimitInv, Moot, HoldsPlace,
     CountedToday, Submitted
<1>15. ASSUME NEW c \in Callers, Await(c)
      PROVE  LimitInv'
  BY <1>15, <1>t, <1>q DEF Await, Goto, TypeInv, TypeOK, CallsWellFormed,
     ClaimInv, Busy, Working, ApprovalInv, LimitInv, Moot, HoldsPlace,
     CountedToday, Submitted
<1>16. ASSUME NEW c \in Callers, Pay(c)
      PROVE  LimitInv'
  BY <1>16, <1>t, <1>q DEF Pay, Goto, TypeInv, TypeOK, CallsWellFormed,
     ClaimInv, Busy, Working, ApprovalInv, LimitInv, Moot, HoldsPlace,
     CountedToday, Submitted
<1>17. ASSUME NEW c \in Callers, Judge(c)
      PROVE  LimitInv'
  BY <1>17, <1>t, <1>q DEF Judge, Goto, AutomationPaymentOutcome, TypeInv,
     TypeOK, CallsWellFormed, ClaimInv, Busy, Working, ApprovalInv,
     LimitInv, Moot, HoldsPlace, CountedToday, Submitted
<1>18. ASSUME NEW c \in Callers, Defer(c)
      PROVE  LimitInv'
  BY <1>18, <1>t, <1>q DEF Defer, Finish, Return, TypeInv, TypeOK,
     CallsWellFormed, ClaimInv, Busy, Working, ApprovalInv, LimitInv, Moot,
     HoldsPlace, CountedToday, Submitted
<1>19. ASSUME NEW c \in Callers, MarkUnknown(c)
      PROVE  LimitInv'
  BY <1>19, <1>t, <1>q DEF MarkUnknown, Finish, Return, TypeInv, TypeOK,
     CallsWellFormed, ClaimInv, Busy, Working, ApprovalInv, LimitInv, Moot,
     HoldsPlace, CountedToday, Submitted
<1>20. ASSUME NEW c \in Callers, Fail(c)
      PROVE  LimitInv'
  BY <1>20, <1>t, <1>q DEF Fail, Finish, Return, TypeInv, TypeOK,
     CallsWellFormed, ClaimInv, Busy, Working, ApprovalInv, LimitInv, Moot,
     HoldsPlace, CountedToday, Submitted
<1>21. ASSUME NEW c \in Callers, Complete(c)
      PROVE  LimitInv'
  BY <1>21, <1>t, <1>q DEF Complete, Finish, Goto, Return, TypeInv, TypeOK,
     CallsWellFormed, ClaimInv, Busy, Working, ApprovalInv, LimitInv, Moot,
     HoldsPlace, CountedToday, Submitted
<1>22. ASSUME NEW c \in Callers, Stop(c)
      PROVE  LimitInv'
  BY <1>22, <1>t, <1>q DEF Stop, Return, TypeInv, TypeOK, CallsWellFormed,
     ClaimInv, Busy, Working, ApprovalInv, LimitInv, Moot, HoldsPlace,
     CountedToday, Submitted
<1>23. ASSUME NEW c \in Callers, NEW e \in Executions, Resume(c, e)
      PROVE  LimitInv'
  BY <1>23, <1>t, <1>q DEF Resume, Deferred, Enter, Return, TypeInv, TypeOK,
     CallsWellFormed, ClaimInv, Busy, Working, ApprovalInv, LimitInv, Moot,
     HoldsPlace, CountedToday, Submitted
<1>24. ASSUME NEW k \in Jobs, NEW e \in Executions, Observe(k, e)
      PROVE  LimitInv'
  BY <1>24, <1>t, <1>q DEF Observe, InDoubt, ContractMirrorOutcome, TypeInv,
     TypeOK, CallsWellFormed, ClaimInv, Busy, Working, ApprovalInv,
     LimitInv, Moot, HoldsPlace, CountedToday, Submitted
<1>25. ASSUME NEW k \in Jobs, Reconcile(k)
      PROVE  LimitInv'
  BY <1>25, <1>t, <1>q DEF Reconcile, InDoubt, TypeInv, TypeOK,
     CallsWellFormed, ClaimInv, Busy, Working, ApprovalInv, LimitInv, Moot,
     HoldsPlace, CountedToday, Submitted
<1>26. ASSUME NEW e \in Executions, ChainDecides(e)
      PROVE  LimitInv'
  BY <1>26, <1>t, <1>q DEF ChainDecides, TypeInv, TypeOK, CallsWellFormed,
     ClaimInv, Busy, Working, ApprovalInv, LimitInv, Moot, HoldsPlace,
     CountedToday, Submitted
<1>27. ASSUME NEW e \in Executions, PaymentMoves(e)
      PROVE  LimitInv'
  BY <1>27, <1>t, <1>q DEF PaymentMoves, PaymentSteps, TypeInv, TypeOK,
     CallsWellFormed, ClaimInv, Busy, Working, ApprovalInv, LimitInv, Moot,
     HoldsPlace, CountedToday, Submitted
<1>28. ASSUME NEW e \in Executions, Elapse(e)
      PROVE  LimitInv'
  BY <1>28, <1>t, <1>q DEF Elapse, TypeInv, TypeOK, CallsWellFormed,
     ClaimInv, Busy, Working, ApprovalInv, LimitInv, Moot, HoldsPlace,
     CountedToday, Submitted
<1>29. ASSUME UNCHANGED vars PROVE LimitInv'
  BY <1>29, <1>t, <1>q DEF vars, TypeInv, TypeOK, CallsWellFormed, ClaimInv,
     Busy, Working, ApprovalInv, LimitInv, Moot, HoldsPlace, CountedToday,
     Submitted
<1> QED
  BY <1>t, <1>1, <1>2, <1>3, <1>4, <1>5, <1>6, <1>7, <1>8, <1>9, <1>10, <1>11,
     <1>12, <1>13, <1>14, <1>15, <1>16, <1>17, <1>18, <1>19, <1>20, <1>21,
     <1>22, <1>23, <1>24, <1>25, <1>26, <1>27, <1>28, <1>29 DEF Next, Call,
     Proceed

(***************************************************************************)
(* However many triggers overlap, no more executions than the daily limit  *)
(* ever submit anything.                                                   *)
(***************************************************************************)
THEOREM DailyLimit == Spec => []DailyLimitHolds
<1>1. Init => LimitInv
  <2> SUFFICES ASSUME Init PROVE LimitInv
      OBVIOUS
  <2>1. Places = {}
    BY DEF Init, Places, HoldsPlace, CountedToday, Submitted
  <2> QED
    BY <2>1, FS_EmptySet, ConstantsAssumption
    DEF ConstantsAssumption, Init, LimitInv, Moot, Submitted
<1>2. LimitInv => DailyLimitHolds
  <2> SUFFICES ASSUME LimitInv PROVE DailyLimitHolds
      OBVIOUS
  <2> DEFINE sent == {e \in Executions : Submitted(e)}
  <2>1. sent \subseteq Places /\ IsFiniteSet(Places) /\ IsFiniteSet(sent)
    BY FiniteExecutions DEF Places, HoldsPlace
  <2>2. Cardinality(sent) <= Cardinality(Places)
    BY <2>1, FS_Subset
  <2>3. Cardinality(sent) \in Nat /\ Cardinality(Places) \in Nat /\ MaxPerDay \in Nat
    BY <2>1, FS_CardinalityType, ConstantsAssumption DEF ConstantsAssumption
  <2> QED
    BY <2>2, <2>3 DEF LimitInv, DailyLimitHolds
<1> QED
  BY <1>1, <1>2, LimitStep, TypeInvariant, ClaimInvariant, ApprovalInit, ApprovalStep, PTL DEF Spec

-----------------------------------------------------------------------------
(* Layer 5: scheduled runs.  A pass that holds the current version of the  *)
(* rule read an active rule.                                               *)

SlotInv ==
    \A c \in Callers : pc[c] = "schedule" =>
        /\ seen[c].version <= rule.version
        /\ seen[c].version = rule.version => rule.status = "ACTIVE"

(***************************************************************************)
(* Every step keeps what passes know of the rule: its status never changes *)
(* without its version.                                                    *)
(***************************************************************************)
LEMMA SlotStep == TypeInv /\ SlotInv /\ [Next]_vars => SlotInv'
<1>t. SUFFICES ASSUME TypeInv, SlotInv, [Next]_vars PROVE SlotInv'
    OBVIOUS
<1>v. /\ rule \in AutomationRule /\ rule.version \in Nat
      /\ \A c \in Callers : pc[c] = "schedule" => seen[c].version \in Nat
  BY <1>t, RuleColumns DEF TypeInv, TypeOK, CallsWellFormed, ScheduleRead
<1>1. ASSUME NEW s \in {"ACTIVE", "PAUSED", "ARCHIVED"}, PatchRule(s)
      PROVE  SlotInv'
  <2>1. rule'.version = rule.version + 1
    BY <1>1, <1>v DEF PatchRule, AutomationRule
  <2> QED
    BY <1>1, <1>t, <1>v, <2>1 DEF PatchRule, SlotInv
<1>2. ASSUME SetKillSwitch
      PROVE  SlotInv'
  BY <1>2, <1>t, <1>v DEF SetKillSwitch, TypeInv, TypeOK, Working, SlotInv
<1>3. ASSUME DeleteOrganization
      PROVE  SlotInv'
  <2>1. UNCHANGED rule \/ rule'.version = rule.version + 1
    BY <1>3, <1>v DEF DeleteOrganization, AutomationRule
  <2> QED
    BY <1>3, <1>t, <1>v, <2>1 DEF DeleteOrganization, SlotInv
<1>4. ASSUME NEW c \in Callers, NEW e \in Executions, NEW u \in Users \cup {None}, Trigger(c, e, u)
      PROVE  SlotInv'
  BY <1>4, <1>t, <1>v DEF Trigger, TriggerAutomation, Enter, Return,
     TypeInv, TypeOK, Working, SlotInv
<1>5. ASSUME NEW c \in Callers, ReadSchedule(c)
      PROVE  SlotInv'
  BY <1>5, <1>t, <1>v DEF ReadSchedule, TypeInv, TypeOK, Working, SlotInv
<1>6. ASSUME NEW c \in Callers, TakeSlot(c)
      PROVE  SlotInv'
  <2>1. CASE Unchanged(c)
    <3>1. rule'.version = rule.version + 1
      BY <1>6, <1>v, <2>1 DEF TakeSlot, AutomationRule
    <3> QED
      BY <1>6, <1>t, <1>v, <2>1, <3>1 DEF TakeSlot, Goto, TypeInv, TypeOK, SlotInv
  <2>2. CASE ~Unchanged(c)
    BY <1>6, <1>t, <2>2 DEF TakeSlot, Return, TypeInv, TypeOK, SlotInv
  <2> QED
    BY <2>1, <2>2
<1>7. ASSUME NEW c \in Callers, TriggerSlot(c)
      PROVE  SlotInv'
  BY <1>7, <1>t, <1>v DEF TriggerSlot, TriggerAutomation, Enter, Return,
     TypeInv, TypeOK, Working, SlotInv
<1>8. ASSUME NEW c \in Callers, LoseSlot(c)
      PROVE  SlotInv'
  BY <1>8, <1>t, <1>v DEF LoseSlot, Return, TypeInv, TypeOK, Working,
     SlotInv
<1>9. ASSUME NEW c \in Callers, NEW e \in Executions, NEW u \in Users, Approve(c, e, u)
      PROVE  SlotInv'
  BY <1>9, <1>t, <1>v DEF Approve, Enter, Return, TypeInv, TypeOK, Working,
     SlotInv
<1>10. ASSUME NEW e \in Executions, NEW u \in Users, Reject(e, u)
      PROVE  SlotInv'
  BY <1>10, <1>t, <1>v DEF Reject, TypeInv, TypeOK, Working, SlotInv
<1>11. ASSUME NEW c \in Callers, Claim(c)
      PROVE  SlotInv'
  BY <1>11, <1>t, <1>v DEF Claim, Claimable, Goto, Return, TypeInv, TypeOK,
     Working, SlotInv
<1>12. ASSUME NEW c \in Callers, Check(c)
      PROVE  SlotInv'
  BY <1>12, <1>t, <1>v DEF Check, Goto, TypeInv, TypeOK, Working, SlotInv
<1>13. ASSUME NEW c \in Callers, Record(c)
      PROVE  SlotInv'
  BY <1>13, <1>t, <1>v DEF Record, Goto, TypeInv, TypeOK, Working, SlotInv
<1>14. ASSUME NEW c \in Callers, Send(c)
      PROVE  SlotInv'
  BY <1>14, <1>t, <1>v DEF Send, Goto, TypeInv, TypeOK, Working, SlotInv
<1>15. ASSUME NEW c \in Callers, Await(c)
      PROVE  SlotInv'
  BY <1>15, <1>t, <1>v DEF Await, Goto, TypeInv, TypeOK, Working, SlotInv
<1>16. ASSUME NEW c \in Callers, Pay(c)
      PROVE  SlotInv'
  BY <1>16, <1>t, <1>v DEF Pay, Goto, TypeInv, TypeOK, Working, SlotInv
<1>17. ASSUME NEW c \in Callers, Judge(c)
      PROVE  SlotInv'
  BY <1>17, <1>t, <1>v DEF Judge, Goto, AutomationPaymentOutcome, TypeInv,
     TypeOK, Working, SlotInv
<1>18. ASSUME NEW c \in Callers, Defer(c)
      PROVE  SlotInv'
  BY <1>18, <1>t, <1>v DEF Defer, Finish, Return, TypeInv, TypeOK, Working,
     SlotInv
<1>19. ASSUME NEW c \in Callers, MarkUnknown(c)
      PROVE  SlotInv'
  BY <1>19, <1>t, <1>v DEF MarkUnknown, Finish, Return, TypeInv, TypeOK,
     Working, SlotInv
<1>20. ASSUME NEW c \in Callers, Fail(c)
      PROVE  SlotInv'
  BY <1>20, <1>t, <1>v DEF Fail, Finish, Return, TypeInv, TypeOK, Working,
     SlotInv
<1>21. ASSUME NEW c \in Callers, Complete(c)
      PROVE  SlotInv'
  BY <1>21, <1>t, <1>v DEF Complete, Finish, Goto, Return, TypeInv, TypeOK,
     Working, SlotInv
<1>22. ASSUME NEW c \in Callers, Stop(c)
      PROVE  SlotInv'
  BY <1>22, <1>t, <1>v DEF Stop, Return, TypeInv, TypeOK, Working, SlotInv
<1>23. ASSUME NEW c \in Callers, NEW e \in Executions, Resume(c, e)
      PROVE  SlotInv'
  BY <1>23, <1>t, <1>v DEF Resume, Deferred, Enter, Return, TypeInv, TypeOK,
     Working, SlotInv
<1>24. ASSUME NEW k \in Jobs, NEW e \in Executions, Observe(k, e)
      PROVE  SlotInv'
  BY <1>24, <1>t, <1>v DEF Observe, InDoubt, ContractMirrorOutcome, TypeInv,
     TypeOK, Working, SlotInv
<1>25. ASSUME NEW k \in Jobs, Reconcile(k)
      PROVE  SlotInv'
  BY <1>25, <1>t, <1>v DEF Reconcile, InDoubt, TypeInv, TypeOK, Working,
     SlotInv
<1>26. ASSUME NEW e \in Executions, ChainDecides(e)
      PROVE  SlotInv'
  BY <1>26, <1>t, <1>v DEF ChainDecides, TypeInv, TypeOK, Working, SlotInv
<1>27. ASSUME NEW e \in Executions, PaymentMoves(e)
      PROVE  SlotInv'
  BY <1>27, <1>t, <1>v DEF PaymentMoves, PaymentSteps, TypeInv, TypeOK,
     Working, SlotInv
<1>28. ASSUME NEW e \in Executions, Elapse(e)
      PROVE  SlotInv'
  BY <1>28, <1>t, <1>v DEF Elapse, TypeInv, TypeOK, Working, SlotInv
<1>29. ASSUME UNCHANGED vars PROVE SlotInv'
  BY <1>29, <1>t, <1>v DEF vars, TypeInv, TypeOK, Working, SlotInv
<1> QED
  BY <1>t, <1>1, <1>2, <1>3, <1>4, <1>5, <1>6, <1>7, <1>8, <1>9, <1>10, <1>11,
     <1>12, <1>13, <1>14, <1>15, <1>16, <1>17, <1>18, <1>19, <1>20, <1>21,
     <1>22, <1>23, <1>24, <1>25, <1>26, <1>27, <1>28, <1>29 DEF Next, Call,
     Proceed

(***************************************************************************)
(* No step takes a run of a rule that is not active: the pass that read it *)
(* active finds its version changed.                                       *)
(***************************************************************************)
LEMMA SlotTaken ==
    TypeInv /\ SlotInv /\ [Next]_vars => rule'.next = rule.next \/ rule.status = "ACTIVE"
<1>t. SUFFICES ASSUME TypeInv, SlotInv, [Next]_vars
               PROVE  rule'.next = rule.next \/ rule.status = "ACTIVE"
    OBVIOUS
<1>v. rule \in AutomationRule
  BY <1>t DEF TypeInv, TypeOK
<1>1. ASSUME NEW s \in {"ACTIVE", "PAUSED", "ARCHIVED"}, PatchRule(s)
      PROVE  rule'.next = rule.next \/ rule.status = "ACTIVE"
  BY <1>1, <1>t, <1>v DEF PatchRule, VersionsLeft, SlotInv, AutomationRule
<1>2. ASSUME SetKillSwitch
      PROVE  rule'.next = rule.next \/ rule.status = "ACTIVE"
  BY <1>2, <1>t, <1>v DEF SetKillSwitch, SlotInv, AutomationRule
<1>3. ASSUME DeleteOrganization
      PROVE  rule'.next = rule.next \/ rule.status = "ACTIVE"
  BY <1>3, <1>t, <1>v DEF DeleteOrganization, VersionsLeft, SlotInv,
     AutomationRule
<1>4. ASSUME NEW c \in Callers, NEW e \in Executions, NEW u \in Users \cup {None}, Trigger(c, e, u)
      PROVE  rule'.next = rule.next \/ rule.status = "ACTIVE"
  BY <1>4, <1>t, <1>v DEF Trigger, TriggerAutomation, Enter, Return,
     SlotInv, AutomationRule
<1>5. ASSUME NEW c \in Callers, ReadSchedule(c)
      PROVE  rule'.next = rule.next \/ rule.status = "ACTIVE"
  BY <1>5, <1>t, <1>v DEF ReadSchedule, SlotInv, AutomationRule
<1>6. ASSUME NEW c \in Callers, TakeSlot(c)
      PROVE  rule'.next = rule.next \/ rule.status = "ACTIVE"
  BY <1>6, <1>t, <1>v DEF TakeSlot, Unchanged, Goto, Return, SlotInv,
     AutomationRule
<1>7. ASSUME NEW c \in Callers, TriggerSlot(c)
      PROVE  rule'.next = rule.next \/ rule.status = "ACTIVE"
  BY <1>7, <1>t, <1>v DEF TriggerSlot, TriggerAutomation, Enter, Return,
     SlotInv, AutomationRule
<1>8. ASSUME NEW c \in Callers, LoseSlot(c)
      PROVE  rule'.next = rule.next \/ rule.status = "ACTIVE"
  BY <1>8, <1>t, <1>v DEF LoseSlot, Return, SlotInv, AutomationRule
<1>9. ASSUME NEW c \in Callers, NEW e \in Executions, NEW u \in Users, Approve(c, e, u)
      PROVE  rule'.next = rule.next \/ rule.status = "ACTIVE"
  BY <1>9, <1>t, <1>v DEF Approve, Enter, Return, SlotInv, AutomationRule
<1>10. ASSUME NEW e \in Executions, NEW u \in Users, Reject(e, u)
      PROVE  rule'.next = rule.next \/ rule.status = "ACTIVE"
  BY <1>10, <1>t, <1>v DEF Reject, SlotInv, AutomationRule
<1>11. ASSUME NEW c \in Callers, Claim(c)
      PROVE  rule'.next = rule.next \/ rule.status = "ACTIVE"
  BY <1>11, <1>t, <1>v DEF Claim, Claimable, Goto, Return, SlotInv,
     AutomationRule
<1>12. ASSUME NEW c \in Callers, Check(c)
      PROVE  rule'.next = rule.next \/ rule.status = "ACTIVE"
  BY <1>12, <1>t, <1>v DEF Check, Goto, SlotInv, AutomationRule
<1>13. ASSUME NEW c \in Callers, Record(c)
      PROVE  rule'.next = rule.next \/ rule.status = "ACTIVE"
  BY <1>13, <1>t, <1>v DEF Record, Goto, SlotInv, AutomationRule
<1>14. ASSUME NEW c \in Callers, Send(c)
      PROVE  rule'.next = rule.next \/ rule.status = "ACTIVE"
  BY <1>14, <1>t, <1>v DEF Send, Goto, SlotInv, AutomationRule
<1>15. ASSUME NEW c \in Callers, Await(c)
      PROVE  rule'.next = rule.next \/ rule.status = "ACTIVE"
  BY <1>15, <1>t, <1>v DEF Await, Goto, SlotInv, AutomationRule
<1>16. ASSUME NEW c \in Callers, Pay(c)
      PROVE  rule'.next = rule.next \/ rule.status = "ACTIVE"
  BY <1>16, <1>t, <1>v DEF Pay, Goto, SlotInv, AutomationRule
<1>17. ASSUME NEW c \in Callers, Judge(c)
      PROVE  rule'.next = rule.next \/ rule.status = "ACTIVE"
  BY <1>17, <1>t, <1>v DEF Judge, Goto, AutomationPaymentOutcome, SlotInv,
     AutomationRule
<1>18. ASSUME NEW c \in Callers, Defer(c)
      PROVE  rule'.next = rule.next \/ rule.status = "ACTIVE"
  BY <1>18, <1>t, <1>v DEF Defer, Finish, Return, SlotInv, AutomationRule
<1>19. ASSUME NEW c \in Callers, MarkUnknown(c)
      PROVE  rule'.next = rule.next \/ rule.status = "ACTIVE"
  BY <1>19, <1>t, <1>v DEF MarkUnknown, Finish, Return, SlotInv,
     AutomationRule
<1>20. ASSUME NEW c \in Callers, Fail(c)
      PROVE  rule'.next = rule.next \/ rule.status = "ACTIVE"
  BY <1>20, <1>t, <1>v DEF Fail, Finish, Return, SlotInv, AutomationRule
<1>21. ASSUME NEW c \in Callers, Complete(c)
      PROVE  rule'.next = rule.next \/ rule.status = "ACTIVE"
  BY <1>21, <1>t, <1>v DEF Complete, Finish, Goto, Return, SlotInv,
     AutomationRule
<1>22. ASSUME NEW c \in Callers, Stop(c)
      PROVE  rule'.next = rule.next \/ rule.status = "ACTIVE"
  BY <1>22, <1>t, <1>v DEF Stop, Return, SlotInv, AutomationRule
<1>23. ASSUME NEW c \in Callers, NEW e \in Executions, Resume(c, e)
      PROVE  rule'.next = rule.next \/ rule.status = "ACTIVE"
  BY <1>23, <1>t, <1>v DEF Resume, Deferred, Enter, Return, SlotInv,
     AutomationRule
<1>24. ASSUME NEW k \in Jobs, NEW e \in Executions, Observe(k, e)
      PROVE  rule'.next = rule.next \/ rule.status = "ACTIVE"
  BY <1>24, <1>t, <1>v DEF Observe, InDoubt, ContractMirrorOutcome, SlotInv,
     AutomationRule
<1>25. ASSUME NEW k \in Jobs, Reconcile(k)
      PROVE  rule'.next = rule.next \/ rule.status = "ACTIVE"
  BY <1>25, <1>t, <1>v DEF Reconcile, InDoubt, SlotInv, AutomationRule
<1>26. ASSUME NEW e \in Executions, ChainDecides(e)
      PROVE  rule'.next = rule.next \/ rule.status = "ACTIVE"
  BY <1>26, <1>t, <1>v DEF ChainDecides, SlotInv, AutomationRule
<1>27. ASSUME NEW e \in Executions, PaymentMoves(e)
      PROVE  rule'.next = rule.next \/ rule.status = "ACTIVE"
  BY <1>27, <1>t, <1>v DEF PaymentMoves, PaymentSteps, SlotInv,
     AutomationRule
<1>28. ASSUME NEW e \in Executions, Elapse(e)
      PROVE  rule'.next = rule.next \/ rule.status = "ACTIVE"
  BY <1>28, <1>t, <1>v DEF Elapse, SlotInv, AutomationRule
<1>29. ASSUME UNCHANGED vars PROVE rule'.next = rule.next \/ rule.status = "ACTIVE"
  BY <1>29, <1>t, <1>v DEF vars, SlotInv, AutomationRule
<1> QED
  BY <1>t, <1>1, <1>2, <1>3, <1>4, <1>5, <1>6, <1>7, <1>8, <1>9, <1>10, <1>11,
     <1>12, <1>13, <1>14, <1>15, <1>16, <1>17, <1>18, <1>19, <1>20, <1>21,
     <1>22, <1>23, <1>24, <1>25, <1>26, <1>27, <1>28, <1>29 DEF Next, Call,
     Proceed

(***************************************************************************)
(* A scheduled run is taken only while the rule is active, although a pass *)
(* reads the rule first and takes the run later.                           *)
(***************************************************************************)
THEOREM SlotsOfActiveRules == Spec => SlotsTakenWhileActive
<1>1. Init => SlotInv
  BY DEF Init, SlotInv
<1>2. TypeInv /\ SlotInv /\ [Next]_vars => [rule'.next # rule.next => rule.status = "ACTIVE"]_vars
  BY SlotTaken
<1> QED
  BY <1>1, <1>2, SlotStep, TypeInvariant, PTL DEF Spec, SlotsTakenWhileActive

-----------------------------------------------------------------------------
(* Layer 6: outcomes.  What a call or a sweep is about to write is true,   *)
(* and stays true: nothing is sent for an execution in doubt.              *)

TookEffect(e) == chain[e] = "success" \/ payment[e] = "SETTLED"
NeverWill(e) == e \in aged /\ chain[e] \notin {"sent", "success"}

CallsTrue == \A c \in Callers : pc[c] = "complete" => TookEffect(on[c])

RowTrue(e) ==
    /\ status[e] = "SUCCEEDED" => TookEffect(e)
    /\ e \in aged => /\ status[e] \in {"SUBMISSION_UNKNOWN", "SUCCEEDED", "FAILED"}
                     /\ chain[e] # "sent"
    /\ code[e] = "CONTRACT_TRANSACTION_NOT_FOUND" => NeverWill(e)
    /\ code[e] = "CONTRACT_TRANSACTION_FAILED" => chain[e] = "failed"

RowsTrue == \A e \in Executions : RowTrue(e)

JobTrue(seenBy) ==
    /\ seenBy.outcome = "SUCCEEDED" => chain[seenBy.execution] = "success"
    /\ seenBy.outcome = "FAILED" => chain[seenBy.execution] = "failed"
    /\ seenBy.outcome = "UNKNOWN" => NeverWill(seenBy.execution)

JobsTrue == \A k \in Jobs : job[k] # None => JobTrue(job[k])

OutcomeInv == CallsTrue /\ RowsTrue /\ JobsTrue

(***************************************************************************)
(* Every step keeps it.                                                    *)
(***************************************************************************)
LEMMA OutcomeStep == TypeInv /\ ClaimInv /\ OutcomeInv /\ [Next]_vars => OutcomeInv'
<1>t. SUFFICES ASSUME TypeInv, ClaimInv, OutcomeInv, [Next]_vars PROVE OutcomeInv'
    OBVIOUS
<1>n. /\ None \notin Executions
      /\ \A k \in Jobs : job[k] # None => job[k] \in Observation
  BY <1>t, ConstantsAssumption DEF ConstantsAssumption, TypeInv, TypeOK
<1>1. ASSUME NEW s \in {"ACTIVE", "PAUSED", "ARCHIVED"}, PatchRule(s)
      PROVE  OutcomeInv'
  BY <1>1, <1>t, <1>n DEF PatchRule, VersionsLeft, TypeInv, TypeOK,
     CallsWellFormed, ClaimInv, Busy, Working, OutcomeInv, CallsTrue,
     RowsTrue, RowTrue, JobsTrue, JobTrue, TookEffect, NeverWill
<1>2. ASSUME SetKillSwitch
      PROVE  OutcomeInv'
  BY <1>2, <1>t, <1>n DEF SetKillSwitch, TypeInv, TypeOK, CallsWellFormed,
     ClaimInv, Busy, Working, OutcomeInv, CallsTrue, RowsTrue, RowTrue,
     JobsTrue, JobTrue, TookEffect, NeverWill
<1>3. ASSUME DeleteOrganization
      PROVE  OutcomeInv'
  BY <1>3, <1>t, <1>n DEF DeleteOrganization, VersionsLeft, TypeInv, TypeOK,
     CallsWellFormed, ClaimInv, Busy, Working, OutcomeInv, CallsTrue,
     RowsTrue, RowTrue, JobsTrue, JobTrue, TookEffect, NeverWill
<1>4. ASSUME NEW c \in Callers, NEW e \in Executions, NEW u \in Users \cup {None}, Trigger(c, e, u)
      PROVE  OutcomeInv'
  BY <1>4, <1>t, <1>n DEF Trigger, TriggerAutomation, Enter, Return,
     TypeInv, TypeOK, CallsWellFormed, ClaimInv, Busy, Working, OutcomeInv,
     CallsTrue, RowsTrue, RowTrue, JobsTrue, JobTrue, TookEffect, NeverWill
<1>5. ASSUME NEW c \in Callers, ReadSchedule(c)
      PROVE  OutcomeInv'
  BY <1>5, <1>t, <1>n DEF ReadSchedule, TypeInv, TypeOK, CallsWellFormed,
     ClaimInv, Busy, Working, OutcomeInv, CallsTrue, RowsTrue, RowTrue,
     JobsTrue, JobTrue, TookEffect, NeverWill
<1>6. ASSUME NEW c \in Callers, TakeSlot(c)
      PROVE  OutcomeInv'
  BY <1>6, <1>t, <1>n DEF TakeSlot, Unchanged, Goto, Return, TypeInv,
     TypeOK, CallsWellFormed, ClaimInv, Busy, Working, OutcomeInv,
     CallsTrue, RowsTrue, RowTrue, JobsTrue, JobTrue, TookEffect, NeverWill
<1>7. ASSUME NEW c \in Callers, TriggerSlot(c)
      PROVE  OutcomeInv'
  BY <1>7, <1>t, <1>n DEF TriggerSlot, TriggerAutomation, Enter, Return,
     TypeInv, TypeOK, CallsWellFormed, ClaimInv, Busy, Working, OutcomeInv,
     CallsTrue, RowsTrue, RowTrue, JobsTrue, JobTrue, TookEffect, NeverWill
<1>8. ASSUME NEW c \in Callers, LoseSlot(c)
      PROVE  OutcomeInv'
  BY <1>8, <1>t, <1>n DEF LoseSlot, Return, TypeInv, TypeOK,
     CallsWellFormed, ClaimInv, Busy, Working, OutcomeInv, CallsTrue,
     RowsTrue, RowTrue, JobsTrue, JobTrue, TookEffect, NeverWill
<1>9. ASSUME NEW c \in Callers, NEW e \in Executions, NEW u \in Users, Approve(c, e, u)
      PROVE  OutcomeInv'
  BY <1>9, <1>t, <1>n DEF Approve, Enter, Return, TypeInv, TypeOK,
     CallsWellFormed, ClaimInv, Busy, Working, OutcomeInv, CallsTrue,
     RowsTrue, RowTrue, JobsTrue, JobTrue, TookEffect, NeverWill
<1>10. ASSUME NEW e \in Executions, NEW u \in Users, Reject(e, u)
      PROVE  OutcomeInv'
  BY <1>10, <1>t, <1>n DEF Reject, TypeInv, TypeOK, CallsWellFormed,
     ClaimInv, Busy, Working, OutcomeInv, CallsTrue, RowsTrue, RowTrue,
     JobsTrue, JobTrue, TookEffect, NeverWill
<1>11. ASSUME NEW c \in Callers, Claim(c)
      PROVE  OutcomeInv'
  BY <1>11, <1>t, <1>n DEF Claim, Claimable, Goto, Return, TypeInv, TypeOK,
     CallsWellFormed, ClaimInv, Busy, Working, OutcomeInv, CallsTrue,
     RowsTrue, RowTrue, JobsTrue, JobTrue, TookEffect, NeverWill
<1>12. ASSUME NEW c \in Callers, Check(c)
      PROVE  OutcomeInv'
  BY <1>12, <1>t, <1>n DEF Check, Goto, TypeInv, TypeOK, CallsWellFormed,
     ClaimInv, Busy, Working, OutcomeInv, CallsTrue, RowsTrue, RowTrue,
     JobsTrue, JobTrue, TookEffect, NeverWill
<1>13. ASSUME NEW c \in Callers, Record(c)
      PROVE  OutcomeInv'
  BY <1>13, <1>t, <1>n DEF Record, Goto, TypeInv, TypeOK, CallsWellFormed,
     ClaimInv, Busy, Working, OutcomeInv, CallsTrue, RowsTrue, RowTrue,
     JobsTrue, JobTrue, TookEffect, NeverWill
<1>14. ASSUME NEW c \in Callers, Send(c)
      PROVE  OutcomeInv'
  <2>1. on[c] \in Executions /\ on[c] \notin aged /\ status[on[c]] = "EXECUTING"
    BY <1>14, <1>t DEF Send, TypeInv, CallsWellFormed, ClaimInv, Busy, Working, OutcomeInv, RowsTrue, RowTrue
  <2>2. /\ \A e \in Executions : chain'[e] = chain[e] \/ (e \notin aged /\ chain[e] = "unsent")
        /\ UNCHANGED <<status, code, payment, aged, job, on>>
        /\ \A d \in Callers : pc'[d] = "complete" => pc[d] = "complete"
    BY <1>14, <1>t, <2>1 DEF Send, Goto, TypeInv, TypeOK
  <2>3. \A d \in Callers : pc[d] = "complete" => on[d] \in Executions
    BY <1>t DEF TypeInv, CallsWellFormed, Working
  <2>4. CallsTrue'
    BY <1>t, <2>2, <2>3 DEF OutcomeInv, CallsTrue, TookEffect
  <2>5. RowsTrue'
    BY <1>t, <2>2 DEF OutcomeInv, RowsTrue, RowTrue, TookEffect, NeverWill
  <2>6. JobsTrue'
    BY <1>t, <1>n, <2>2 DEF OutcomeInv, JobsTrue, JobTrue, NeverWill, Observation
  <2> QED
    BY <2>4, <2>5, <2>6 DEF OutcomeInv
<1>15. ASSUME NEW c \in Callers, Await(c)
      PROVE  OutcomeInv'
  <2>1. on[c] \in Executions
    BY <1>15, <1>t DEF Await, TypeInv, CallsWellFormed, Working
  <2>2. /\ \A e \in Executions : chain'[e] = chain[e] \/ (chain[e] = "sent" /\ chain'[e] = "lost")
        /\ UNCHANGED <<status, code, payment, aged, job, on>>
        /\ \A d \in Callers : pc'[d] = "complete" => pc[d] = "complete" \/ chain[on[d]] = "success"
    BY <1>15, <1>t, <2>1 DEF Await, Goto, TypeInv, TypeOK
  <2>3. \A d \in Callers : pc'[d] = "complete" => on[d] \in Executions
    BY <1>15, <1>t DEF Await, Goto, TypeInv, TypeOK, CallsWellFormed, Working
  <2>4. CallsTrue'
    BY <1>t, <2>2, <2>3 DEF OutcomeInv, CallsTrue, TookEffect
  <2>5. RowsTrue'
    BY <1>t, <2>2 DEF OutcomeInv, RowsTrue, RowTrue, TookEffect, NeverWill
  <2>6. JobsTrue'
    BY <1>t, <1>n, <2>2 DEF OutcomeInv, JobsTrue, JobTrue, NeverWill, Observation
  <2> QED
    BY <2>4, <2>5, <2>6 DEF OutcomeInv
<1>16. ASSUME NEW c \in Callers, Pay(c)
      PROVE  OutcomeInv'
  BY <1>16, <1>t, <1>n DEF Pay, Goto, TypeInv, TypeOK, CallsWellFormed,
     ClaimInv, Busy, Working, OutcomeInv, CallsTrue, RowsTrue, RowTrue,
     JobsTrue, JobTrue, TookEffect, NeverWill
<1>17. ASSUME NEW c \in Callers, Judge(c)
      PROVE  OutcomeInv'
  BY <1>17, <1>t, <1>n DEF Judge, Goto, AutomationPaymentOutcome, TypeInv,
     TypeOK, CallsWellFormed, ClaimInv, Busy, Working, OutcomeInv,
     CallsTrue, RowsTrue, RowTrue, JobsTrue, JobTrue, TookEffect, NeverWill
<1>18. ASSUME NEW c \in Callers, Defer(c)
      PROVE  OutcomeInv'
  BY <1>18, <1>t, <1>n DEF Defer, Finish, Return, TypeInv, TypeOK,
     CallsWellFormed, ClaimInv, Busy, Working, OutcomeInv, CallsTrue,
     RowsTrue, RowTrue, JobsTrue, JobTrue, TookEffect, NeverWill
<1>19. ASSUME NEW c \in Callers, MarkUnknown(c)
      PROVE  OutcomeInv'
  BY <1>19, <1>t, <1>n DEF MarkUnknown, Finish, Return, TypeInv, TypeOK,
     CallsWellFormed, ClaimInv, Busy, Working, OutcomeInv, CallsTrue,
     RowsTrue, RowTrue, JobsTrue, JobTrue, TookEffect, NeverWill
<1>20. ASSUME NEW c \in Callers, Fail(c)
      PROVE  OutcomeInv'
  BY <1>20, <1>t, <1>n DEF Fail, Finish, Return, TypeInv, TypeOK,
     CallsWellFormed, ClaimInv, Busy, Working, OutcomeInv, CallsTrue,
     RowsTrue, RowTrue, JobsTrue, JobTrue, TookEffect, NeverWill
<1>21. ASSUME NEW c \in Callers, Complete(c)
      PROVE  OutcomeInv'
  BY <1>21, <1>t, <1>n DEF Complete, Finish, Goto, Return, TypeInv, TypeOK,
     CallsWellFormed, ClaimInv, Busy, Working, OutcomeInv, CallsTrue,
     RowsTrue, RowTrue, JobsTrue, JobTrue, TookEffect, NeverWill
<1>22. ASSUME NEW c \in Callers, Stop(c)
      PROVE  OutcomeInv'
  BY <1>22, <1>t, <1>n DEF Stop, Return, TypeInv, TypeOK, CallsWellFormed,
     ClaimInv, Busy, Working, OutcomeInv, CallsTrue, RowsTrue, RowTrue,
     JobsTrue, JobTrue, TookEffect, NeverWill
<1>23. ASSUME NEW c \in Callers, NEW e \in Executions, Resume(c, e)
      PROVE  OutcomeInv'
  BY <1>23, <1>t, <1>n DEF Resume, Deferred, Enter, Return, TypeInv, TypeOK,
     CallsWellFormed, ClaimInv, Busy, Working, OutcomeInv, CallsTrue,
     RowsTrue, RowTrue, JobsTrue, JobTrue, TookEffect, NeverWill
<1>24. ASSUME NEW k \in Jobs, NEW e \in Executions, Observe(k, e)
      PROVE  OutcomeInv'
  <2>1. PICK outcome \in ContractMirrorOutcome(e) :
            /\ Conclusive(e, outcome)
            /\ job' = [job EXCEPT ![k] = [execution |-> e, outcome |-> outcome]]
    BY <1>24 DEF Observe
  <2>2. JobTrue([execution |-> e, outcome |-> outcome])
    BY <1>t, <2>1 DEF ContractMirrorOutcome, Conclusive, JobTrue, NeverWill, OutcomeInv, RowsTrue, RowTrue
  <2>3. UNCHANGED <<status, code, payment, chain, aged, pc, on>>
    BY <1>24 DEF Observe
  <2>4. JobsTrue'
    BY <1>t, <2>1, <2>2, <2>3 DEF TypeInv, TypeOK, OutcomeInv, JobsTrue, JobTrue, NeverWill
  <2> QED
    BY <1>t, <2>3, <2>4 DEF OutcomeInv, CallsTrue, RowsTrue, RowTrue, TookEffect, NeverWill
<1>25. ASSUME NEW k \in Jobs, Reconcile(k)
      PROVE  OutcomeInv'
  <2>1. PICK e \in Executions, found \in {"SUCCEEDED", "FAILED", "UNKNOWN"} :
            job[k].execution = e /\ job[k].outcome = found /\ JobTrue(job[k])
    BY <1>25, <1>t, <1>n DEF Reconcile, Observation, OutcomeInv, JobsTrue
  <2>2. /\ \A x \in Executions \ {e} : status'[x] = status[x] /\ code'[x] = code[x]
        /\ UNCHANGED <<payment, chain, aged, pc, on>>
        /\ \A j \in Jobs : job'[j] # None => job'[j] = job[j]
    <3>1. \A x \in Executions \ {e} : status'[x] = status[x] /\ code'[x] = code[x]
      BY <1>25, <1>t, <2>1 DEF Reconcile, TypeInv, TypeOK
    <3>2. \A j \in Jobs : job'[j] # None => job'[j] = job[j]
      BY <1>25, <1>t DEF Reconcile, TypeInv, TypeOK
    <3> QED
      BY <1>25, <3>1, <3>2 DEF Reconcile
  <2>3. RowTrue(e)'
    <3>1. CASE ~InDoubt(e)
      BY <1>25, <1>t, <2>1, <2>2, <3>1
      DEF Reconcile, OutcomeInv, RowsTrue, RowTrue, TookEffect, NeverWill
    <3>2. CASE InDoubt(e) /\ found = "SUCCEEDED"
      BY <1>25, <1>t, <2>1, <2>2, <3>2
      DEF Reconcile, TypeInv, TypeOK, OutcomeInv, RowsTrue, RowTrue, JobTrue, TookEffect, NeverWill
    <3>3. CASE InDoubt(e) /\ found = "FAILED"
      BY <1>25, <1>t, <2>1, <2>2, <3>3
      DEF Reconcile, TypeInv, TypeOK, OutcomeInv, RowsTrue, RowTrue, JobTrue, TookEffect, NeverWill
    <3>4. CASE InDoubt(e) /\ found = "UNKNOWN"
      BY <1>25, <1>t, <2>1, <2>2, <3>4
      DEF Reconcile, TypeInv, TypeOK, OutcomeInv, RowsTrue, RowTrue, JobTrue, TookEffect, NeverWill
    <3> QED
      BY <2>1, <3>1, <3>2, <3>3, <3>4
  <2>4. RowsTrue'
    BY <1>t, <2>2, <2>3 DEF OutcomeInv, RowsTrue, RowTrue, TookEffect, NeverWill
  <2>5. CallsTrue' /\ JobsTrue'
    BY <1>t, <2>2 DEF OutcomeInv, CallsTrue, JobsTrue, JobTrue, TookEffect, NeverWill
  <2> QED
    BY <2>4, <2>5 DEF OutcomeInv
<1>26. ASSUME NEW e \in Executions, ChainDecides(e)
      PROVE  OutcomeInv'
  BY <1>26, <1>t, <1>n DEF ChainDecides, TypeInv, TypeOK, CallsWellFormed,
     ClaimInv, Busy, Working, OutcomeInv, CallsTrue, RowsTrue, RowTrue,
     JobsTrue, JobTrue, TookEffect, NeverWill
<1>27. ASSUME NEW e \in Executions, PaymentMoves(e)
      PROVE  OutcomeInv'
  BY <1>27, <1>t, <1>n DEF PaymentMoves, PaymentSteps, TypeInv, TypeOK,
     CallsWellFormed, ClaimInv, Busy, Working, OutcomeInv, CallsTrue,
     RowsTrue, RowTrue, JobsTrue, JobTrue, TookEffect, NeverWill
<1>28. ASSUME NEW e \in Executions, Elapse(e)
      PROVE  OutcomeInv'
  <2>1. /\ UNCHANGED <<status, code, payment, chain, pc, on, job>>
        /\ aged' = aged \cup {e} /\ status[e] = "SUBMISSION_UNKNOWN" /\ chain[e] # "sent"
    BY <1>28 DEF Elapse, InDoubt
  <2>2. RowsTrue'
    BY <1>t, <2>1 DEF OutcomeInv, RowsTrue, RowTrue, TookEffect, NeverWill
  <2>3. CallsTrue' /\ JobsTrue'
    BY <1>t, <2>1 DEF OutcomeInv, CallsTrue, JobsTrue, JobTrue, TookEffect, NeverWill
  <2> QED
    BY <2>2, <2>3 DEF OutcomeInv
<1>29. ASSUME UNCHANGED vars PROVE OutcomeInv'
  BY <1>29, <1>t, <1>n DEF vars, TypeInv, TypeOK, CallsWellFormed, ClaimInv,
     Busy, Working, OutcomeInv, CallsTrue, RowsTrue, RowTrue, JobsTrue,
     JobTrue, TookEffect, NeverWill
<1> QED
  BY <1>t, <1>1, <1>2, <1>3, <1>4, <1>5, <1>6, <1>7, <1>8, <1>9, <1>10, <1>11,
     <1>12, <1>13, <1>14, <1>15, <1>16, <1>17, <1>18, <1>19, <1>20, <1>21,
     <1>22, <1>23, <1>24, <1>25, <1>26, <1>27, <1>28, <1>29 DEF Next, Call,
     Proceed

(***************************************************************************)
(* An execution reported as done was done, and one whose contract          *)
(* transaction is reported as failed on chain or never found has not and   *)
(* will not take effect.  Other failures are not constrained.              *)
(***************************************************************************)
THEOREM OutcomesAreTrue == Spec => []OutcomeIsTrue
<1>1. Init => OutcomeInv
  BY DEF Init, OutcomeInv, CallsTrue, RowsTrue, RowTrue, JobsTrue
<1>2. OutcomeInv => OutcomeIsTrue
  BY DEF OutcomeInv, RowsTrue, RowTrue, OutcomeIsTrue, TookEffect, NeverWill
<1> QED
  BY <1>1, <1>2, OutcomeStep, TypeInvariant, ClaimInvariant, PTL DEF Spec
=============================================================================
