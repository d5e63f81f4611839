-------------------------- MODULE X10PipelineProofs --------------------------
(***************************************************************************)
(* For every house code, number of DIM levels, retry and disturbance bound: *)
(* the threads of X10Pipeline keep their variables in range, keep to the    *)
(* protocol of X10Queue, leave a device unattended only after the planner   *)
(* has overtaken what waits in the reverse queue, and believe of a device    *)
(* what it shows however many of their echoes are lost.                     *)
(***************************************************************************)
EXTENDS X10Pipeline, PlannerProofs

(* The lock belongs to the thread that is where it needs it, and the TW523  *)
(* thread remembers a message only while it flushes.                       *)
LockInv ==
    /\ rules \in {"planning", "firing"} <=> mutex = "rules"
    /\ tw523 \in {"flushing", "sending", "answered", "finished"} <=> mutex = "tw523"
    /\ tw523 \in {"sending", "answered"} => x10_sent_message \in Messages
    /\ tw523 \in {"halfCycle", "wantsToFlush", "finished"} => x10_sent_message = Nothing

Inv == TypeOK /\ LockInv /\ WishesOK(device)

USE PlannerAssumption, X10PipelineAssumption
    DEF PlannerAssumption, X10PipelineAssumption

LEMMA MessagesType ==
    /\ Nothing \notin Messages
    /\ \A u \in Units : Address(u) \in Messages
    /\ \A f \in Functions : Command(f) \in Messages
  BY DEF Messages, Nothing, Address, Command

LEMMA NewDeviceType ==
    /\ [u \in Units |-> NewDevice(Kind[u])] \in [Units -> Devices]
    /\ [u \in Units |-> [NewDevice(Kind[u]) EXCEPT !.state = Off]] \in [Units -> Devices]
    /\ WishesOK([u \in Units |-> NewDevice(Kind[u])])
  <1>1. ASSUME NEW k \in Kinds
        PROVE  /\ NewDevice(k) \in Devices
               /\ [NewDevice(k) EXCEPT !.state = Off] \in Devices
               /\ k \in Real => NewDevice(k).wanted \in WishesOf(k)
    BY DeviceConstants DEF NewDevice, Devices, Selected, WishesOf
  <1>2. /\ [u \in Units |-> NewDevice(Kind[u])] \in [Units -> Devices]
        /\ [u \in Units |-> [NewDevice(Kind[u]) EXCEPT !.state = Off]] \in [Units -> Devices]
    BY <1>1, KindType
  <1>3. WishesOK([u \in Units |-> NewDevice(Kind[u])])
    BY <1>1, KindType DEF WishesOK, IsReal
  <1> QED
    BY <1>2, <1>3

LEMMA InitInv == Init => Inv
  <1> SUFFICES ASSUME Init PROVE Inv
    OBVIOUS
  <1>1. mQueue \in Seq(Messages) /\ reverseQueue \in Seq(Received) /\ Len(mQueue) = 0
    BY DEF Init
  <1>2. /\ device \in [Units -> Devices] /\ actual \in [Units -> Devices]
        /\ WishesOK(device)
    BY NewDeviceType DEF Init
  <1>3. /\ allX10DevicesInWantedState \in BOOLEAN /\ overtaken \in BOOLEAN
        /\ trusted \in BOOLEAN /\ acknowledged \in BOOLEAN
    BY DEF Init
  <1>4. LockInv
    BY DEF Init, LockInv
  <1> QED
    BY <1>1, <1>2, <1>3, <1>4 DEF Init, Inv, TypeOK

\* What the rules thread does keeps the invariant.
LEMMA RulesStepInv == Inv /\ RulesNext => Inv'
  <1> SUFFICES ASSUME Inv, RulesNext PROVE Inv'
    OBVIOUS
  <1> USE DEF Inv, TypeOK, LockInv, houseVars, mainsVars, queueVars, tw523Vars
  <1>1. CASE Listen
    <2>1. /\ Head(reverseQueue) \in Received
          /\ reverseQueue' \in Seq(Received)
      BY <1>1 DEF Listen
    <2>2. device' \in [Units -> Devices] /\ WishesOK(device')
      BY <1>1, <2>1, HearType DEF Listen, Received
    <2>3. allX10DevicesInWantedState' \in BOOLEAN
      BY <1>1, Zenon DEF Listen
    <2> QED
      BY <1>1, <2>1, <2>2, <2>3 DEF Listen
  <1>2. CASE Listened
    BY <1>2 DEF Listened
  <1>3. CASE Look
    BY <1>3 DEF Look
  <1>4. CASE StartPlan
    BY <1>4 DEF StartPlan
  <1>5. CASE AddMessage
    <2>1. Plan(device) \in Seq(Messages)
      BY PlanIsPlan DEF IsPlan
    <2>2. mQueue' \in Seq(Messages) /\ Len(mQueue') = Len(mQueue) + 1
      BY <1>5, <2>1 DEF AddMessage
    <2> QED
      BY <1>5, <2>2 DEF AddMessage
  <1>6. CASE EndPlan
    <2>1. allX10DevicesInWantedState' \in BOOLEAN /\ overtaken' \in BOOLEAN
      BY <1>6, Zenon DEF EndPlan
    <2> QED
      BY <1>6, <2>1 DEF EndPlan
  <1>7. CASE CallRule
    BY <1>7 DEF CallRule
  <1>8. CASE StartRule
    BY <1>8 DEF StartRule
  <1>9. ASSUME NEW u \in Units, NEW w \in Wishes, SetWantedState(u, w) PROVE Inv'
    <2>1. w \in States /\ w \in WishesOf(Kind[u])
      BY <1>9, KindType, WishesAreStates DEF SetWantedState
    <2>2. device' = [device EXCEPT ![u].wanted = w]
      BY <1>9 DEF SetWantedState
    <2>3. device' \in [Units -> Devices]
      BY <2>1, <2>2 DEF Devices
    <2>4. WishesOK(device')
      BY <2>1, <2>2 DEF WishesOK, Devices
    <2>5. allX10DevicesInWantedState' \in BOOLEAN
      BY <1>9, Zenon DEF SetWantedState
    <2> QED
      BY <1>9, <2>3, <2>4, <2>5 DEF SetWantedState
  <1>10. CASE NextTurn
    BY <1>10 DEF NextTurn
  <1> QED
    BY <1>1, <1>2, <1>3, <1>4, <1>5, <1>6, <1>7, <1>8, <1>9, <1>10 DEF RulesNext

LEMMA ReachesType ==
    ASSUME Inv, NEW m \in Messages, Reaches(m)
    PROVE  actual' \in [Units -> Devices]
  BY HearType DEF Inv, TypeOK, Reaches

LEMMA ReceivedType ==
    ASSUME Inv, NEW external \in BOOLEAN, NEW m \in Messages,
           reverseQueue' = Append(reverseQueue, [external |-> external, message |-> m])
    PROVE  reverseQueue' \in Seq(Received)
  BY DEF Inv, TypeOK, Received

\* What the TW523 thread does keeps the invariant.
LEMMA TW523StepInv ==
    Inv /\ (Send \/ NotHeard \/ TimerDue \/ \E m \in Messages : Overhear(m)) => Inv'
  <1> SUFFICES ASSUME Inv, Send \/ NotHeard \/ TimerDue \/ \E m \in Messages : Overhear(m)
               PROVE  Inv'
    OBVIOUS
  <1> USE DEF Inv, TypeOK, LockInv, houseVars, mainsVars, queueVars, tw523Vars, ruleState, Disturb
  <1>1. CASE SeeWork
    BY <1>1 DEF SeeWork
  <1>2. CASE StartFlush
    BY <1>2 DEF StartFlush
  <1>3. CASE SendNext
    <2>1. mQueue[mQueueHead + 1] \in Messages
      BY <1>3 DEF SendNext, Waiting
    <2> QED
      BY <1>3, <2>1 DEF SendNext, Waiting
  <1>4. CASE EchoHeard
    <2>1. actual' \in [Units -> Devices] /\ reverseQueue' \in Seq(Received)
      BY <1>4, ReachesType, ReceivedType DEF EchoHeard
    <2> QED
      BY <1>4, <2>1 DEF EchoHeard
  <1>5. CASE Acknowledged
    BY <1>5 DEF Acknowledged
  <1>6. CASE Resend
    BY <1>6 DEF Resend, MayResend
  <1>7. CASE Restart
    BY <1>7 DEF Restart, MayRestart
  <1>8. CASE GiveUp
    BY <1>8 DEF GiveUp, FlushReturns
  <1>9. CASE AllSent
    BY <1>9 DEF AllSent, FlushReturns
  <1>10. CASE EndFlush
    BY <1>10 DEF EndFlush
  <1>11. CASE NotHeard
    <2>0. /\ tw523 = "sending" /\ tw523' = "answered" /\ acknowledged' = FALSE
          /\ disturbances' \in 0..MaxDisturbances
          /\ UNCHANGED <<ruleState, due, mutex, queueVars, x10_sent_message,
                         immediateRetryCount, completeMessageRetry>>
      BY <1>11 DEF NotHeard
    <2>1. CASE /\ Reaches(x10_sent_message) \/ UNCHANGED actual
               /\ UNCHANGED <<reverseQueue, trusted>>
      <3>1. actual' \in [Units -> Devices]
        BY <2>0, <2>1, ReachesType
      <3> QED
        BY <2>0, <2>1, <3>1
    <2>2. ASSUME NEW m \in Messages \ {x10_sent_message},
                 Reaches(m) /\ trusted' = FALSE
                 /\ reverseQueue' = Append(reverseQueue, [external |-> TRUE, message |-> m])
          PROVE  Inv'
      <3>1. actual' \in [Units -> Devices] /\ reverseQueue' \in Seq(Received)
        BY <2>2, ReachesType, ReceivedType
      <3> QED
        BY <2>0, <2>2, <3>1
    <2> QED
      BY <1>11, <2>1, <2>2 DEF NotHeard
  <1>12. CASE TimerDue
    BY <1>12 DEF TimerDue
  <1>13. ASSUME NEW m \in Messages, Overhear(m) PROVE Inv'
    <2>1. actual' \in [Units -> Devices]
      BY <1>13, ReachesType DEF Overhear
    <2>2. PICK external \in BOOLEAN : external = (m # x10_sent_message)
      OBVIOUS
    <2>3. reverseQueue' = Append(reverseQueue, [external |-> external, message |-> m])
      BY <1>13, <2>2 DEF Overhear
    <2>4. reverseQueue' \in Seq(Received)
      BY <2>3, ReceivedType
    <2>5. /\ disturbances' \in 0..MaxDisturbances /\ trusted' = FALSE
          /\ UNCHANGED <<ruleState, due, mutex, queueVars, tw523Vars>>
      BY <1>13 DEF Overhear
    <2>6. TypeOK'
      BY <2>1, <2>4, <2>5
    <2>7. LockInv'
      BY <2>5
    <2>8. WishesOK(device)'
      BY <2>5 DEF WishesOK
    <2> QED
      BY <2>6, <2>7, <2>8
  <1> QED
    BY <1>1, <1>2, <1>3, <1>4, <1>5, <1>6, <1>7, <1>8, <1>9, <1>10, <1>11, <1>12, <1>13 DEF Send

LEMMA StepInv == Inv /\ [Next]_vars => Inv'
  <1>1. Inv /\ UNCHANGED vars => Inv'
    BY DEF Inv, TypeOK, LockInv, WishesOK, vars, houseVars, mainsVars, queueVars, tw523Vars
  <1> QED
    BY <1>1, RulesStepInv, TW523StepInv DEF Next

LEMMA Invariance == Spec => []Inv
  BY InitInv, StepInv, PTL DEF Spec

(* Every variable keeps its range: no queue is read past its end, no count   *)
(* of retries or passes runs past what tw523.cpp gives it.                  *)
THEOREM TypeCorrect == Spec => []TypeOK
  <1>1. Inv => TypeOK
    BY DEF Inv
  <1> QED
    BY <1>1, Invariance, PTL

-----------------------------------------------------------------------------
(* The protocol of X10Queue.                                                *)

LEMMA LongestPlanType ==
    ASSUME NEW D \in [Units -> Devices]
    PROVE  /\ LongestPlan \in Nat
           /\ Plan(D) \in Seq(Messages) /\ Len(Plan(D)) <= LongestPlan
  <1>1. /\ LongestPlan \in Nat
        /\ NumUnits + MaxDim <= LongestPlan /\ AllOffRepeatCount <= LongestPlan
    <2>1. NumUnits + MaxDim \in Nat /\ AllOffRepeatCount \in Nat
      BY DeviceConstants DEF AllOffRepeatCount
    <2>2. \E x \in {NumUnits + MaxDim, AllOffRepeatCount} :
             \A y \in {NumUnits + MaxDim, AllOffRepeatCount} : x >= y
      BY <2>1
    <2> QED
      BY <2>1, <2>2 DEF LongestPlan, Max
  <1>2. IsPlan(Plan(D))
    BY PlanIsPlan
  <1>3. Plan(D) \in Seq(Messages) /\ Len(Plan(D)) \in Nat
    BY <1>2 DEF IsPlan
  <1>4. Len(Plan(D)) <= NumUnits + MaxDim \/ Len(Plan(D)) = AllOffRepeatCount
    BY <1>2 DEF IsPlan
  <1>5. NumUnits + MaxDim \in Nat
    BY DeviceConstants
  <1> QED
    BY <1>1, <1>3, <1>4, <1>5

LEMMA InitIsLockInit == Init => Lock!QueueInit
  <1> SUFFICES ASSUME Init PROVE Lock!QueueInit
    OBVIOUS
  <1>1. ContainsDimOrBright = FALSE
    BY DEF Init, ContainsDimOrBright
  <1> QED
    BY <1>1 DEF Init, Lock!QueueInit

\* A step of the rules thread is one of X10Queue's, or changes nothing there.
LEMMA RulesStepKeepsToLock == Inv /\ RulesNext => [Lock!QueueNext]_(Lock!queueVars)
  <1> SUFFICES ASSUME Inv, RulesNext PROVE [Lock!QueueNext]_(Lock!queueVars)
    OBVIOUS
  <1> USE DEF houseVars, mainsVars, queueVars, tw523Vars, Lock!queueVars, Lock!Waiting
  <1>1. UNCHANGED mQueue => UNCHANGED ContainsDimOrBright
    BY DEF ContainsDimOrBright
  <1>2. CASE Listen \/ Listened \/ NextTurn
    BY <1>1, <1>2 DEF Listen, Listened, NextTurn
  <1>3. CASE Look
    <2>1. UNCHANGED Lock!queueVars \/ Lock!SeeEmpty
      BY <1>1, <1>3 DEF Look, Waiting, Lock!SeeEmpty
    <2> QED
      BY <2>1 DEF Lock!QueueNext, Lock!RulesNext
  <1>4. CASE StartPlan
    <2>1. ContainsDimOrBright' = FALSE /\ Len(mQueue') = 0
      BY <1>4 DEF StartPlan, ContainsDimOrBright
    <2>2. Lock!StartPlan
      BY <1>4, <2>1 DEF StartPlan, Lock!StartPlan, Lock!Clear
    <2> QED
      BY <2>2 DEF Lock!QueueNext, Lock!RulesNext
  <1>5. CASE AddMessage
    <2>1. /\ Len(mQueue) < LongestPlan
          /\ Len(mQueue') = Len(mQueue) + 1
      BY <1>5, LongestPlanType DEF AddMessage, Inv, TypeOK
    <2>2. ASSUME ContainsDimOrBright PROVE ContainsDimOrBright'
      <3>1. PICK i \in DOMAIN mQueue : mQueue[i] \in {Command("Dim"), Command("Bright")}
        BY <2>2 DEF ContainsDimOrBright
      <3>2. mQueue' = Append(mQueue, Plan(device)[Len(mQueue) + 1]) /\ mQueue \in Seq(Messages)
        BY <1>5 DEF AddMessage, Inv, TypeOK
      <3>3. i \in DOMAIN mQueue' /\ mQueue'[i] = mQueue[i]
        BY <3>1, <3>2
      <3> QED
        BY <3>1, <3>3 DEF ContainsDimOrBright
    <2>3. ContainsDimOrBright' \in {ContainsDimOrBright, TRUE}
      BY <2>2, Zenon DEF ContainsDimOrBright
    <2>4. Lock!AddMessage
      BY <1>5, <2>1, <2>3 DEF AddMessage, Lock!AddMessage
    <2> QED
      BY <2>4 DEF Lock!QueueNext, Lock!RulesNext
  <1>6. CASE EndPlan
    <2>1. Lock!EndPlan
      BY <1>1, <1>6 DEF EndPlan, Lock!EndPlan
    <2> QED
      BY <2>1 DEF Lock!QueueNext, Lock!RulesNext
  <1>7. CASE CallRule
    <2>1. Lock!CallRule
      BY <1>1, <1>7 DEF CallRule, Lock!CallRule
    <2> QED
      BY <2>1 DEF Lock!QueueNext, Lock!RulesNext
  <1>8. CASE StartRule
    <2>1. Lock!StartRule
      BY <1>1, <1>8 DEF StartRule, Lock!StartRule
    <2> QED
      BY <2>1 DEF Lock!QueueNext, Lock!RulesNext
  <1>9. ASSUME NEW u \in Units, NEW w \in Wishes, SetWantedState(u, w)
        PROVE  Lock!QueueNext
    <2>1. Lock!EndRule
      BY <1>1, <1>9 DEF SetWantedState, Lock!EndRule
    <2> QED
      BY <2>1 DEF Lock!QueueNext, Lock!RulesNext
  <1> QED
    BY <1>2, <1>3, <1>4, <1>5, <1>6, <1>7, <1>8, <1>9 DEF RulesNext

\* And so is a step of the TW523 thread.
LEMMA TW523StepKeepsToLock ==
    Inv /\ (Send \/ NotHeard \/ TimerDue \/ \E m \in Messages : Overhear(m))
        => [Lock!QueueNext]_(Lock!queueVars)
  <1> SUFFICES ASSUME Inv, Send \/ NotHeard \/ TimerDue \/ \E m \in Messages : Overhear(m)
               PROVE  [Lock!QueueNext]_(Lock!queueVars)
    OBVIOUS
  <1> USE DEF houseVars, mainsVars, queueVars, tw523Vars, ruleState, Lock!queueVars, Lock!Waiting,
              Waiting
  <1>1. UNCHANGED mQueue => UNCHANGED ContainsDimOrBright
    BY DEF ContainsDimOrBright
  <1>2. CASE EchoHeard \/ NotHeard \/ Resend
    BY <1>1, <1>2 DEF EchoHeard, NotHeard, Resend
  <1>3. ASSUME NEW m \in Messages, Overhear(m) PROVE UNCHANGED Lock!queueVars
    BY <1>1, <1>3 DEF Overhear
  <1>4. CASE TimerDue
    <2>1. Lock!HalfCycle
      BY <1>1, <1>4 DEF TimerDue, Lock!HalfCycle
    <2> QED
      BY <2>1 DEF Lock!QueueNext, Lock!TW523Next
  <1>5. CASE SeeWork
    <2>1. Lock!SeeWork
      BY <1>1, <1>5 DEF SeeWork, Lock!SeeWork
    <2> QED
      BY <2>1 DEF Lock!QueueNext, Lock!TW523Next
  <1>6. CASE StartFlush
    <2>1. Lock!StartFlush
      BY <1>1, <1>6 DEF StartFlush, Lock!StartFlush
    <2> QED
      BY <2>1 DEF Lock!QueueNext, Lock!TW523Next
  <1>7. CASE SendNext
    <2>1. Lock!SendNext
      BY <1>1, <1>7 DEF SendNext, Lock!SendNext
    <2> QED
      BY <2>1 DEF Lock!QueueNext, Lock!TW523Next
  <1>8. CASE Acknowledged
    <2>1. Lock!Acknowledged
      BY <1>1, <1>8 DEF Acknowledged, Lock!Acknowledged
    <2> QED
      BY <2>1 DEF Lock!QueueNext, Lock!TW523Next
  <1>9. CASE Restart
    <2>1. Lock!Restart
      BY <1>1, <1>9 DEF Restart, MayRestart, Lock!Restart
    <2> QED
      BY <2>1 DEF Lock!QueueNext, Lock!TW523Next
  <1>10. CASE GiveUp
    <2>1. ContainsDimOrBright \/ completeMessageRetry + 1 = MaxPasses
      BY <1>10 DEF GiveUp, MayRestart, Inv, TypeOK
    <2>2. Lock!GiveUp
      BY <1>1, <1>10, <2>1 DEF GiveUp, FlushReturns, Lock!GiveUp
    <2> QED
      BY <2>2 DEF Lock!QueueNext, Lock!TW523Next
  <1>11. CASE AllSent
    <2>1. Lock!AllSent
      BY <1>1, <1>11 DEF AllSent, FlushReturns, Lock!AllSent
    <2> QED
      BY <2>1 DEF Lock!QueueNext, Lock!TW523Next
  <1>12. CASE EndFlush
    <2>1. ContainsDimOrBright' = FALSE /\ Len(mQueue') = 0
      BY <1>12 DEF EndFlush, ContainsDimOrBright
    <2>2. Lock!EndFlush
      BY <1>12, <2>1 DEF EndFlush, Lock!EndFlush, Lock!Clear
    <2> QED
      BY <2>2 DEF Lock!QueueNext, Lock!TW523Next
  <1> QED
    BY <1>2, <1>3, <1>4, <1>5, <1>6, <1>7, <1>8, <1>9, <1>10, <1>11, <1>12 DEF Send

(* The threads with the plan, the messages and the retries they really       *)
(* carry keep to the protocol of the lock and the queue (queue.cpp), so what *)
(* RulesProofs proves of it holds of them.                                  *)
THEOREM KeepsToX10QueueHolds == Spec => KeepsToX10Queue
  <1>1. Inv /\ [Next]_vars => [Lock!QueueNext]_(Lock!queueVars)
    <2>1. UNCHANGED vars => UNCHANGED Lock!queueVars
      BY DEF vars, houseVars, queueVars, tw523Vars, Lock!queueVars, ContainsDimOrBright
    <2> QED
      BY <2>1, RulesStepKeepsToLock, TW523StepKeepsToLock DEF Next
  <1> QED
    BY <1>1, InitIsLockInit, Invariance, PTL DEF Spec, KeepsToX10Queue

(* A plan is added to an empty queue, and only a flush takes from it.        *)
SharedQueueInv ==
    /\ Len(mQueue) <= LongestPlan
    /\ mutex # "tw523" => mQueueHead = 0
    /\ rules = "wantsToPlan" /\ mutex # "tw523" => mQueue = <<>>

LEMMA SharedQueueStep == Inv /\ SharedQueueInv /\ [Next]_vars => SharedQueueInv'
  <1> SUFFICES ASSUME Inv, SharedQueueInv, [Next]_vars PROVE SharedQueueInv'
    OBVIOUS
  <1> USE DEF SharedQueueInv, houseVars, mainsVars, queueVars, tw523Vars, ruleState
  <1>1. /\ LongestPlan \in Nat /\ Len(Plan(device)) <= LongestPlan
        /\ Len(Plan(device)) \in Nat
    BY LongestPlanType DEF Inv, TypeOK
  <1>2. mQueue \in Seq(Messages) /\ mQueueHead \in Nat /\ Len(mQueue) \in Nat
    BY DEF Inv, TypeOK
  <1>3. UNCHANGED LongestPlan
    BY DEF LongestPlan
  <1>4. CASE Look
    <2>1. mQueueHead = 0 /\ Waiting = 0 => mQueue = <<>>
      BY <1>2 DEF Waiting
    <2> QED
      BY <1>3, <1>4, <2>1 DEF Look
  <1>5. CASE StartPlan \/ EndFlush
    <2>1. mQueue' = <<>> /\ mQueueHead' = 0 /\ Len(mQueue') = 0
      BY <1>5 DEF StartPlan, EndFlush
    <2> QED
      BY <1>1, <1>3, <2>1
  <1>6. CASE AddMessage
    <2>1. /\ Len(mQueue') = Len(mQueue) + 1 /\ Len(mQueue) < Len(Plan(device))
          /\ rules' = "planning" /\ UNCHANGED <<mutex, mQueueHead>>
      BY <1>2, <1>6 DEF AddMessage
    <2>2. Len(mQueue') <= LongestPlan
      BY <1>1, <1>2, <2>1
    <2> QED
      BY <1>3, <2>1, <2>2
  <1>7. CASE Listen \/ Listened \/ EndPlan \/ CallRule \/ StartRule \/ NextTurn
             \/ \E u \in Units, w \in Wishes : SetWantedState(u, w)
    <2>1. /\ UNCHANGED <<mQueue, mQueueHead>>
          /\ \/ rules' # "wantsToPlan" /\ mutex # "tw523"
             \/ UNCHANGED mutex /\ (rules' = "wantsToPlan" => rules = "wantsToPlan")
      BY <1>7 DEF Listen, Listened, EndPlan, CallRule, StartRule, NextTurn,
         SetWantedState, Inv, LockInv
    <2> QED
      BY <1>3, <2>1
  <1>8. CASE SendNext \/ Restart
    <2>1. mutex' = "tw523" /\ UNCHANGED mQueue
      BY <1>8 DEF SendNext, Restart, Inv, LockInv
    <2> QED
      BY <1>3, <2>1
  <1>9. CASE SeeWork \/ StartFlush \/ EchoHeard \/ Acknowledged \/ Resend \/ GiveUp
             \/ AllSent \/ NotHeard \/ TimerDue \/ (\E m \in Messages : Overhear(m))
             \/ UNCHANGED vars
    <2>1. UNCHANGED <<mQueue, mQueueHead, rules>> /\ (UNCHANGED mutex \/ mutex' = "tw523")
      BY <1>9 DEF SeeWork, StartFlush, EchoHeard, Acknowledged, Resend, GiveUp, AllSent,
         FlushReturns, NotHeard, TimerDue, Overhear, vars
    <2> QED
      BY <1>3, <2>1
  <1> QED
    BY <1>4, <1>5, <1>6, <1>7, <1>8, <1>9 DEF Next, RulesNext, Send

(* With real plans the queue of 54 is never too short nor touched during a  *)
(* flush, and clearing it before a plan loses nothing (queue.cpp:3-29, 93). *)
THEOREM PlansFitTheQueue ==
    ASSUME LongestPlan < 54
    PROVE  Spec => [](Lock!QueueAssertions /\ Lock!PlanDiscardsNothing)
  <1>1. Init => SharedQueueInv
    <2> SUFFICES ASSUME Init PROVE SharedQueueInv
      OBVIOUS
    <2>1. device \in [Units -> Devices] /\ Len(mQueue) = 0
      BY InitInv DEF Init, Inv, TypeOK
    <2>2. LongestPlan \in Nat
      BY <2>1, LongestPlanType
    <2> QED
      BY <2>1, <2>2 DEF Init, SharedQueueInv
  <1>2. Inv /\ SharedQueueInv => Lock!QueueAssertions /\ Lock!PlanDiscardsNothing
    <2> SUFFICES ASSUME Inv, SharedQueueInv
                 PROVE  Lock!QueueAssertions /\ Lock!PlanDiscardsNothing
      OBVIOUS
    <2>1. /\ device \in [Units -> Devices] /\ Len(mQueue) \in Nat
          /\ mQueueHead \in 0 .. Len(mQueue)
      BY DEF Inv, TypeOK
    <2>2. LongestPlan \in Nat /\ Len(mQueue) <= LongestPlan /\ Len(mQueue) < 54
      BY <2>1, LongestPlanType DEF SharedQueueInv
    <2>3. rules = "planning" => mQueueHead = 0
      BY DEF Inv, LockInv, SharedQueueInv
    <2>4. Lock!QueueAssertions
      BY <2>1, <2>2, <2>3 DEF Lock!QueueAssertions
    <2>5. Lock!PlanDiscardsNothing
      BY <2>1 DEF SharedQueueInv, Lock!PlanDiscardsNothing
    <2> QED
      BY <2>4, <2>5
  <1> QED
    BY <1>1, <1>2, SharedQueueStep, Invariance, PTL DEF Spec

-----------------------------------------------------------------------------
(* The wrong rest.                                                          *)

(* Once the planner sleeps and has overtaken nothing, nothing is on its way  *)
(* but what other people sent, and every device is as it is wanted.          *)
RestInv ==
    /\ rules \in {"wantsToPlan", "planning"} => ~allX10DevicesInWantedState
    /\ allX10DevicesInWantedState /\ ~overtaken =>
           /\ mQueue = <<>> /\ tw523 \notin {"sending", "answered"}
           /\ x10_sent_message = Nothing
           /\ \A i \in DOMAIN reverseQueue : reverseQueue[i].external = TRUE
           /\ \A u \in Units : NothingToSend(device, u)

LEMMA RulesStepRests == Inv /\ RestInv /\ RulesNext => RestInv'
  <1> SUFFICES ASSUME Inv, RestInv, RulesNext PROVE RestInv'
    OBVIOUS
  <1> USE DEF houseVars, mainsVars, queueVars, tw523Vars, RestInv
  <1>0. UNCHANGED device => \A u \in Units : NothingToSend(device, u) => NothingToSend(device, u)'
    BY DEF NothingToSend, Settled, AssumedOk, OutOfReach
  <1>1. CASE Listen
    <2> SUFFICES ASSUME allX10DevicesInWantedState', ~overtaken' PROVE RestInv'
      BY <1>1 DEF Listen
    <2> DEFINE heard == Head(reverseQueue)
    <2>1. /\ heard \in Received /\ heard.external = TRUE
          /\ \A i \in DOMAIN reverseQueue' : reverseQueue'[i].external = TRUE
      <3>1. /\ reverseQueue \in Seq(Received) /\ reverseQueue # <<>>
            /\ reverseQueue' = Tail(reverseQueue)
            /\ \A i \in DOMAIN reverseQueue : reverseQueue[i].external = TRUE
        BY <1>1 DEF Listen, Inv, TypeOK
      <3>2. heard = reverseQueue[1] /\ 1 \in DOMAIN reverseQueue
        BY <3>1
      <3>3. ASSUME NEW i \in DOMAIN reverseQueue'
            PROVE  i + 1 \in DOMAIN reverseQueue /\ reverseQueue'[i] = reverseQueue[i + 1]
        BY <3>1
      <3>4. heard \in Received
        BY <3>1, <3>2
      <3> QED
        BY <3>1, <3>2, <3>3, <3>4
    <2>2. heard.message \in Messages /\ ~ApplianceLampsWanted(device, heard.message)
      BY <1>1, <2>1 DEF Listen, Received
    <2>3. device' = Hear(device, heard.message, TRUE)
      BY <1>1, <2>1 DEF Listen
    <2>4. \A u \in Units : NothingToSend(Hear(device, heard.message, TRUE), u)
      BY <1>1, <2>2, PeopleLeaveNothingToSend DEF Listen, Inv, TypeOK
    <2>5. \A u \in Units : NothingToSend(device, u)'
      BY <2>3, <2>4 DEF NothingToSend, Settled, AssumedOk, OutOfReach
    <2> QED
      BY <1>1, <2>1, <2>5 DEF Listen
  <1>2. CASE Listened \/ Look \/ CallRule \/ StartRule \/ NextTurn
    BY <1>0, <1>2 DEF Listened, Look, CallRule, StartRule, NextTurn
  <1>3. CASE StartPlan
    BY <1>3 DEF StartPlan
  <1>4. CASE AddMessage
    BY <1>4 DEF AddMessage
  <1>5. CASE EndPlan
    <2> SUFFICES ASSUME allX10DevicesInWantedState', ~overtaken' PROVE RestInv'
      BY <1>5 DEF EndPlan
    <2>1. mQueue = <<>> /\ reverseQueue = <<>> /\ mQueue' = <<>> /\ reverseQueue' = <<>>
      BY <1>5 DEF EndPlan
    <2>2. /\ tw523 \notin {"sending", "answered"} /\ x10_sent_message = Nothing
      BY <1>5 DEF EndPlan, Inv, TypeOK, LockInv
    <2>3. Plan(device) = <<>>
      BY <1>5, <2>1, LongestPlanType DEF EndPlan, Inv, TypeOK
    <2>4. \A u \in Units : NothingToSend(device, u)
      BY <2>3, EmptyPlanMissesNobody DEF Inv, TypeOK, WishesOK
    <2> QED
      BY <1>0, <1>5, <2>1, <2>2, <2>4 DEF EndPlan
  <1>6. ASSUME NEW v \in Units, NEW w \in Wishes, SetWantedState(v, w) PROVE RestInv'
    <2> SUFFICES ASSUME allX10DevicesInWantedState', ~overtaken' PROVE RestInv'
      BY <1>6 DEF SetWantedState
    <2>1. device[v].state = w /\ device' = [device EXCEPT ![v].wanted = w]
      BY <1>6 DEF SetWantedState, Wakes
    <2>2. ASSUME NEW u \in Units PROVE NothingToSend(device, u)'
      <3>1. NothingToSend(device, u)
        BY <1>6 DEF SetWantedState
      <3>2. CASE u = v
        BY <2>1, <3>2 DEF NothingToSend, Settled, Inv, TypeOK, Devices
      <3>3. CASE u # v
        BY <2>1, <3>1, <3>3 DEF NothingToSend, Settled, AssumedOk, OutOfReach, Inv, TypeOK
      <3> QED
        BY <3>2, <3>3
    <2> QED
      BY <1>6, <2>2 DEF SetWantedState
  <1> QED
    BY <1>1, <1>2, <1>3, <1>4, <1>5, <1>6 DEF RulesNext

LEMMA TW523StepRests ==
    Inv /\ RestInv /\ (Send \/ NotHeard \/ TimerDue \/ \E m \in Messages : Overhear(m))
        => RestInv'
  <1> SUFFICES ASSUME Inv, RestInv,
                      Send \/ NotHeard \/ TimerDue \/ \E m \in Messages : Overhear(m)
               PROVE  RestInv'
    OBVIOUS
  <1> USE DEF houseVars, mainsVars, queueVars, tw523Vars, ruleState, RestInv
  <1>0. UNCHANGED device => \A u \in Units : NothingToSend(device, u) => NothingToSend(device, u)'
    BY DEF NothingToSend, Settled, AssumedOk, OutOfReach
  <1>1. CASE SeeWork \/ StartFlush \/ EchoHeard \/ Acknowledged \/ Resend \/ Restart \/ TimerDue
    BY <1>0, <1>1
       DEF SeeWork, StartFlush, EchoHeard, Acknowledged, Resend, Restart, TimerDue
  <1>2. CASE SendNext
    BY <1>2 DEF SendNext, Waiting, Inv, TypeOK
  <1>3. CASE GiveUp \/ AllSent
    BY <1>0, <1>3 DEF GiveUp, AllSent, FlushReturns
  <1>4. CASE EndFlush
    BY <1>0, <1>4 DEF EndFlush
  <1>5. CASE NotHeard
    BY <1>0, <1>5 DEF NotHeard
  <1>6. ASSUME NEW m \in Messages, Overhear(m) PROVE RestInv'
    <2> SUFFICES ASSUME allX10DevicesInWantedState, ~overtaken PROVE RestInv'
      BY <1>6 DEF Overhear
    <2>1. m # x10_sent_message
      BY MessagesType
    <2>2. reverseQueue' = Append(reverseQueue, [external |-> TRUE, message |-> m])
      BY <1>6, <2>1 DEF Overhear
    <2>3. \A i \in DOMAIN reverseQueue' : reverseQueue'[i].external = TRUE
      BY <2>2 DEF Inv, TypeOK
    <2> QED
      BY <1>0, <1>6, <2>3 DEF Overhear
  <1> QED
    BY <1>1, <1>2, <1>3, <1>4, <1>5, <1>6 DEF Send

(* The house rests in the wrong state only where the planner has overtaken   *)
(* messages nobody had listened to: reading the reverse queue before waiting *)
(* for the lock (runtime.cpp, maintainQueues) is the only way.               *)
THEOREM WrongRestWasOvertakenHolds == Spec => []WrongRestWasOvertaken
  <1>1. Init => RestInv
    BY DEF Init, RestInv
  <1>2. Inv /\ RestInv /\ [Next]_vars => RestInv'
    <2>1. RestInv /\ UNCHANGED vars => RestInv'
      BY DEF RestInv, vars, houseVars, queueVars, tw523Vars, NothingToSend, Settled, AssumedOk,
         OutOfReach
    <2> QED
      BY <2>1, RulesStepRests, TW523StepRests DEF Next
  <1>3. RestInv => WrongRestWasOvertaken
    BY DEF RestInv, WrongRestWasOvertaken, AtRest
  <1> QED
    BY <1>1, <1>2, <1>3, Invariance, PTL DEF Spec

-----------------------------------------------------------------------------
(* What the house believes of a unit and what the unit really shows.         *)

Agree(b, a) == \/ b.state = a.state
               \/ b.state = Unknown /\ a.state = Off
Alike(b, a) == Agree(b, a) /\ b.selected = a.selected

(* What b, the house's idea of unit u, and a, the unit, have in common while *)
(* the plan q is sent: n of its messages have been acknowledged in this      *)
(* pass, and the unit may have heard more of it, in this pass or before.     *)
InTouchDims(b, a) == Alike(b, a)

InTouchOnOff(q, c, f, n, u, b, a) ==
    IF Addressed(q, c, u)
    THEN /\ Agree(b, a) \/ a.state = Goal(f)
         /\ n <= c /\ Addressed(q, n, u) => b.selected = "on" /\ a.selected \in {"on", "used"}
         /\ n < c /\ Addressed(q, n, u) => a.selected = "on"
         /\ n > c => Alike(b, a)
    ELSE /\ Agree(b, a) /\ a.selected \in {b.selected, "off"}
         /\ n > 0 => b.selected = "off"

InTouchAllOff(n, b, a) ==
    /\ Agree(b, a) \/ a.state = Off
    /\ a.selected \in {b.selected, "off"}
    /\ n > 0 => b.state = Off /\ a.state = Off /\ b.selected = "off"

InTouchAllOn(n, u, b, a) ==
    /\ Agree(b, a) \/ (Kind[u] = "lamp" /\ b.state \in {Off, Unknown} /\ a.state = On)
    /\ a.selected = b.selected
    /\ n > 0 => Agree(b, a)

InTouch(q, c, f, n, u, b, a) ==
    /\ b.state # RefreshWanted /\ a.state # RefreshWanted
    /\ b.selected = "on" => n <= c /\ Addressed(q, c, u)
    /\ f \in {"Dim", "Bright"} => InTouchDims(b, a)
    /\ f \in {"On", "Off"} => InTouchOnOff(q, c, f, n, u, b, a)
    /\ f = "AllUnitsOff" => InTouchAllOff(n, b, a)
    /\ f = "AllLightsOn" => InTouchAllOn(n, u, b, a)

\* Between flushes.
AtOne(b, a) == Alike(b, a) /\ b.selected # "on" /\ b.state # RefreshWanted

LEMMA HeardDim ==
    ASSUME NEW k \in Real, NEW f \in {"Dim", "Bright"},
           NEW b \in Devices, NEW a \in Devices, b.state # RefreshWanted, Alike(b, a)
    PROVE  /\ Alike(Function(k, b, f, FALSE), Function(k, a, f, FALSE))
           /\ Function(k, b, f, FALSE).state # RefreshWanted
           /\ Function(k, b, f, FALSE).selected # "on"
  <1>1. /\ Function(k, b, f, FALSE).selected = Function(k, a, f, FALSE).selected
        /\ Function(k, b, f, FALSE).selected # "on"
    BY DEF Alike, Function, SelectedAfter, IsSelected, Real, Devices, Selected
  <1>0. RefreshWanted \notin {Unknown, On, Off} /\ RefreshWanted \notin Wishes
    BY DeviceConstants
  <1>2. a.state # RefreshWanted
    BY <1>0 DEF Alike, Agree
  <1>5. Function(k, b, f, FALSE).state # RefreshWanted
    <2>1. k \in Kinds /\ f \in Functions /\ WishesOf(k) \subseteq Wishes
      BY DeviceConstants DEF Kinds, Real, Functions, WishesOf
    <2>2. Moves(k, b, f) => Target(b, f) \in Wishes
      BY <2>1, TargetIsWish
    <2>3. Shows(k, b, f) \in {b.state, Target(b, f)}
          /\ (~Moves(k, b, f) => Shows(k, b, f) = b.state)
      BY DEF Shows, Real
    <2> QED
      BY <1>0, <2>2, <2>3 DEF Function
  <1>3. CASE b.state = a.state
    <2>1. Function(k, b, f, FALSE).state = Function(k, a, f, FALSE).state
      BY <1>2, <1>3 DEF Alike, Function, Shows, Moves, Target, IsSelected, Real
    <2> QED
      BY <1>1, <1>5, <2>1 DEF Alike, Agree
  <1>4. CASE b.state = Unknown /\ a.state = Off
    <2>1. CASE k = "lamp" /\ b.selected # "off"
      <3>1. Function(k, b, f, FALSE).state = On /\ Function(k, a, f, FALSE).state = On
        BY <1>4, <2>1 DEF Alike, Function, Shows, Moves, Target, IsSelected
      <3> QED
        BY <1>0, <1>1, <3>1 DEF Alike, Agree
    <2>2. CASE ~(k = "lamp" /\ b.selected # "off")
      <3>1. Function(k, b, f, FALSE).state = Unknown /\ Function(k, a, f, FALSE).state = Off
        BY <1>4, <2>2 DEF Alike, Function, Shows, Moves, IsSelected, Real
      <3> QED
        BY <1>0, <1>1, <3>1 DEF Alike, Agree
    <2> QED
      BY <2>1, <2>2
  <1> QED
    BY <1>3, <1>4 DEF Alike, Agree

\* The n+1st message of an orderly queue.
LEMMA NextMessage ==
    ASSUME NEW q, NEW c, NEW f, Orderly(q, c, f), NEW n \in 0..(Len(q) - 1), NEW u \in Units
    PROVE  /\ c \in Nat /\ Len(q) \in Nat /\ q[n + 1] \in Messages /\ f \in Functions
           /\ n < c => /\ \E v \in Units : q[n + 1] = Address(v)
                       /\ Addressed(q, n + 1, u) <=>
                              Addressed(q, n, u) \/ q[n + 1] = Address(u)
                       /\ Addressed(q, n + 1, u) => Addressed(q, c, u)
           /\ n >= c => q[n + 1] = Command(f)
           /\ ~Addressed(q, 0, u)
           /\ n <= c /\ Addressed(q, n, u) => Addressed(q, c, u)
  <1>1. /\ c \in Nat /\ Len(q) \in Nat /\ q[n + 1] \in Messages /\ f \in Functions
        /\ n + 1 \in 1..Len(q)
    BY DEF Orderly
  <1>2. n < c => /\ \E v \in Units : q[n + 1] = Address(v)
                 /\ Addressed(q, n + 1, u) <=> Addressed(q, n, u) \/ q[n + 1] = Address(u)
                 /\ Addressed(q, n + 1, u) => Addressed(q, c, u)
    BY <1>1 DEF Orderly, Addressed
  <1>3. n >= c => q[n + 1] = Command(f)
    BY <1>1 DEF Orderly
  <1>4. ~Addressed(q, 0, u) /\ (n <= c /\ Addressed(q, n, u) => Addressed(q, c, u))
    BY <1>1 DEF Addressed
  <1> QED
    BY <1>1, <1>2, <1>3, <1>4

(* The house and the unit both hear the next message: one more is            *)
(* acknowledged.                                                            *)
LEMMA BothHear ==
    ASSUME NEW q, NEW c, NEW f, Orderly(q, c, f), NEW n \in 0..(Len(q) - 1),
           NEW u \in Units, IsReal(u), NEW b \in Devices, NEW a \in Devices,
           InTouch(q, c, f, n, u, b, a),
           NEW bb \in Devices, Hears(u, q[n + 1], b, bb),
           NEW aa \in Devices, Hears(u, q[n + 1], a, aa)
    PROVE  InTouch(q, c, f, n + 1, u, bb, aa)
  <1>0. /\ b.state # RefreshWanted /\ a.state # RefreshWanted
        /\ b.selected = "on" => n <= c /\ Addressed(q, c, u)
        /\ b.selected \in Selected /\ a.selected \in Selected
        /\ Kind[u] \in Real
        /\ n \in Nat
    BY DEF InTouch, Devices, IsReal
  <1>1. c \in Nat /\ Len(q) \in Nat /\ q[n + 1] \in Messages /\ f \in Functions
    BY NextMessage
  <1>4. Addressed(q, n + 1, u) /\ n < c =>
            (Addressed(q, n, u) \/ q[n + 1] = Address(u)) /\ Addressed(q, c, u)
    BY NextMessage
  <1>5. q[n + 1] = Address(u) /\ n < c => Addressed(q, c, u)
    BY NextMessage
  <1>6. ~Addressed(q, 0, u)
    BY NextMessage
  <1>7. Off # RefreshWanted /\ On # RefreshWanted /\ Unknown # RefreshWanted
    BY DeviceConstants
  <1>2. CASE n < c
    <2>1. PICK v \in Units : q[n + 1] = Address(v)
      BY <1>2, NextMessage
    <2>11. /\ bb.state = b.state
           /\ v = u => bb.selected = "on" /\ q[n + 1] = Address(u)
           /\ v # u => /\ bb.selected = IF b.selected = "used" THEN "off" ELSE b.selected
                      /\ q[n + 1] # Address(u)
      BY <1>1, <2>1, HeardAddress
    <2>12. /\ aa.state = a.state
           /\ v = u => aa.selected = "on" /\ q[n + 1] = Address(u)
           /\ v # u => /\ aa.selected = IF a.selected = "used" THEN "off" ELSE a.selected
                      /\ q[n + 1] # Address(u)
      BY <1>1, <2>1, HeardAddress
    <2>2. bb.state = b.state /\ aa.state = a.state
      BY <2>11, <2>12
    <2>3. bb.selected = "on" => n + 1 <= c /\ Addressed(q, c, u)
      <3>1. n + 1 <= c
        BY <1>1, <1>2
      <3> QED
        BY <1>0, <1>2, <1>5, <2>11, <3>1
    <2>4. CASE f \in {"Dim", "Bright"}
      <3>1. InTouchDims(bb, aa)
        BY <2>4, <2>11, <2>12 DEF InTouch, InTouchDims, Alike, Agree
      <3> QED
        BY <1>0, <2>2, <2>3, <2>4, <3>1 DEF InTouch
    <2>5. CASE f \in {"On", "Off"}
      <3>1. InTouchOnOff(q, c, f, n, u, b, a)
        BY <2>5 DEF InTouch
      <3>2. CASE Addressed(q, c, u)
        <4>1. Agree(bb, aa) \/ aa.state = Goal(f)
          BY <2>2, <3>1, <3>2 DEF InTouchOnOff, Agree
        <4>2. Addressed(q, n + 1, u) => bb.selected = "on" /\ aa.selected = "on"
          <5>1. CASE v = u
            BY <2>11, <2>12, <5>1
          <5>2. CASE v # u
            <6>1. Addressed(q, n + 1, u) => Addressed(q, n, u)
              BY <1>2, <1>4, <2>11, <5>2
            <6>2. Addressed(q, n, u) => b.selected = "on" /\ a.selected = "on"
              BY <1>0, <1>1, <1>2, <3>1, <3>2 DEF InTouchOnOff
            <6> QED
              BY <2>11, <2>12, <5>2, <6>1, <6>2
          <5> QED
            BY <5>1, <5>2
        <4>3. InTouchOnOff(q, c, f, n + 1, u, bb, aa)
          <5>1. n + 1 <= c
            BY <1>1, <1>2
          <5>2. ~(n + 1 > c)
            BY <1>0, <1>1, <5>1
          <5> QED
            BY <3>2, <4>1, <4>2, <5>2 DEF InTouchOnOff
        <4> QED
          BY <1>0, <2>2, <2>3, <2>5, <4>3 DEF InTouch
      <3>3. CASE ~Addressed(q, c, u)
        <4>1. v # u /\ Agree(bb, aa)
          BY <1>2, <1>5, <2>11, <2>2, <3>1, <3>3 DEF InTouchOnOff, Agree
        <4>2. b.selected \in {"off", "used"} /\ a.selected \in {"off", "used"}
          BY <1>0, <3>1, <3>3 DEF InTouchOnOff, Selected
        <4>4. bb.selected = "off" /\ aa.selected = "off"
          BY <2>11, <2>12, <4>1, <4>2
        <4>3. InTouchOnOff(q, c, f, n + 1, u, bb, aa)
          BY <3>3, <4>1, <4>4 DEF InTouchOnOff
        <4> QED
          BY <1>0, <2>2, <2>3, <2>5, <4>3 DEF InTouch
      <3> QED
        BY <3>2, <3>3
    <2>6. f \in {"Dim", "Bright", "On", "Off"}
      <3>1. c # 0
        BY <1>0, <1>2
      <3> QED
        BY <3>1 DEF Orderly, Functions
    <2> QED
      BY <2>4, <2>5, <2>6
  <1>3. CASE n >= c
    <2>1. /\ bb = Function(Kind[u], b, f, FALSE) /\ aa = Function(Kind[u], a, f, FALSE)
          /\ n + 1 > c
      <3>1. q[n + 1] = Command(f)
        BY <1>3, NextMessage
      <3>2. n + 1 > c
        BY <1>0, <1>1, <1>3
      <3> QED
        BY <1>1, <3>1, <3>2 DEF Hears
    <2>2. CASE f \in {"Dim", "Bright"}
      <3>1. Alike(bb, aa) /\ bb.state # RefreshWanted /\ bb.selected # "on"
        BY <1>0, <2>1, <2>2, HeardDim DEF InTouch, InTouchDims
      <3>2. aa.state # RefreshWanted
        BY <3>1, DeviceConstants DEF Alike, Agree
      <3> QED
        BY <2>2, <3>1, <3>2 DEF InTouch, InTouchDims
    <2>3. CASE f \in {"On", "Off"}
      <3>a. Kind[u] \in Real
        BY <1>0
      <3>b. /\ bb.state = IF b.selected = "off" THEN b.state ELSE Goal(f)
            /\ bb.selected = IF b.selected = "off" THEN "off" ELSE "used"
        BY <2>1, <2>3, <3>a, HeardOnOff
      <3>c. /\ aa.state = IF a.selected = "off" THEN a.state ELSE Goal(f)
            /\ aa.selected = IF a.selected = "off" THEN "off" ELSE "used"
        BY <2>1, <2>3, <3>a, HeardOnOff
      <3>1. InTouchOnOff(q, c, f, n, u, b, a) /\ n = c /\ n > 0
        BY <1>0, <1>1, <1>3, <2>3 DEF InTouch, Orderly
      <3>2. Goal(f) # RefreshWanted
        BY DeviceConstants DEF Goal
      <3>3. CASE Addressed(q, c, u)
        <4>1. b.selected = "on" /\ a.selected \in {"on", "used"}
          BY <3>1, <3>3 DEF InTouchOnOff
        <4>2. /\ bb.state = Goal(f) /\ bb.selected = "used"
              /\ aa.state = Goal(f) /\ aa.selected = "used"
          BY <3>b, <3>c, <4>1
        <4>3. InTouchOnOff(q, c, f, n + 1, u, bb, aa)
          <5>1. Alike(bb, aa)
            BY <4>2 DEF Alike, Agree
          <5>2. ~(n + 1 <= c) /\ ~(n + 1 < c)
            BY <1>0, <1>1, <2>1
          <5> QED
            BY <3>3, <4>2, <5>1, <5>2 DEF InTouchOnOff
        <4> QED
          BY <2>3, <3>2, <4>2, <4>3 DEF InTouch
      <3>4. CASE ~Addressed(q, c, u)
        <4>1. b.selected = "off" /\ a.selected = "off" /\ Agree(b, a)
          BY <3>1, <3>4 DEF InTouchOnOff
        <4>2. /\ bb.state = b.state /\ bb.selected = "off"
              /\ aa.state = a.state /\ aa.selected = "off"
          BY <3>b, <3>c, <4>1
        <4>3. InTouchOnOff(q, c, f, n + 1, u, bb, aa)
          BY <3>4, <4>1, <4>2 DEF InTouchOnOff, Agree
        <4> QED
          BY <1>0, <2>3, <4>2, <4>3 DEF InTouch
      <3> QED
        BY <3>3, <3>4
    <2>4. CASE f = "AllUnitsOff"
      <3>1. /\ bb.state = Off /\ bb.selected = "off" /\ aa.state = Off /\ aa.selected = "off"
        BY <1>0, <2>1, <2>4, HeardAllOff
      <3> QED
        BY <1>7, <2>4, <3>1 DEF InTouch, InTouchAllOff, Agree
    <2>5. CASE f = "AllLightsOn"
      <3>1. InTouchAllOn(n, u, b, a)
        BY <2>5 DEF InTouch
      <3>2. /\ bb.state = IF Kind[u] = "lamp" /\ b.state \in {Off, Unknown} THEN On ELSE b.state
            /\ aa.state = IF Kind[u] = "lamp" /\ a.state \in {Off, Unknown} THEN On ELSE a.state
            /\ bb.selected = b.selected /\ aa.selected = a.selected
        BY <1>0, <2>1, <2>5, HeardAllOn
      <3>3. Agree(bb, aa) /\ On # RefreshWanted
        BY <3>1, <3>2, DeviceConstants DEF InTouchAllOn, Agree
      <3>4. b.selected # "on"
        BY <1>0, <1>1, <2>5 DEF Orderly, Addressed
      <3>5. InTouchAllOn(n + 1, u, bb, aa)
        BY <3>1, <3>2, <3>3 DEF InTouchAllOn
      <3> QED
        BY <1>0, <2>5, <3>2, <3>3, <3>4, <3>5 DEF InTouch
    <2> QED
      BY <1>1, <2>2, <2>3, <2>4, <2>5 DEF Functions
  <1> QED
    BY <1>0, <1>1, <1>2, <1>3

(* The unit hears the next message and the house does not.                   *)
LEMMA UnitHears ==
    ASSUME NEW q, NEW c, NEW f, Orderly(q, c, f), f \notin {"Dim", "Bright"},
           NEW n \in 0..(Len(q) - 1),
           NEW u \in Units, IsReal(u), NEW b \in Devices, NEW a \in Devices,
           InTouch(q, c, f, n, u, b, a),
           NEW aa \in Devices, Hears(u, q[n + 1], a, aa)
    PROVE  InTouch(q, c, f, n, u, b, aa)
  <1>0. /\ b.state # RefreshWanted /\ a.state # RefreshWanted
        /\ b.selected = "on" => n <= c /\ Addressed(q, c, u)
        /\ b.selected \in Selected /\ a.selected \in Selected
        /\ Kind[u] \in Real
        /\ n \in Nat
    BY DEF InTouch, Devices, IsReal
  <1>1. c \in Nat /\ Len(q) \in Nat /\ q[n + 1] \in Messages /\ f \in Functions
    BY NextMessage
  <1>4. Addressed(q, n + 1, u) /\ n < c =>
            (Addressed(q, n, u) \/ q[n + 1] = Address(u)) /\ Addressed(q, c, u)
    BY NextMessage
  <1>5. q[n + 1] = Address(u) /\ n < c => Addressed(q, c, u)
    BY NextMessage
  <1>6. ~Addressed(q, 0, u)
    BY NextMessage
  <1>7. Off # RefreshWanted /\ On # RefreshWanted /\ Unknown # RefreshWanted
    BY DeviceConstants
  <1>2. CASE n < c
    <2>0. f \in {"On", "Off"}
      <3>1. c # 0
        BY <1>0, <1>2
      <3> QED
        BY <3>1 DEF Orderly, Functions
    <2>1. PICK v \in Units : q[n + 1] = Address(v)
      BY <1>2, NextMessage
    <2>2. /\ aa.state = a.state
          /\ v = u => aa.selected = "on" /\ q[n + 1] = Address(u)
          /\ v # u => aa.selected = IF a.selected = "used" THEN "off" ELSE a.selected
      BY <1>1, <2>1, HeardAddress
    <2>3. InTouchOnOff(q, c, f, n, u, b, a)
      BY <2>0 DEF InTouch
    <2>4. CASE Addressed(q, c, u)
      <3>1. Agree(b, aa) \/ aa.state = Goal(f)
        BY <2>2, <2>3, <2>4 DEF InTouchOnOff, Agree
      <3>2. Addressed(q, n, u) => b.selected = "on" /\ aa.selected = "on"
        <4>1. Addressed(q, n, u) => b.selected = "on" /\ a.selected = "on"
          BY <1>0, <1>1, <1>2, <2>3, <2>4 DEF InTouchOnOff
        <4> QED
          BY <2>2, <4>1
      <3>3. InTouchOnOff(q, c, f, n, u, b, aa)
        <4>1. ~(n > c)
          BY <1>0, <1>1, <1>2
        <4> QED
          BY <2>4, <3>1, <3>2, <4>1 DEF InTouchOnOff
      <3> QED
        BY <1>0, <2>0, <2>2, <3>3 DEF InTouch
    <2>5. CASE ~Addressed(q, c, u)
      <3>1. v # u /\ Agree(b, aa) /\ aa.selected \in {b.selected, "off"}
        BY <1>2, <1>5, <2>2, <2>3, <2>5 DEF InTouchOnOff, Agree
      <3>2. InTouchOnOff(q, c, f, n, u, b, aa)
        BY <2>3, <2>5, <3>1 DEF InTouchOnOff
      <3> QED
        BY <1>0, <2>0, <2>2, <3>2 DEF InTouch
    <2> QED
      BY <2>4, <2>5
  <1>3. CASE n >= c
    <2>1. aa = Function(Kind[u], a, f, FALSE)
      <3>1. q[n + 1] = Command(f)
        BY <1>3, NextMessage
      <3> QED
        BY <1>1, <3>1 DEF Hears
    <2>2. CASE f \in {"On", "Off"}
      <3>a. Kind[u] \in Real
        BY <1>0
      <3>b. /\ aa.state = IF a.selected = "off" THEN a.state ELSE Goal(f)
            /\ aa.selected = IF a.selected = "off" THEN "off" ELSE "used"
        BY <2>1, <2>2, <3>a, HeardOnOff
      <3>1. InTouchOnOff(q, c, f, n, u, b, a) /\ n = c /\ n > 0
        BY <1>0, <1>1, <1>3, <2>2 DEF InTouch, Orderly
      <3>2. Goal(f) # RefreshWanted
        BY DeviceConstants DEF Goal
      <3>3. CASE Addressed(q, c, u)
        <4>1. b.selected = "on" /\ a.selected \in {"on", "used"}
          BY <3>1, <3>3 DEF InTouchOnOff
        <4>2. aa.state = Goal(f) /\ aa.selected = "used"
          BY <3>b, <4>1
        <4>3. InTouchOnOff(q, c, f, n, u, b, aa)
          BY <3>1, <3>3, <4>1, <4>2, <1>0 DEF InTouchOnOff
        <4> QED
          BY <1>0, <2>2, <3>2, <4>2, <4>3 DEF InTouch
      <3>4. CASE ~Addressed(q, c, u)
        <4>1. b.selected = "off" /\ a.selected = "off" /\ Agree(b, a)
          BY <3>1, <3>4 DEF InTouchOnOff
        <4>2. aa.state = a.state /\ aa.selected = "off"
          BY <3>b, <4>1
        <4>3. InTouchOnOff(q, c, f, n, u, b, aa)
          BY <3>4, <4>1, <4>2 DEF InTouchOnOff, Agree
        <4> QED
          BY <1>0, <2>2, <4>2, <4>3 DEF InTouch
      <3> QED
        BY <3>3, <3>4
    <2>3. CASE f = "AllUnitsOff"
      <3>1. aa.state = Off /\ aa.selected = "off"
        BY <1>0, <2>1, <2>3, HeardAllOff
      <3>2. InTouchAllOff(n, b, aa)
        BY <2>3, <3>1 DEF InTouch, InTouchAllOff
      <3> QED
        BY <1>0, <1>7, <2>3, <3>1, <3>2 DEF InTouch
    <2>4. CASE f = "AllLightsOn"
      <3>0. Len(q) = 1 /\ n <= Len(q) - 1
        BY <2>4 DEF Orderly
      <3>1. InTouchAllOn(n, u, b, a) /\ n = 0
        BY <1>0, <2>4, <3>0 DEF InTouch
      <3>2. /\ aa.state = IF Kind[u] = "lamp" /\ a.state \in {Off, Unknown} THEN On ELSE a.state
            /\ aa.selected = a.selected
        BY <1>0, <2>1, <2>4, HeardAllOn
      <3>3. InTouchAllOn(n, u, b, aa) /\ On # RefreshWanted
        BY <3>1, <3>2, DeviceConstants DEF InTouchAllOn, Agree
      <3> QED
        BY <1>0, <2>4, <3>2, <3>3 DEF InTouch
    <2> QED
      BY <1>1, <2>2, <2>3, <2>4 DEF Functions
  <1> QED
    BY <1>0, <1>1, <1>2, <1>3

(* A flush starts where the last one has ended.                              *)
LEMMA StartsInTouch ==
    ASSUME NEW q, NEW c, NEW f, Orderly(q, c, f), NEW u \in Units,
           NEW b \in Devices, NEW a \in Devices, AtOne(b, a)
    PROVE  InTouch(q, c, f, 0, u, b, a)
  <1>1. c \in Nat /\ ~Addressed(q, 0, u)
    BY DEF Orderly, Addressed
  <1>2. a.state # RefreshWanted
    BY DeviceConstants DEF AtOne, Alike, Agree
  <1>3. InTouchOnOff(q, c, f, 0, u, b, a)
    BY <1>1 DEF InTouchOnOff, AtOne, Alike
  <1>4. InTouchAllOff(0, b, a) /\ InTouchAllOn(0, u, b, a) /\ InTouchDims(b, a)
    BY DEF InTouchAllOff, InTouchAllOn, InTouchDims, AtOne, Alike
  <1> QED
    BY <1>2, <1>3, <1>4 DEF InTouch, AtOne

(* The whole queue again: what has been heard does no harm.                  *)
LEMMA RestartsInTouch ==
    ASSUME NEW q, NEW c, NEW f, Orderly(q, c, f), f \notin {"Dim", "Bright"},
           NEW n \in 0..Len(q), NEW u \in Units,
           NEW b \in Devices, NEW a \in Devices, InTouch(q, c, f, n, u, b, a)
    PROVE  InTouch(q, c, f, 0, u, b, a)
  <1>1. c \in Nat /\ ~Addressed(q, 0, u) /\ n \in Nat
    BY DEF Orderly, Addressed
  <1>2. CASE f \in {"On", "Off"}
    <2>1. InTouchOnOff(q, c, f, n, u, b, a)
      BY <1>2 DEF InTouch
    <2>2. InTouchOnOff(q, c, f, 0, u, b, a)
      BY <1>1, <2>1 DEF InTouchOnOff
    <2> QED
      BY <1>1, <1>2, <2>2 DEF InTouch
  <1>3. CASE f = "AllUnitsOff"
    BY <1>1, <1>3 DEF InTouch, InTouchAllOff
  <1>4. CASE f = "AllLightsOn"
    BY <1>1, <1>4 DEF InTouch, InTouchAllOn
  <1> QED
    BY <1>2, <1>3, <1>4 DEF Orderly, Functions

(* When all has been acknowledged the unit is as the house believes it.      *)
LEMMA EndsInTouch ==
    ASSUME NEW q, NEW c, NEW f, Orderly(q, c, f), NEW u \in Units,
           NEW b \in Devices, NEW a \in Devices, InTouch(q, c, f, Len(q), u, b, a)
    PROVE  AtOne(b, a)
  <1>1. c \in Nat /\ Len(q) \in Nat /\ Len(q) > c
    BY DEF Orderly
  <1>2. b.state # RefreshWanted /\ b.selected # "on"
    BY <1>1 DEF InTouch
  <1>3. CASE f \in {"Dim", "Bright"}
    BY <1>2, <1>3 DEF InTouch, InTouchDims, AtOne
  <1>4. CASE f \in {"On", "Off"}
    BY <1>1, <1>2, <1>4 DEF InTouch, InTouchOnOff, AtOne, Alike
  <1>5. CASE f = "AllUnitsOff"
    BY <1>1, <1>2, <1>5 DEF InTouch, InTouchAllOff, AtOne, Alike, Agree
  <1>6. CASE f = "AllLightsOn"
    BY <1>1, <1>2, <1>6 DEF InTouch, InTouchAllOn, AtOne, Alike
  <1> QED
    BY <1>3, <1>4, <1>5, <1>6 DEF Orderly, Functions

-----------------------------------------------------------------------------
(* Whatever echoes are lost.                                                *)

(* What is on the queue, and how far the TW523 thread is with it.            *)
QueueInv ==
    /\ tw523 \in {"halfCycle", "wantsToFlush"} => mQueueHead = 0
    /\ tw523 # "halfCycle" => mQueue # <<>>
    /\ rules = "wantsToPlan" /\ tw523 \in {"halfCycle", "wantsToFlush"} => mQueue = <<>>
    /\ rules = "planning" => /\ Len(mQueue) <= Len(Plan(device))
                             /\ \A i \in 1..Len(mQueue) : mQueue[i] = Plan(device)[i]
    /\ rules # "planning" /\ mQueue # <<>> => IsOrderly(mQueue)
    /\ tw523 \in {"sending", "answered"} =>
           mQueueHead >= 1 /\ x10_sent_message = mQueue[mQueueHead]
    /\ tw523 = "finished" /\ trusted => mQueueHead = Len(mQueue)

LEMMA SequenceIsPlan ==
    ASSUME NEW q \in Seq(Messages), NEW p \in Seq(Messages), Len(q) = Len(p),
           \A i \in 1..Len(q) : q[i] = p[i]
    PROVE  q = p
  OBVIOUS

LEMMA RulesStepQueue == Inv /\ QueueInv /\ RulesNext => QueueInv'
  <1> SUFFICES ASSUME Inv, QueueInv, RulesNext PROVE QueueInv'
    OBVIOUS
  <1> USE DEF houseVars, mainsVars, queueVars, tw523Vars, QueueInv
  <1>0. /\ mQueue \in Seq(Messages) /\ Len(mQueue) \in Nat /\ mQueueHead \in 0..Len(mQueue)
        /\ rules = "planning" => mutex = "rules"
        /\ mutex # "tw523" => tw523 \in {"halfCycle", "wantsToFlush"}
        /\ device \in [Units -> Devices]
    BY DEF Inv, TypeOK, LockInv
  <1>1. CASE Listen
    BY <1>1 DEF Listen
  <1>2. CASE Listened \/ CallRule \/ StartRule \/ NextTurn
    BY <1>2 DEF Listened, CallRule, StartRule, NextTurn
  <1>3. CASE Look
    <2>1. Waiting = 0 /\ mQueueHead = 0 => mQueue = <<>>
      BY <1>0 DEF Waiting
    <2> QED
      BY <1>0, <1>3, <2>1 DEF Look
  <1>4. CASE StartPlan
    <2>1. tw523 = "halfCycle"
      BY <1>0, <1>4 DEF StartPlan
    <2>2. Len(Plan(device)) \in Nat
      BY <1>0, LongestPlanType
    <2> QED
      BY <1>4, <2>1, <2>2 DEF StartPlan
  <1>5. CASE AddMessage
    <2>1. tw523 \in {"halfCycle", "wantsToFlush"}
      BY <1>0, <1>5 DEF AddMessage
    <2>2. Plan(device) \in Seq(Messages)
      BY <1>0, LongestPlanType
    <2>3. /\ mQueue' \in Seq(Messages) /\ Len(mQueue') = Len(mQueue) + 1
          /\ \A i \in 1..Len(mQueue) : mQueue'[i] = mQueue[i]
          /\ mQueue'[Len(mQueue) + 1] = Plan(device)[Len(mQueue) + 1]
      BY <1>0, <1>5, <2>2 DEF AddMessage
    <2>4. /\ Len(mQueue') <= Len(Plan(device))
          /\ \A i \in 1..Len(mQueue') : mQueue'[i] = Plan(device)[i]
      BY <1>0, <1>5, <2>2, <2>3 DEF AddMessage
    <2>5. mQueue' # <<>>
      BY <1>0, <2>3
    <2>6. UNCHANGED <<device, tw523, rules, mQueueHead, trusted>>
      BY <1>5 DEF AddMessage
    <2> QED
      BY <1>5, <2>1, <2>4, <2>5, <2>6 DEF AddMessage
  <1>6. CASE EndPlan
    <2>1. mQueue = Plan(device)
      BY <1>0, <1>6, LongestPlanType, SequenceIsPlan DEF EndPlan
    <2>2. mQueue # <<>> => IsOrderly(mQueue)
      BY <1>0, <2>1, PlanIsOrderly
    <2> QED
      BY <1>6, <2>2 DEF EndPlan
  <1>7. ASSUME NEW u \in Units, NEW w \in Wishes, SetWantedState(u, w) PROVE QueueInv'
    BY <1>7 DEF SetWantedState
  <1> QED
    BY <1>1, <1>2, <1>3, <1>4, <1>5, <1>6, <1>7 DEF RulesNext

LEMMA TW523StepQueue ==
    Inv /\ QueueInv /\ (Send \/ NotHeard \/ TimerDue \/ \E m \in Messages : Overhear(m))
        => QueueInv'
  <1> SUFFICES ASSUME Inv, QueueInv,
                      Send \/ NotHeard \/ TimerDue \/ \E m \in Messages : Overhear(m)
               PROVE  QueueInv'
    OBVIOUS
  <1> USE DEF houseVars, mainsVars, queueVars, tw523Vars, ruleState, QueueInv
  <1>0. /\ mQueue \in Seq(Messages) /\ Len(mQueue) \in Nat /\ mQueueHead \in 0..Len(mQueue)
        /\ rules = "planning" <=> tw523 \in {"halfCycle", "wantsToFlush"} /\ rules = "planning"
    BY DEF Inv, TypeOK, LockInv
  <1>1. CASE SeeWork
    <2>1. mQueue # <<>>
      BY <1>0, <1>1 DEF SeeWork, Waiting
    <2> QED
      BY <1>1, <2>1 DEF SeeWork
  <1>2. CASE StartFlush
    BY <1>2 DEF StartFlush
  <1>3. CASE SendNext
    BY <1>0, <1>3 DEF SendNext
  <1>4. CASE EchoHeard \/ Acknowledged \/ Resend \/ NotHeard
    BY <1>4 DEF EchoHeard, Acknowledged, Resend, NotHeard
  <1>5. CASE Restart
    BY <1>5 DEF Restart
  <1>6. CASE GiveUp
    BY <1>6 DEF GiveUp, FlushReturns
  <1>7. CASE AllSent
    BY <1>0, <1>7 DEF AllSent, FlushReturns, Waiting
  <1>8. CASE EndFlush
    <2>1. rules # "planning" /\ mQueue' = <<>>
      BY <1>8 DEF EndFlush, Inv, LockInv
    <2> QED
      BY <1>8, <2>1 DEF EndFlush
  <1>9. CASE TimerDue
    BY <1>9 DEF TimerDue
  <1>10. ASSUME NEW m \in Messages, Overhear(m) PROVE QueueInv'
    BY <1>10 DEF Overhear
  <1> QED
    BY <1>1, <1>2, <1>3, <1>4, <1>5, <1>6, <1>7, <1>8, <1>9, <1>10 DEF Send

LEMMA StepQueue == Inv /\ QueueInv /\ [Next]_vars => QueueInv'
  <1>1. QueueInv /\ UNCHANGED vars => QueueInv'
    BY DEF QueueInv, vars, houseVars, queueVars, tw523Vars, mainsVars
  <1> QED
    BY <1>1, RulesStepQueue, TW523StepQueue DEF Next

-----------------------------------------------------------------------------
(* Messages acknowledged in this pass.                                       *)
Done == IF tw523 = "sending" \/ (tw523 = "answered" /\ ~acknowledged)
        THEN mQueueHead - 1 ELSE mQueueHead

\* A DIM or BRIGHT that was not heard back is given up, whatever it has done.
DimLost(f) == tw523 = "answered" /\ ~acknowledged /\ f \in {"Dim", "Bright"}

(* D, what the house will believe when it has heard its messages, fits what  *)
(* the devices show.                                                        *)
Meets(D) ==
    /\ tw523 \in {"halfCycle", "wantsToFlush"} =>
           \A u \in Units : IsReal(u) => AtOne(D[u], actual[u])
    /\ tw523 \notin {"halfCycle", "wantsToFlush"} =>
           \E c \in Nat, f \in Functions :
               /\ Orderly(mQueue, c, f)
               /\ DimLost(f) \/ \A u \in Units : IsReal(u) =>
                                    InTouch(mQueue, c, f, Done, u, D[u], actual[u])

(* h is what the house believes after each of the messages that wait.        *)
Hearing(h, D, waiting) ==
    /\ h \in [0..Len(waiting) -> [Units -> Devices]]
    /\ h[0] = D
    /\ \A i \in 1..Len(waiting) : h[i] = Hear(h[i - 1], waiting[i].message, FALSE)
    /\ \A i \in 0..Len(waiting) : \A u \in Units : h[i][u].state # RefreshWanted

TrustInv ==
    trusted =>
        /\ \A i \in 1..Len(reverseQueue) : reverseQueue[i].external = FALSE
        /\ \E h : Hearing(h, device, reverseQueue) /\ Meets(h[Len(reverseQueue)])

LEMMA HearNeverRefreshes ==
    ASSUME NEW D \in [Units -> Devices], NEW m \in Messages,
           \A u \in Units : D[u].state # RefreshWanted
    PROVE  \A u \in Units : Hear(D, m, FALSE)[u].state # RefreshWanted
  <1> SUFFICES ASSUME NEW u \in Units PROVE Hear(D, m, FALSE)[u].state # RefreshWanted
    OBVIOUS
  <1>1. Kind[u] \in Kinds /\ D[u] \in Devices /\ D[u].state # RefreshWanted
    BY KindType
  <1>2. CASE m.type = "address"
    <2>1. Hear(D, m, FALSE)[u] = Select(Kind[u], D[u], m.unit = u)
      BY <1>2 DEF Hear
    <2> QED
      BY <1>1, <2>1 DEF Select, Devices
  <1>3. CASE m.type = "function" /\ m.function \in Functions
    <2>1. Hear(D, m, FALSE)[u] = Function(Kind[u], D[u], m.function, FALSE)
      BY <1>3 DEF Hear
    <2>2. RefreshWanted \notin Wishes /\ RefreshWanted # Off /\ WishesOf(Kind[u]) \subseteq Wishes
      BY DeviceConstants DEF WishesOf
    <2>3. Moves(Kind[u], D[u], m.function) => Target(D[u], m.function) \in Wishes
      BY <1>1, <1>3, <2>2, TargetIsWish
    <2>4. /\ Shows(Kind[u], D[u], m.function) \in {D[u].state, Target(D[u], m.function), Off}
          /\ ~Moves(Kind[u], D[u], m.function) =>
                 Shows(Kind[u], D[u], m.function) \in {D[u].state, Off}
      BY <1>1 DEF Shows
    <2>5. Hear(D, m, FALSE)[u].state = Shows(Kind[u], D[u], m.function)
      <3>1. \A k, d, f : Function(k, d, f, FALSE).state = Shows(k, d, f)
        BY DEF Function
      <3> QED
        BY <2>1, <3>1
    <2> QED
      BY <1>1, <2>2, <2>3, <2>4, <2>5
  <1> QED
    BY <1>2, <1>3, MessageCases

WithWish(D, v, w) == [D EXCEPT ![v].wanted = w]

(* A wish changes nothing of what a device makes of the house's messages.    *)
LEMMA HearIgnoresWishes ==
    ASSUME NEW D \in [Units -> Devices], NEW m \in Messages, NEW v \in Units, NEW w \in States,
           \A u \in Units : D[u].state # RefreshWanted
    PROVE  Hear(WithWish(D, v, w), m, FALSE) = WithWish(Hear(D, m, FALSE), v, w)
  <1> DEFINE DD == [D EXCEPT ![v].wanted = w]
             E == Hear(D, m, FALSE)
             EE == Hear(DD, m, FALSE)
  <1>1. DD \in [Units -> Devices]
    BY DEF Devices
  <1>2. E \in [Units -> Devices] /\ EE \in [Units -> Devices]
    BY <1>1, HearType
  <1>3. ASSUME NEW u \in Units, u # v PROVE EE[u] = E[u]
    <2>1. DD[u] = D[u]
      BY <1>3
    <2> QED
      BY <2>1 DEF Hear
  <1>4. EE[v] = [E[v] EXCEPT !.wanted = w]
    <2>1. DD[v] = [D[v] EXCEPT !.wanted = w] /\ D[v] \in Devices /\ D[v].state # RefreshWanted
      OBVIOUS
    <2>2. /\ DD[v].state = D[v].state /\ DD[v].selected = D[v].selected /\ DD[v].wanted = w
          /\ DD[v] \in Devices
      BY <1>1, <2>1 DEF Devices
    <2> HIDE DEF DD
    <2>3. CASE m.type = "address"
      <3>1. E[v] = Select(Kind[v], D[v], m.unit = v) /\ EE[v] = Select(Kind[v], DD[v], m.unit = v)
        BY <2>3 DEF Hear
      <3> HIDE DEF E, EE
      <3>2. CASE Kind[v] = "null"
        BY <2>1, <3>1, <3>2 DEF Select
      <3>3. CASE Kind[v] # "null" /\ m.unit = v
        <4>1. E[v] = [D[v] EXCEPT !.selected = "on"] /\ EE[v] = [DD[v] EXCEPT !.selected = "on"]
          BY <3>1, <3>3 DEF Select
        <4> QED
          BY <2>1, <4>1 DEF Devices
      <3>4. CASE Kind[v] # "null" /\ m.unit # v
        <4>1. /\ E[v] = [D[v] EXCEPT !.selected = IF @ = "used" THEN "off" ELSE @]
              /\ EE[v] = [DD[v] EXCEPT !.selected = IF @ = "used" THEN "off" ELSE @]
          BY <2>1, <2>2, <3>1, <3>4 DEF Select, Devices
        <4> QED
          BY <2>1, <2>2, <4>1 DEF Devices
      <3> QED
        BY <3>2, <3>3, <3>4
    <2>4. CASE m.type = "function" /\ m.function \in Functions
      <3>1. /\ E[v] = Function(Kind[v], D[v], m.function, FALSE)
            /\ EE[v] = Function(Kind[v], DD[v], m.function, FALSE)
        BY <2>4 DEF Hear
      <3>2. /\ Shows(Kind[v], DD[v], m.function) = Shows(Kind[v], D[v], m.function)
            /\ SelectedAfter(Kind[v], DD[v], m.function) = SelectedAfter(Kind[v], D[v], m.function)
        BY <2>1, <2>2 DEF Shows, Moves, Target, SelectedAfter, IsSelected
      <3> DEFINE s == Shows(Kind[v], D[v], m.function)
                 t == SelectedAfter(Kind[v], D[v], m.function)
      <3>3. E[v] = [state |-> s, wanted |-> D[v].wanted, selected |-> t]
        BY <3>1 DEF Function
      <3>4. EE[v] = [state |-> s, wanted |-> w, selected |-> t]
        BY <2>2, <3>1, <3>2 DEF Function
      <3> HIDE DEF s, t, E, EE
      <3> QED
        BY <3>3, <3>4
    <2> QED
      BY <2>3, <2>4, MessageCases
  <1> HIDE DEF E, EE
  <1>5. [E EXCEPT ![v].wanted = w] = [E EXCEPT ![v] = [E[v] EXCEPT !.wanted = w]]
    BY <1>2
  <1> QED
    BY <1>2, <1>3, <1>4, <1>5 DEF E, EE, WithWish

LEMMA HearingShifts ==
    ASSUME NEW D \in [Units -> Devices], NEW waiting \in Seq(Received), waiting # <<>>,
           NEW h, Hearing(h, D, waiting)
    PROVE  \E g : /\ Hearing(g, Hear(D, Head(waiting).message, FALSE), Tail(waiting))
                  /\ g[Len(Tail(waiting))] = h[Len(waiting)]
  <1> DEFINE n == Len(waiting)
             g == [i \in 0..(n - 1) |-> h[i + 1]]
  <1>1. /\ n \in Nat /\ n >= 1 /\ Len(Tail(waiting)) = n - 1
        /\ Head(waiting) = waiting[1]
        /\ \A i \in 1..(n - 1) : Tail(waiting)[i] = waiting[i + 1]
    OBVIOUS
  <1>2. /\ h \in [0..n -> [Units -> Devices]] /\ h[0] = D
        /\ \A i \in 1..n : h[i] = Hear(h[i - 1], waiting[i].message, FALSE)
        /\ \A i \in 0..n : \A u \in Units : h[i][u].state # RefreshWanted
    BY DEF Hearing
  <1> HIDE DEF n
  <1>3. \A i \in 0..(n - 1) : i + 1 \in 0..n /\ g[i] = h[i + 1]
    BY <1>1
  <1>4. g \in [0..(n - 1) -> [Units -> Devices]]
    BY <1>2, <1>3
  <1>5. g[0] = Hear(D, Head(waiting).message, FALSE)
    <2>1. 1 \in 1..n /\ 0 \in 0..(n - 1) /\ 1 - 1 = 0 /\ 0 + 1 = 1
      BY <1>1
    <2>2. h[1] = Hear(h[1 - 1], waiting[1].message, FALSE)
      BY <1>2, <2>1
    <2>3. g[0] = h[0 + 1]
      BY <1>3, <2>1
    <2> HIDE DEF g
    <2> QED
      BY <1>1, <1>2, <2>1, <2>2, <2>3
  <1>6. ASSUME NEW i \in 1..(n - 1)
        PROVE  g[i] = Hear(g[i - 1], Tail(waiting)[i].message, FALSE)
    <2>1. i + 1 \in 1..n /\ i \in 0..(n - 1) /\ i - 1 \in 0..(n - 1) /\ (i + 1) - 1 = i
          /\ (i - 1) + 1 = i
      BY <1>1
    <2>2. h[i + 1] = Hear(h[i], waiting[i + 1].message, FALSE)
      BY <1>2, <2>1
    <2>3. g[i] = h[i + 1] /\ g[i - 1] = h[i]
      BY <1>3, <2>1
    <2> QED
      BY <1>1, <2>2, <2>3
  <1>7. \A i \in 0..(n - 1) : \A u \in Units : g[i][u].state # RefreshWanted
    BY <1>2, <1>3
  <1>8. g[n - 1] = h[n]
    <2>1. n - 1 \in 0..(n - 1) /\ (n - 1) + 1 = n
      BY <1>1
    <2> QED
      BY <1>3, <2>1
  <1> HIDE DEF g
  <1>9. Hearing(g, Hear(D, Head(waiting).message, FALSE), Tail(waiting))
    BY <1>1, <1>4, <1>5, <1>6, <1>7 DEF Hearing
  <1> QED
    BY <1>1, <1>8, <1>9 DEF n

\* The house hears r, too, after what h has of it.
HearsToo(g, h, D, waiting, r) ==
    /\ Hearing(g, D, Append(waiting, r))
    /\ g[Len(waiting) + 1] = Hear(h[Len(waiting)], r.message, FALSE)

LEMMA HearingExtends ==
    ASSUME NEW D \in [Units -> Devices], NEW waiting \in Seq(Received), NEW r \in Received,
           NEW h, Hearing(h, D, waiting)
    PROVE  \E g : HearsToo(g, h, D, waiting, r)
  <1> DEFINE n == Len(waiting)
             last == Hear(h[n], r.message, FALSE)
             g == [i \in 0..(n + 1) |-> IF i = n + 1 THEN last ELSE h[i]]
             longer == Append(waiting, r)
  <1>1. /\ n \in Nat /\ Len(longer) = n + 1
        /\ \A i \in 1..n : longer[i] = waiting[i]
        /\ longer[n + 1] = r /\ r.message \in Messages
    BY DEF Received
  <1>2. /\ h \in [0..n -> [Units -> Devices]] /\ h[0] = D
        /\ \A i \in 1..n : h[i] = Hear(h[i - 1], waiting[i].message, FALSE)
        /\ \A i \in 0..n : \A u \in Units : h[i][u].state # RefreshWanted
    BY DEF Hearing
  <1> HIDE DEF n, longer
  <1>3. h[n] \in [Units -> Devices] /\ \A u \in Units : h[n][u].state # RefreshWanted
    BY <1>1, <1>2
  <1>4. last \in [Units -> Devices] /\ \A u \in Units : last[u].state # RefreshWanted
    BY <1>1, <1>3, HearType, HearNeverRefreshes
  <1> HIDE DEF last
  <1>5. /\ \A i \in 0..n : i # n + 1 /\ i \in 0..(n + 1)
        /\ \A i \in 0..(n + 1) : i \in 0..n \/ i = n + 1
        /\ n + 1 \in 0..(n + 1) /\ 0 \in 0..n
    BY <1>1
  <1>6. (\A i \in 0..n : g[i] = h[i]) /\ g[n + 1] = last
    BY <1>5
  <1>7. g \in [0..(n + 1) -> [Units -> Devices]] /\ g[0] = D
    BY <1>2, <1>4, <1>5, <1>6
  <1>8. ASSUME NEW i \in 1..(n + 1)
        PROVE  g[i] = Hear(g[i - 1], longer[i].message, FALSE)
    <2>1. CASE i = n + 1
      <3>1. i - 1 = n /\ n \in 0..n
        BY <1>1, <2>1
      <3> QED
        BY <1>1, <1>6, <2>1, <3>1 DEF last
    <2>2. CASE i # n + 1
      <3>1. i \in 1..n /\ i \in 0..n /\ i - 1 \in 0..n
        BY <1>1, <2>2
      <3> QED
        BY <1>1, <1>2, <1>6, <3>1
    <2> QED
      BY <2>1, <2>2
  <1>9. \A i \in 0..(n + 1) : \A u \in Units : g[i][u].state # RefreshWanted
    BY <1>2, <1>4, <1>5, <1>6
  <1> HIDE DEF g
  <1>10. Hearing(g, D, longer)
    BY <1>1, <1>7, <1>8, <1>9 DEF Hearing
  <1>11. HearsToo(g, h, D, waiting, r)
    BY <1>6, <1>10 DEF HearsToo, last, longer, n
  <1> QED
    BY <1>11

LEMMA HearingIgnoresWishes ==
    ASSUME NEW D \in [Units -> Devices], NEW waiting \in Seq(Received),
           NEW v \in Units, NEW w \in States,
           NEW h, Hearing(h, D, waiting)
    PROVE  \E g : /\ Hearing(g, WithWish(D, v, w), waiting)
                  /\ g[Len(waiting)] = WithWish(h[Len(waiting)], v, w)
  <1> DEFINE n == Len(waiting)
             g == [i \in 0..n |-> WithWish(h[i], v, w)]
  <1>1. n \in Nat /\ \A i \in 1..n : waiting[i].message \in Messages
    <2>1. n \in Nat /\ \A i \in 1..n : waiting[i] \in Received
      OBVIOUS
    <2> QED
      BY <2>1 DEF Received
  <1>2. /\ h \in [0..n -> [Units -> Devices]] /\ h[0] = D
        /\ \A i \in 1..n : h[i] = Hear(h[i - 1], waiting[i].message, FALSE)
        /\ \A i \in 0..n : \A u \in Units : h[i][u].state # RefreshWanted
    BY DEF Hearing
  <1> HIDE DEF n
  <1>3. ASSUME NEW i \in 0..n
        PROVE  /\ g[i] = WithWish(h[i], v, w)
               /\ g[i] \in [Units -> Devices]
               /\ \A u \in Units : g[i][u].state # RefreshWanted
    <2>1. h[i] \in [Units -> Devices]
      BY <1>2
    <2>2. WithWish(h[i], v, w) \in [Units -> Devices]
      BY <2>1 DEF Devices, WithWish
    <2>3. \A u \in Units : WithWish(h[i], v, w)[u].state = h[i][u].state
      BY <2>1 DEF Devices, WithWish
    <2> QED
      BY <1>2, <2>2, <2>3
  <1>4. g \in [0..n -> [Units -> Devices]]
    BY <1>3
  <1>5. 0 \in 0..n /\ n \in 0..n
    BY <1>1
  <1>6. g[0] = WithWish(D, v, w) /\ g[n] = WithWish(h[n], v, w)
    BY <1>2, <1>3, <1>5
  <1>7. ASSUME NEW i \in 1..n PROVE g[i] = Hear(g[i - 1], waiting[i].message, FALSE)
    <2>1. i \in 0..n /\ i - 1 \in 0..n
      BY <1>1
    <2>2. h[i - 1] \in [Units -> Devices] /\ \A u \in Units : h[i - 1][u].state # RefreshWanted
      BY <1>2, <2>1
    <2>3. Hear(WithWish(h[i - 1], v, w), waiting[i].message, FALSE)
              = WithWish(Hear(h[i - 1], waiting[i].message, FALSE), v, w)
      <3> DEFINE before == h[i - 1]
                 m == waiting[i].message
      <3>1. m \in Messages /\ before \in [Units -> Devices]
            /\ \A u \in Units : before[u].state # RefreshWanted
        BY <1>1, <2>2
      <3> HIDE DEF before, m
      <3>2. Hear(WithWish(before, v, w), m, FALSE)
                = WithWish(Hear(before, m, FALSE), v, w)
        BY <3>1, HearIgnoresWishes
      <3> QED
        BY <3>2 DEF before, m
    <2> QED
      BY <1>2, <1>3, <2>1, <2>3
  <1>8. \A i \in 0..n : \A u \in Units : g[i][u].state # RefreshWanted
    BY <1>3
  <1> HIDE DEF g
  <1>9. Hearing(g, WithWish(D, v, w), waiting)
    BY <1>4, <1>6, <1>7, <1>8 DEF Hearing, n
  <1> QED
    BY <1>6, <1>9 DEF n

\* InTouch looks only at what a device shows and whether it is selected.
LEMMA InTouchIgnoresWishes ==
    ASSUME NEW b, NEW bb, NEW a, bb.state = b.state, bb.selected = b.selected
    PROVE  /\ AtOne(b, a) => AtOne(bb, a)
           /\ \A q, c, f, n, u : InTouch(q, c, f, n, u, b, a) => InTouch(q, c, f, n, u, bb, a)
  BY DEF AtOne, InTouch, InTouchDims, InTouchOnOff, InTouchAllOff, InTouchAllOn, Alike, Agree

LEMMA MeetsStill ==
    ASSUME NEW D, NEW E,
           \A u \in Units : E[u].state = D[u].state /\ E[u].selected = D[u].selected,
           UNCHANGED <<tw523, acknowledged, mQueue, mQueueHead, actual>>,
           Meets(D)
    PROVE  Meets(E)'
  <1>1. Done' = Done /\ \A f : DimLost(f)' = DimLost(f)
    BY DEF Done, DimLost
  <1>2. CASE tw523 \in {"halfCycle", "wantsToFlush"}
    BY <1>2, InTouchIgnoresWishes DEF Meets
  <1>3. CASE tw523 \notin {"halfCycle", "wantsToFlush"}
    <2>1. PICK c \in Nat, f \in Functions :
              /\ Orderly(mQueue, c, f)
              /\ DimLost(f) \/ \A u \in Units : IsReal(u) =>
                                   InTouch(mQueue, c, f, Done, u, D[u], actual[u])
      BY <1>3 DEF Meets
    <2>2. DimLost(f) \/ \A u \in Units : IsReal(u) =>
                           InTouch(mQueue, c, f, Done, u, E[u], actual[u])
      BY <2>1, InTouchIgnoresWishes
    <2> QED
      BY <1>1, <1>3, <2>1, <2>2 DEF Meets
  <1> QED
    BY <1>2, <1>3

LEMMA TrustKept ==
    ASSUME NEW g, NEW E, Hearing(g, device', reverseQueue'), E = g[Len(reverseQueue')],
           \A i \in 1..Len(reverseQueue') : reverseQueue'[i].external = FALSE,
           Meets(E)'
    PROVE  TrustInv'
  <1>1. Meets(g[Len(reverseQueue)])'
    BY DEF Meets
  <1> QED
    BY <1>1 DEF TrustInv, Hearing

LEMMA TrustStill ==
    ASSUME Inv, TrustInv, trusted,
           UNCHANGED <<device, reverseQueue, tw523, acknowledged, mQueue, mQueueHead, actual>>
    PROVE  TrustInv'
  <1>1. PICK h : Hearing(h, device, reverseQueue) /\ Meets(h[Len(reverseQueue)])
    BY DEF TrustInv
  <1>2. PICK E : E = h[Len(reverseQueue)]
    OBVIOUS
  <1>3. Meets(E)'
    BY <1>1, <1>2, MeetsStill
  <1>4. Hearing(h, device', reverseQueue') /\ E = h[Len(reverseQueue')]
    BY <1>1, <1>2
  <1> QED
    BY <1>3, <1>4, TrustKept DEF TrustInv

\* The rules thread alone keeps the house in touch.
LEMMA RulesStepTrust == Inv /\ QueueInv /\ TrustInv /\ RulesNext => TrustInv'
  <1> SUFFICES ASSUME Inv, QueueInv, TrustInv, RulesNext, trusted PROVE TrustInv'
    BY DEF RulesNext, TrustInv, Listen, Listened, Look, StartPlan, AddMessage, EndPlan, CallRule,
           StartRule, SetWantedState, NextTurn, mainsVars
  <1> USE DEF houseVars, mainsVars, queueVars, tw523Vars
  <1>1. PICK h : Hearing(h, device, reverseQueue) /\ Meets(h[Len(reverseQueue)])
    BY DEF TrustInv
  <1>2. /\ device \in [Units -> Devices] /\ reverseQueue \in Seq(Received)
        /\ \A i \in 1..Len(reverseQueue) : reverseQueue[i].external = FALSE
        /\ mutex = "tw523" <=> tw523 \notin {"halfCycle", "wantsToFlush"}
        /\ rules = "planning" => mutex = "rules"
        /\ tw523 \in {"halfCycle", "wantsToFlush", "flushing", "sending", "answered", "finished"}
    BY DEF TrustInv, Inv, TypeOK, LockInv
  <1>3. PICK D : D = h[Len(reverseQueue)]
    OBVIOUS
  <1>4. D \in [Units -> Devices] /\ Meets(D)
    BY <1>1, <1>2, <1>3 DEF Hearing
  <1>5. CASE Listen
    <2>1. /\ reverseQueue # <<>> /\ reverseQueue' = Tail(reverseQueue)
          /\ device' = Hear(device, Head(reverseQueue).message, Head(reverseQueue).external)
          /\ UNCHANGED <<tw523, acknowledged, mQueue, mQueueHead, actual>>
      BY <1>5 DEF Listen
    <2>2. /\ Head(reverseQueue).external = FALSE
          /\ \A i \in 1..Len(reverseQueue') : reverseQueue'[i].external = FALSE
      <3>1. /\ Head(reverseQueue) = reverseQueue[1] /\ 1 \in 1..Len(reverseQueue)
            /\ \A i \in 1..Len(reverseQueue') :
                   i + 1 \in 1..Len(reverseQueue) /\ reverseQueue'[i] = reverseQueue[i + 1]
        BY <1>2, <2>1
      <3> QED
        BY <1>2, <3>1
    <2>3. PICK g : /\ Hearing(g, device', reverseQueue')
                   /\ g[Len(reverseQueue')] = D
      BY <1>1, <1>2, <1>3, <2>1, <2>2, HearingShifts
    <2>4. Meets(D)'
      BY <1>4, <2>1, MeetsStill
    <2> QED
      BY <2>2, <2>3, <2>4, TrustKept
  <1>6. CASE Listened \/ Look \/ EndPlan \/ CallRule \/ StartRule \/ NextTurn
    <2>1. UNCHANGED <<device, reverseQueue, tw523, acknowledged, mQueue, mQueueHead, actual>>
      BY <1>6 DEF Listened, Look, EndPlan, CallRule, StartRule, NextTurn
    <2> QED
      BY <2>1, TrustStill
  <1>7. CASE StartPlan \/ AddMessage
    <2>1. /\ tw523 \in {"halfCycle", "wantsToFlush"}
          /\ UNCHANGED <<device, reverseQueue, tw523, actual>>
      BY <1>2, <1>7 DEF StartPlan, AddMessage
    <2>2. Meets(D)'
      BY <1>4, <2>1 DEF Meets
    <2>3. Hearing(h, device', reverseQueue') /\ D = h[Len(reverseQueue')]
      BY <1>1, <1>3, <2>1
    <2> QED
      BY <1>2, <2>1, <2>2, <2>3, TrustKept
  <1>8. ASSUME NEW v \in Units, NEW w \in Wishes, SetWantedState(v, w) PROVE TrustInv'
    <2>1. /\ device' = WithWish(device, v, w)
          /\ UNCHANGED <<reverseQueue, tw523, acknowledged, mQueue, mQueueHead, actual>>
      BY <1>8 DEF SetWantedState, WithWish
    <2>2. w \in States
      BY DeviceConstants
    <2>3. PICK g : /\ Hearing(g, WithWish(device, v, w), reverseQueue)
                   /\ g[Len(reverseQueue)] = WithWish(D, v, w)
      BY <1>1, <1>2, <1>3, <2>2, HearingIgnoresWishes
    <2>4. PICK E : E = WithWish(D, v, w)
      OBVIOUS
    <2>5. \A u \in Units : E[u].state = D[u].state /\ E[u].selected = D[u].selected
      BY <1>4, <2>4 DEF WithWish, Devices
    <2>6. Meets(E)'
      BY <1>4, <2>1, <2>5, MeetsStill
    <2> QED
      BY <1>2, <2>1, <2>3, <2>4, <2>6, TrustKept
  <1> QED
    BY <1>5, <1>6, <1>7, <1>8 DEF RulesNext

\* So does the TW523 thread, whatever is lost, as long as it does not give up.
LEMMA TW523StepTrust ==
    Inv /\ QueueInv /\ TrustInv
    /\ (Send \/ NotHeard \/ TimerDue \/ \E m \in Messages : Overhear(m)) => TrustInv'
  <1> SUFFICES ASSUME Inv, QueueInv, TrustInv, trusted',
                      Send \/ NotHeard \/ TimerDue \/ \E m \in Messages : Overhear(m)
               PROVE  TrustInv'
    BY DEF TrustInv
  <1> USE DEF houseVars, mainsVars, queueVars, tw523Vars, ruleState
  <1>1. trusted
    BY DEF Send, SeeWork, StartFlush, SendNext, EchoHeard, Acknowledged, Resend, Restart, GiveUp,
           AllSent, FlushReturns, EndFlush, NotHeard, TimerDue, Overhear
  <1>2. PICK h : Hearing(h, device, reverseQueue) /\ Meets(h[Len(reverseQueue)])
    BY <1>1 DEF TrustInv
  <1>3. /\ device \in [Units -> Devices] /\ actual \in [Units -> Devices]
        /\ reverseQueue \in Seq(Received)
        /\ \A i \in 1..Len(reverseQueue) : reverseQueue[i].external = FALSE
        /\ mQueue \in Seq(Messages) /\ mQueueHead \in 0..Len(mQueue) /\ Len(mQueue) \in Nat
        /\ mQueueHead \in Nat
    BY <1>1 DEF TrustInv, Inv, TypeOK
  <1>4. PICK D : D = h[Len(reverseQueue)]
    OBVIOUS
  <1>5. D \in [Units -> Devices] /\ Meets(D)
    BY <1>2, <1>3, <1>4 DEF Hearing
  \* A step that hears nothing new has only to meet what is known again.
  <1>6. ASSUME UNCHANGED <<device, reverseQueue>>, Meets(D)' PROVE TrustInv'
    <2>1. Hearing(h, device', reverseQueue') /\ D = h[Len(reverseQueue')]
      BY <1>2, <1>4, <1>6
    <2> QED
      BY <1>3, <1>6, <2>1, TrustKept
  \* While a message is under way.
  <1>7. ASSUME tw523 \notin {"halfCycle", "wantsToFlush"}
        PROVE  \E c \in Nat, f \in Functions :
                  /\ Orderly(mQueue, c, f)
                  /\ DimLost(f) \/ \A u \in Units : IsReal(u) =>
                                       InTouch(mQueue, c, f, Done, u, D[u], actual[u])
    BY <1>5, <1>7 DEF Meets
  \* A queue with DIMs or BRIGHTs shows it.
  <1>8. ASSUME NEW c \in Nat, NEW f \in Functions, Orderly(mQueue, c, f), ~ContainsDimOrBright
        PROVE  f \notin {"Dim", "Bright"}
    <2>1. Len(mQueue) \in DOMAIN mQueue /\ mQueue[Len(mQueue)] = Command(f)
      BY <1>3, <1>8 DEF Orderly
    <2> QED
      BY <1>8, <2>1 DEF ContainsDimOrBright
  <1>9. CASE SeeWork
    <2>1. Meets(D)'
      BY <1>5, <1>9 DEF SeeWork, Meets
    <2> QED
      BY <1>6, <1>9, <2>1 DEF SeeWork
  <1>10. CASE StartFlush
    <2>1. /\ tw523 = "wantsToFlush" /\ tw523' = "flushing" /\ mQueueHead = 0
          /\ rules # "planning" /\ mQueue # <<>>
          /\ UNCHANGED <<device, reverseQueue, mQueue, mQueueHead, actual>>
      BY <1>10 DEF StartFlush, QueueInv, Inv, LockInv
    <2>2. PICK c \in Nat, f \in Functions : Orderly(mQueue, c, f)
      BY <2>1 DEF QueueInv, IsOrderly
    <2>3. \A u \in Units : IsReal(u) => InTouch(mQueue, c, f, 0, u, D[u], actual[u])
      BY <1>3, <1>5, <2>1, <2>2, StartsInTouch DEF Meets
    <2>4. Done' = 0
      BY <2>1 DEF Done
    <2>5. Meets(D)'
      BY <2>1, <2>2, <2>3, <2>4 DEF Meets
    <2> QED
      BY <1>6, <2>1, <2>5
  <1>11. CASE SendNext \/ Acknowledged
    <2>1. /\ tw523 \in {"flushing", "answered"} /\ tw523' \in {"flushing", "sending"}
          /\ tw523 = "answered" => acknowledged
          /\ UNCHANGED <<device, reverseQueue, mQueue, actual>>
      BY <1>11 DEF SendNext, Acknowledged
    <2>2. Done' = Done
      <3>1. CASE SendNext
        <4>1. tw523 = "flushing" /\ tw523' = "sending" /\ mQueueHead' = mQueueHead + 1
          BY <3>1 DEF SendNext
        <4>2. (mQueueHead + 1) - 1 = mQueueHead
          BY <1>3
        <4> QED
          BY <4>1, <4>2 DEF Done
      <3>2. CASE Acknowledged
        BY <3>2 DEF Acknowledged, Done
      <3> QED
        BY <1>11, <3>1, <3>2
    <2>3. PICK c \in Nat, f \in Functions :
              /\ Orderly(mQueue, c, f)
              /\ \A u \in Units : IsReal(u) =>
                     InTouch(mQueue, c, f, Done, u, D[u], actual[u])
      BY <1>7, <2>1 DEF DimLost
    <2>4. Meets(D)'
      BY <2>1, <2>2, <2>3 DEF Meets
    <2> QED
      BY <1>6, <2>1, <2>4
  <1>12. CASE EchoHeard \/ NotHeard
    <2> DEFINE m == x10_sent_message
               n == mQueueHead - 1
    <2>1. /\ tw523 = "sending" /\ tw523' = "answered"
          /\ UNCHANGED <<device, mQueue, mQueueHead>>
      BY <1>12 DEF EchoHeard, NotHeard
    <2>2. /\ mQueueHead >= 1 /\ m = mQueue[mQueueHead] /\ m \in Messages
      BY <2>1 DEF QueueInv, Inv, LockInv
    <2>3. /\ Done = n /\ n \in 0..(Len(mQueue) - 1) /\ n + 1 = mQueueHead
          /\ m = mQueue[n + 1]
      BY <1>3, <2>1, <2>2 DEF Done
    <2>4. PICK c \in Nat, f \in Functions :
              /\ Orderly(mQueue, c, f)
              /\ \A u \in Units : IsReal(u) =>
                     InTouch(mQueue, c, f, n, u, D[u], actual[u])
      BY <1>7, <2>1, <2>3 DEF DimLost
    <2>5. ASSUME Reaches(m), NEW u \in Units, IsReal(u)
          PROVE  Hears(u, mQueue[n + 1], actual[u], actual'[u]) /\ actual'[u] \in Devices
      <3>1. actual' = Hear(actual, m, FALSE)
        BY <2>5 DEF Reaches
      <3>2. actual' \in [Units -> Devices]
        BY <1>3, <2>2, <3>1, HearType
      <3> QED
        BY <1>3, <2>2, <2>3, <2>5, <3>1, <3>2, HearIsHears
    <2> HIDE DEF m, n
    <2>6. CASE EchoHeard
      <3>1. /\ acknowledged' = TRUE /\ Reaches(m)
            /\ reverseQueue' = Append(reverseQueue, [external |-> FALSE, message |-> m])
        BY <2>6 DEF EchoHeard, m
      <3> DEFINE r == [external |-> FALSE, message |-> m]
      <3>2. r \in Received /\ r.message = m /\ r.external = FALSE
        BY <2>2 DEF Received
      <3> HIDE DEF r
      <3>3. PICK E : E = Hear(D, m, FALSE)
        OBVIOUS
      <3>4. PICK g : /\ Hearing(g, device, Append(reverseQueue, r))
                     /\ g[Len(reverseQueue) + 1] = E
        <4>0. /\ device \in [Units -> Devices] /\ reverseQueue \in Seq(Received)
              /\ r \in Received /\ Hearing(h, device, reverseQueue)
          BY <1>2, <1>3, <3>2
        <4>1. \E g : HearsToo(g, h, device, reverseQueue, r)
          BY <4>0, HearingExtends
        <4>2. E = Hear(h[Len(reverseQueue)], r.message, FALSE)
          BY <1>4, <3>2, <3>3
        <4> QED
          BY <4>1, <4>2 DEF HearsToo
      <3>5. /\ reverseQueue' = Append(reverseQueue, r) /\ Len(reverseQueue') = Len(reverseQueue) + 1
            /\ \A i \in 1..Len(reverseQueue') : reverseQueue'[i].external = FALSE
        BY <1>3, <3>1, <3>2 DEF r
      <3>6. Hearing(g, device', reverseQueue') /\ E = g[Len(reverseQueue')]
        BY <2>1, <3>4, <3>5
      <3>7. E \in [Units -> Devices]
        BY <1>5, <2>2, <3>3, HearType
      <3>8. ASSUME NEW u \in Units, IsReal(u)
            PROVE  InTouch(mQueue, c, f, n + 1, u, E[u], actual'[u])
        <4>1. Hears(u, mQueue[n + 1], D[u], E[u])
          BY <1>5, <2>2, <2>3, <3>3, <3>8, HearIsHears
        <4>2. Hears(u, mQueue[n + 1], actual[u], actual'[u]) /\ actual'[u] \in Devices
          BY <2>5, <3>1, <3>8
        <4>3. D[u] \in Devices /\ E[u] \in Devices /\ actual[u] \in Devices
          BY <1>3, <1>5, <3>7
        <4> QED
          BY <2>3, <2>4, <3>8, <4>1, <4>2, <4>3, BothHear
      <3>9. Done' = n + 1
        BY <2>1, <2>3, <3>1 DEF Done
      <3>10. Meets(E)'
        BY <2>1, <2>4, <3>8, <3>9 DEF Meets
      <3> QED
        BY <3>5, <3>6, <3>10, TrustKept
    <2>7. CASE NotHeard
      <3>1. /\ acknowledged' = FALSE /\ UNCHANGED reverseQueue
            /\ Reaches(m) \/ UNCHANGED actual
        BY <2>7 DEF NotHeard, m
      <3>2. Done' = n
        BY <2>1, <2>3, <3>1 DEF Done, n
      <3>3. CASE f \in {"Dim", "Bright"}
        <4>1. DimLost(f)'
          BY <2>1, <3>1, <3>3 DEF DimLost
        <4>2. Meets(D)'
          BY <2>1, <2>4, <4>1 DEF Meets
        <4> QED
          BY <1>6, <2>1, <3>1, <4>2
      <3>4. CASE f \notin {"Dim", "Bright"}
        <4>1. ASSUME NEW u \in Units, IsReal(u)
              PROVE  InTouch(mQueue, c, f, n, u, D[u], actual'[u])
          <5>1. CASE UNCHANGED actual
            BY <2>4, <4>1, <5>1
          <5>2. CASE Reaches(m)
            <6>1. Hears(u, mQueue[n + 1], actual[u], actual'[u]) /\ actual'[u] \in Devices
              BY <2>5, <4>1, <5>2
            <6>2. D[u] \in Devices /\ actual[u] \in Devices
              BY <1>3, <1>5
            <6> QED
              BY <2>3, <2>4, <3>4, <4>1, <6>1, <6>2, UnitHears
          <5> QED
            BY <3>1, <5>1, <5>2
        <4>2. Meets(D)'
          BY <2>1, <2>4, <3>2, <4>1 DEF Meets
        <4> QED
          BY <1>6, <2>1, <3>1, <4>2
      <3> QED
        BY <3>3, <3>4
    <2> QED
      BY <1>12, <2>6, <2>7
  <1>13. CASE Resend \/ Restart
    <2>1. /\ tw523 = "answered" /\ ~acknowledged /\ ~ContainsDimOrBright
          /\ UNCHANGED <<device, reverseQueue, mQueue, actual>>
      BY <1>13 DEF Resend, MayResend, Restart, MayRestart
    <2>2. mQueueHead >= 1 /\ Done = mQueueHead - 1 /\ Done \in 0..Len(mQueue)
      BY <1>3, <2>1 DEF QueueInv, Done
    <2>3. PICK c \in Nat, f \in Functions :
              /\ Orderly(mQueue, c, f)
              /\ DimLost(f) \/ \A u \in Units : IsReal(u) =>
                                   InTouch(mQueue, c, f, Done, u, D[u], actual[u])
      BY <1>7, <2>1
    <2>4. f \notin {"Dim", "Bright"}
      BY <1>8, <2>1, <2>3
    <2>5. \A u \in Units : IsReal(u) => InTouch(mQueue, c, f, Done, u, D[u], actual[u])
      BY <2>3, <2>4 DEF DimLost
    <2>6. CASE Resend
      <3>1. tw523' = "sending" /\ mQueueHead' = mQueueHead
        BY <2>6 DEF Resend
      <3>2. Done' = Done
        BY <2>2, <3>1 DEF Done
      <3>3. Meets(D)'
        BY <2>1, <2>3, <2>5, <3>1, <3>2 DEF Meets
      <3> QED
        BY <1>6, <2>1, <3>3
    <2>7. CASE Restart
      <3>1. tw523' = "flushing" /\ mQueueHead' = 0
        BY <2>7 DEF Restart
      <3>2. Done' = 0
        BY <3>1 DEF Done
      <3>3. \A u \in Units : IsReal(u) => InTouch(mQueue, c, f, 0, u, D[u], actual[u])
        BY <1>3, <1>5, <2>2, <2>3, <2>4, <2>5, RestartsInTouch
      <3>4. Meets(D)'
        BY <2>1, <2>3, <3>1, <3>2, <3>3 DEF Meets
      <3> QED
        BY <1>6, <2>1, <3>4
    <2> QED
      BY <1>13, <2>6, <2>7
  <1>14. CASE GiveUp
    BY <1>14 DEF GiveUp
  <1>15. CASE AllSent
    <2>1. /\ tw523 = "flushing" /\ tw523' = "finished"
          /\ UNCHANGED <<device, reverseQueue, mQueue, mQueueHead, actual>>
      BY <1>15 DEF AllSent, FlushReturns
    <2>2. Done' = Done /\ \A f : ~DimLost(f)
      BY <2>1 DEF Done, DimLost
    <2>3. Meets(D)'
      BY <1>7, <2>1, <2>2 DEF Meets
    <2> QED
      BY <1>6, <2>1, <2>3
  <1>16. CASE EndFlush
    <2>1. /\ tw523 = "finished" /\ tw523' = "halfCycle" /\ UNCHANGED <<device, reverseQueue, actual>>
      BY <1>16 DEF EndFlush
    <2>2. Done = Len(mQueue) /\ \A f : ~DimLost(f)
      BY <1>1, <2>1 DEF QueueInv, Done, DimLost
    <2>3. PICK c \in Nat, f \in Functions :
              /\ Orderly(mQueue, c, f)
              /\ \A u \in Units : IsReal(u) =>
                     InTouch(mQueue, c, f, Len(mQueue), u, D[u], actual[u])
      BY <1>7, <2>1, <2>2
    <2>4. \A u \in Units : IsReal(u) => AtOne(D[u], actual[u])
      BY <1>3, <1>5, <2>3, EndsInTouch
    <2>5. Meets(D)'
      BY <2>1, <2>4 DEF Meets
    <2> QED
      BY <1>6, <2>1, <2>5
  <1>17. CASE TimerDue
    BY <1>1, <1>17, TrustStill DEF TimerDue
  <1>18. ASSUME NEW m \in Messages, Overhear(m) PROVE FALSE
    BY <1>18 DEF Overhear
  <1> QED
    BY <1>9, <1>10, <1>11, <1>12, <1>13, <1>14, <1>15, <1>16, <1>17, <1>18 DEF Send

LEMMA StepTrust == Inv /\ QueueInv /\ TrustInv /\ [Next]_vars => TrustInv'
  <1>1. Inv /\ TrustInv /\ UNCHANGED vars => TrustInv'
    <2> SUFFICES ASSUME Inv, TrustInv, UNCHANGED vars PROVE TrustInv'
      OBVIOUS
    <2>1. CASE ~trusted
      BY <2>1 DEF TrustInv, vars, mainsVars
    <2>2. CASE trusted
      BY <2>2, TrustStill DEF vars, houseVars, queueVars, tw523Vars, mainsVars
    <2> QED
      BY <2>1, <2>2
  <1> QED
    BY <1>1, RulesStepTrust, TW523StepTrust DEF Next

LEMMA InitTrust == Init => QueueInv /\ TrustInv
  <1> SUFFICES ASSUME Init PROVE QueueInv /\ TrustInv
    OBVIOUS
  <1>1. QueueInv
    BY DEF Init, QueueInv
  <1>2. device \in [Units -> Devices]
    BY NewDeviceType DEF Init
  <1> DEFINE h == [i \in 0..0 |-> device]
  <1>3. Len(reverseQueue) = 0 /\ tw523 = "halfCycle"
    BY DEF Init
  <1>4. h[0] = device /\ h \in [0..0 -> [Units -> Devices]]
    BY <1>2
  <1>5. ASSUME NEW u \in Units
        PROVE  /\ device[u].state = Unknown /\ actual[u].state = Off
               /\ device[u].selected = "off" /\ actual[u].selected = "off"
               /\ Unknown # RefreshWanted
    <2>1. /\ device[u] = NewDevice(Kind[u])
          /\ actual[u] = [NewDevice(Kind[u]) EXCEPT !.state = Off]
      BY DEF Init
    <2>2. Unknown # RefreshWanted
      BY DeviceConstants
    <2> QED
      BY <2>1, <2>2 DEF NewDevice
  <1> HIDE DEF h
  <1>6. Hearing(h, device, reverseQueue)
    BY <1>3, <1>4, <1>5 DEF Hearing
  <1>7. Meets(device)
    BY <1>3, <1>5 DEF Meets, AtOne, Alike, Agree
  <1>8. Meets(h[Len(reverseQueue)])
    BY <1>3, <1>4, <1>7
  <1>9. \A i \in 1..Len(reverseQueue) : reverseQueue[i].external = FALSE
    BY <1>3
  <1> QED
    BY <1>1, <1>6, <1>8, <1>9 DEF TrustInv

(* Retries do no harm: as long as the house alone sends and every flush gets *)
(* through in the end, what it believes of a device, its messages heard, is  *)
(* what the device shows, whichever echoes were lost on the way (tw523.cpp,  *)
(* mSendMessageWithImmediateRetry and mFlushQueue).                         *)
THEOREM RetriesAreSafeHolds == Spec => []RetriesAreSafe
  <1>1. TrustInv => RetriesAreSafe
    <2> SUFFICES ASSUME TrustInv, trusted, tw523 = "halfCycle", reverseQueue = <<>>,
                        NEW u \in Units, IsReal(u), device[u].state # Unknown
                 PROVE  device[u].state = actual[u].state
      BY DEF RetriesAreSafe
    <2>1. PICK h : Hearing(h, device, reverseQueue) /\ Meets(h[Len(reverseQueue)])
      BY DEF TrustInv
    <2>2. h[Len(reverseQueue)] = device
      BY <2>1 DEF Hearing
    <2>3. AtOne(device[u], actual[u])
      BY <2>1, <2>2 DEF Meets
    <2> QED
      BY <2>3 DEF AtOne, Alike, Agree
  <1> QED
    BY <1>1, InitTrust, StepQueue, StepTrust, Invariance, PTL DEF Spec
=============================================================================
