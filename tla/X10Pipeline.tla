----------------------------- MODULE X10Pipeline -----------------------------
(***************************************************************************)
(* The house as it runs: the rules thread plans from what it believes the   *)
(* devices show (Planner), the TW523 thread sends the plan over the mains,   *)
(* and what comes back waits in the reverse queue (rqueue.cpp) until the    *)
(* rules thread listens again.  The control is that of X10Queue, with the   *)
(* messages of the queue, the turn of the rules thread (runtime.cpp) and    *)
(* the retries of single messages (tw523.cpp) made explicit; Lock below     *)
(* states that it still is X10Queue's.                                      *)
(*                                                                         *)
(* One house code.  Rules that come due, people, and messages that are not  *)
(* heard back disturb the house, at most MaxDisturbances times.             *)
(***************************************************************************)
EXTENDS Planner

CONSTANTS OtherTransmitters,  \* mHouseCodeHasOtherTransmitters: house code B or C
          MaxTries,           \* sendings of one message: 10
          MaxPasses,          \* passes of mFlushQueue: 10
          MaxDue,             \* bound on the rules due at one time
          MaxDisturbances     \* bound on disturbances of a behaviour

ASSUME X10PipelineAssumption ==
    /\ OtherTransmitters \in BOOLEAN
    /\ MaxTries \in Nat \ {0} /\ MaxPasses \in Nat \ {0}
    /\ MaxDue \in Nat /\ MaxDisturbances \in Nat

VARIABLES device, allX10DevicesInWantedState,   \* the rules thread's
          due, rules,
          mutex, mQueue, mQueueHead,            \* between the threads
          reverseQueue,
          tw523, x10_sent_message, acknowledged, \* the TW523 thread's
          immediateRetryCount, completeMessageRetry,
          actual,         \* what the devices at the other end of the mains really show
          trusted,        \* history: the house alone has sent, and got all of it through
          overtaken,      \* history: the flag was set past messages not listened to
          disturbances    \* disturbances so far

houseVars == <<device, allX10DevicesInWantedState, overtaken>>
mainsVars == <<actual, trusted>>
queueVars == <<mQueue, mQueueHead>>
tw523Vars == <<tw523, x10_sent_message, acknowledged, immediateRetryCount, completeMessageRetry>>
vars == <<houseVars, due, rules, mutex, queueVars, reverseQueue, tw523Vars, mainsVars, disturbances>>

Nothing  == [type |-> "nothing"]     \* message 0
Received == [external : BOOLEAN, message : Messages]

TypeOK ==
    /\ device \in [Units -> Devices] /\ actual \in [Units -> Devices]
    /\ allX10DevicesInWantedState \in BOOLEAN /\ overtaken \in BOOLEAN /\ trusted \in BOOLEAN
    /\ due \in 0..MaxDue
    /\ rules \in {"listening", "looking", "wantsToPlan", "planning", "planned",
                  "working", "wantsToFire", "firing"}
    /\ mutex \in {"free", "rules", "tw523"}
    /\ mQueue \in Seq(Messages) /\ mQueueHead \in 0..Len(mQueue)
    /\ reverseQueue \in Seq(Received)
    /\ tw523 \in {"halfCycle", "wantsToFlush", "flushing", "sending", "answered", "finished"}
    /\ x10_sent_message \in Messages \cup {Nothing}
    /\ acknowledged \in BOOLEAN
    /\ immediateRetryCount \in 0..MaxTries
    /\ completeMessageRetry \in 0..(MaxPasses - 1)
    /\ disturbances \in 0..MaxDisturbances

Init ==
    /\ device = [u \in Units |-> NewDevice(Kind[u])]
    /\ allX10DevicesInWantedState = FALSE /\ overtaken = FALSE
    /\ due = 0 /\ rules = "listening"
    /\ mutex = "free" /\ mQueue = <<>> /\ mQueueHead = 0
    /\ reverseQueue = <<>>
    /\ actual = [u \in Units |-> [NewDevice(Kind[u]) EXCEPT !.state = Off]] /\ trusted = TRUE
    /\ tw523 = "halfCycle" /\ x10_sent_message = Nothing /\ acknowledged = FALSE
    /\ immediateRetryCount = 0 /\ completeMessageRetry = 0
    /\ disturbances = 0

Waiting == Len(mQueue) - mQueueHead     \* getQueueSize
ContainsDimOrBright == \E i \in DOMAIN mQueue : mQueue[i] \in {Command("Dim"), Command("Bright")}

Disturb == disturbances < MaxDisturbances /\ disturbances' = disturbances + 1
-----------------------------------------------------------------------------
(* The rules thread: one turn of maintainQueues after the other.            *)

\* processReverseX10Queue: pop a message and let the house code hear it.
Listen ==
    /\ rules \in {"listening", "planned"} /\ reverseQueue # <<>>
    /\ LET heard == Head(reverseQueue)
       IN  /\ device' = Hear(device, heard.message, heard.external)
           /\ allX10DevicesInWantedState' =
                  /\ allX10DevicesInWantedState
                  /\ ~(heard.external /\ ApplianceLampsWanted(device, heard.message))
    /\ reverseQueue' = Tail(reverseQueue)
    /\ UNCHANGED <<overtaken, due, rules, mutex, queueVars, tw523Vars, mainsVars, disturbances>>

Listened ==
    /\ rules \in {"listening", "planned"} /\ reverseQueue = <<>>
    /\ rules' = IF rules = "listening" THEN "looking" ELSE "working"
    /\ UNCHANGED <<houseVars, due, mutex, queueVars, reverseQueue, tw523Vars, mainsVars, disturbances>>

\* The length of the queue is read without the lock, and is 0 as soon as the
\* last message has been taken, before it has been sent.
Look ==
    /\ rules = "looking"
    /\ rules' = IF ~allX10DevicesInWantedState /\ Waiting = 0 THEN "wantsToPlan" ELSE "working"
    /\ UNCHANGED <<houseVars, due, mutex, queueVars, reverseQueue, tw523Vars, mainsVars, disturbances>>

\* Variant: planning does not wait for the lock.
StartPlanUnlocked ==
    /\ rules = "wantsToPlan"
    /\ mutex' = "rules" /\ rules' = "planning"
    /\ mQueue' = <<>> /\ mQueueHead' = 0
    /\ UNCHANGED <<houseVars, due, reverseQueue, tw523Vars, mainsVars, disturbances>>

StartPlan ==
    /\ rules = "wantsToPlan" /\ mutex = "free"
    /\ mutex' = "rules" /\ rules' = "planning"
    /\ mQueue' = <<>> /\ mQueueHead' = 0
    /\ UNCHANGED <<houseVars, due, reverseQueue, tw523Vars, mainsVars, disturbances>>

AddMessage ==
    /\ rules = "planning" /\ Len(mQueue) < Len(Plan(device))
    /\ mQueue' = Append(mQueue, Plan(device)[Len(mQueue) + 1])
    /\ UNCHANGED <<houseVars, due, rules, mutex, mQueueHead, reverseQueue, tw523Vars, mainsVars, disturbances>>

\* Variant: an empty plan does not set allX10DevicesInWantedState.
EndPlanUnnoted ==
    /\ rules = "planning" /\ Len(mQueue) = Len(Plan(device))
    /\ mutex' = "free"
    /\ rules' = IF mQueue = <<>> THEN "working" ELSE "planned"
    /\ UNCHANGED <<houseVars, due, queueVars, reverseQueue, tw523Vars, mainsVars, disturbances>>

\* mUpdateDevices returns; with nothing to send the devices are as wanted.
EndPlan ==
    /\ rules = "planning" /\ Len(mQueue) = Len(Plan(device))
    /\ mutex' = "free"
    /\ rules' = IF mQueue = <<>> THEN "working" ELSE "planned"
    /\ allX10DevicesInWantedState' = (allX10DevicesInWantedState \/ mQueue = <<>>)
    /\ overtaken' = IF mQueue = <<>> THEN reverseQueue # <<>> ELSE overtaken
    /\ UNCHANGED <<device, due, queueVars, reverseQueue, tw523Vars, mainsVars, disturbances>>

CallRule ==
    /\ rules = "working" /\ due > 0
    /\ due' = due - 1 /\ rules' = "wantsToFire"
    /\ UNCHANGED <<houseVars, mutex, queueVars, reverseQueue, tw523Vars, mainsVars, disturbances>>

StartRule ==
    /\ rules = "wantsToFire" /\ mutex = "free"
    /\ mutex' = "rules" /\ rules' = "firing"
    /\ UNCHANGED <<houseVars, due, queueVars, reverseQueue, tw523Vars, mainsVars, disturbances>>

\* Variant: a new wish does not wake the planner.
NeverWakes(u, w) == FALSE

\* A wish the device does not show clears allX10DevicesInWantedState.
Wakes(u, w) == device[u].state # w

\* A rule that sets one device, and the end of vm.
SetWantedState(u, w) ==
    /\ rules = "firing"
    /\ IsReal(u) /\ w \in WishesOf(Kind[u])
    /\ device' = [device EXCEPT ![u].wanted = w]
    /\ allX10DevicesInWantedState' = (allX10DevicesInWantedState /\ ~Wakes(u, w))
    /\ mutex' = "free" /\ rules' = "working"
    /\ UNCHANGED <<overtaken, due, queueVars, reverseQueue, tw523Vars, mainsVars, disturbances>>

NextTurn ==
    /\ rules = "working" /\ due = 0
    /\ rules' = "listening"
    /\ UNCHANGED <<houseVars, due, mutex, queueVars, reverseQueue, tw523Vars, mainsVars, disturbances>>
-----------------------------------------------------------------------------
(* The TW523 thread.                                                        *)

ruleState == <<houseVars, rules>>

\* The clock, which do_half_cycle ticks, has reached a timer.
TimerDue ==
    /\ tw523 \in {"halfCycle", "flushing", "sending", "answered"} /\ due < MaxDue
    /\ Disturb
    /\ due' = due + 1
    /\ UNCHANGED <<ruleState, mutex, queueVars, reverseQueue, tw523Vars, mainsVars>>

\* What is on the mains reaches the devices, which obey as the house thinks
\* they do.
Reaches(m) == actual' = Hear(actual, m, FALSE)

\* do_half_cycle hears somebody else.  A message equal to the one last sent
\* passes for the house's own.
Overhear(m) ==
    /\ \/ tw523 \in {"halfCycle", "answered"}
       \/ tw523 = "flushing" /\ mQueueHead = 0
    /\ Disturb
    /\ reverseQueue' = Append(reverseQueue, [external |-> m # x10_sent_message, message |-> m])
    /\ Reaches(m) /\ trusted' = FALSE
    /\ UNCHANGED <<ruleState, due, mutex, queueVars, tw523Vars>>

SeeWork ==
    /\ tw523 = "halfCycle" /\ Waiting > 0
    /\ tw523' = "wantsToFlush"
    /\ UNCHANGED <<ruleState, due, mutex, queueVars, reverseQueue, x10_sent_message, acknowledged,
                   immediateRetryCount, completeMessageRetry, mainsVars, disturbances>>

StartFlush ==
    /\ tw523 = "wantsToFlush" /\ mutex = "free"
    /\ mutex' = "tw523" /\ tw523' = "flushing"
    /\ completeMessageRetry' = 0
    /\ UNCHANGED <<ruleState, due, queueVars, reverseQueue, x10_sent_message, acknowledged,
                   immediateRetryCount, mainsVars, disturbances>>

SendNext ==
    /\ tw523 = "flushing" /\ Waiting > 0
    /\ x10_sent_message' = mQueue[mQueueHead + 1]
    /\ mQueueHead' = mQueueHead + 1
    /\ immediateRetryCount' = 1
    /\ tw523' = "sending"
    /\ UNCHANGED <<ruleState, due, mutex, mQueue, reverseQueue, acknowledged,
                   completeMessageRetry, mainsVars, disturbances>>

\* The message comes back (noteMessageReceived).
EchoHeard ==
    /\ tw523 = "sending"
    /\ reverseQueue' = Append(reverseQueue, [external |-> FALSE, message |-> x10_sent_message])
    /\ Reaches(x10_sent_message)
    /\ acknowledged' = TRUE
    /\ tw523' = "answered"
    /\ UNCHANGED <<ruleState, due, mutex, queueVars, x10_sent_message, immediateRetryCount,
                   completeMessageRetry, trusted, disturbances>>

\* Nothing, or another message, is heard instead.  The devices may have heard
\* what was sent all the same.
NotHeard ==
    /\ tw523 = "sending"
    /\ Disturb
    /\ \/ /\ Reaches(x10_sent_message) \/ UNCHANGED actual
          /\ UNCHANGED <<reverseQueue, trusted>>
       \/ \E m \in Messages \ {x10_sent_message} :
              /\ Reaches(m) /\ trusted' = FALSE
              /\ reverseQueue' = Append(reverseQueue, [external |-> TRUE, message |-> m])
    /\ acknowledged' = FALSE
    /\ tw523' = "answered"
    /\ UNCHANGED <<ruleState, due, mutex, queueVars, x10_sent_message, immediateRetryCount,
                   completeMessageRetry>>

Acknowledged ==
    /\ tw523 = "answered" /\ acknowledged
    /\ tw523' = "flushing"
    /\ UNCHANGED <<ruleState, due, mutex, queueVars, reverseQueue, x10_sent_message, acknowledged,
                   immediateRetryCount, completeMessageRetry, mainsVars, disturbances>>

\* Variant: single messages are repeated without end.
MayResendForever == ~OtherTransmitters /\ ~ContainsDimOrBright

\* Variant: a DIM is repeated like any other message.
MayResendDims == immediateRetryCount < MaxTries /\ ~OtherTransmitters

\* mSendMessageWithImmediateRetry: a DIM is not repeated, nor a message that
\* may fall into somebody else's selection.
MayResend == /\ immediateRetryCount < MaxTries
             /\ ~OtherTransmitters /\ ~ContainsDimOrBright

Resend ==
    /\ tw523 = "answered" /\ ~acknowledged /\ MayResend
    /\ immediateRetryCount' = immediateRetryCount + 1
    /\ tw523' = "sending"
    /\ UNCHANGED <<ruleState, due, mutex, queueVars, reverseQueue, x10_sent_message, acknowledged,
                   completeMessageRetry, mainsVars, disturbances>>

\* mFlushQueue: the whole queue again.
MayRestart == completeMessageRetry + 1 < MaxPasses /\ ~ContainsDimOrBright

Restart ==
    /\ tw523 = "answered" /\ ~acknowledged /\ ~MayResend /\ MayRestart
    /\ completeMessageRetry' = completeMessageRetry + 1
    /\ mQueueHead' = 0
    /\ tw523' = "flushing"
    /\ UNCHANGED <<ruleState, due, mutex, mQueue, reverseQueue, x10_sent_message, acknowledged,
                   immediateRetryCount, mainsVars, disturbances>>

FlushReturns ==
    /\ x10_sent_message' = Nothing
    /\ tw523' = "finished"
    /\ UNCHANGED <<ruleState, due, mutex, queueVars, reverseQueue, acknowledged,
                   immediateRetryCount, completeMessageRetry, actual, disturbances>>

GiveUp ==
    /\ tw523 = "answered" /\ ~acknowledged /\ ~MayResend /\ ~MayRestart
    /\ FlushReturns /\ trusted' = FALSE

AllSent ==
    /\ tw523 = "flushing" /\ Waiting = 0
    /\ FlushReturns /\ UNCHANGED trusted

EndFlush ==
    /\ tw523 = "finished"
    /\ mQueue' = <<>> /\ mQueueHead' = 0
    /\ mutex' = "free" /\ tw523' = "halfCycle"
    /\ UNCHANGED <<ruleState, due, reverseQueue, x10_sent_message, acknowledged,
                   immediateRetryCount, completeMessageRetry, mainsVars, disturbances>>
-----------------------------------------------------------------------------
RulesNext ==
    \/ Listen \/ Listened \/ Look \/ StartPlan \/ AddMessage \/ EndPlan
    \/ CallRule \/ StartRule
    \/ \E u \in Units, w \in Wishes : SetWantedState(u, w)
    \/ NextTurn

Send == \/ SeeWork \/ StartFlush \/ SendNext \/ EchoHeard \/ Acknowledged
        \/ Resend \/ Restart \/ GiveUp \/ AllSent \/ EndFlush

Next == RulesNext \/ Send \/ NotHeard \/ TimerDue \/ \E m \in Messages : Overhear(m)

\* Both threads run; nothing makes a timer due, people act or messages get lost.
Spec == Init /\ [][Next]_vars /\ WF_vars(RulesNext) /\ WF_vars(Send)
-----------------------------------------------------------------------------
(* What X10Queue sees of this module.                                       *)

\* Every address and the most BRIGHTs, or the three AllUnitsOffs.
LongestPlan == Max({NumUnits + MaxDim, AllOffRepeatCount})

Lock == INSTANCE X10Queue
        WITH MaxQueueSize <- 54, MaxPlan <- LongestPlan, MaxInfraRed <- 0,
             size <- Len(mQueue), head <- mQueueHead,
             dimOrBright <- ContainsDimOrBright, infraRed <- 0,
             rules  <- IF rules \in {"listening", "looking", "planned", "working"}
                       THEN "running" ELSE rules,
             tw523  <- IF tw523 = "answered" THEN "sending" ELSE tw523,
             passes <- completeMessageRetry

(* The threads with all they really carry keep to the protocol of the lock  *)
(* and the queue, so what is proved of X10Queue holds of them: in           *)
(* particular a plan fits the queue and clears nothing unsent.              *)
KeepsToX10Queue == Lock!QueueInit /\ [][Lock!QueueNext]_(Lock!queueVars)

\* The planner is asleep and nothing is on its way to the devices or back.
AtRest == /\ allX10DevicesInWantedState
          /\ mQueue = <<>> /\ tw523 = "halfCycle" /\ reverseQueue = <<>>

(* The house comes to rest in the wrong state in one way only: the planner  *)
(* found nothing to do while messages it had not listened to were waiting   *)
(* in the reverse queue (runtime.cpp, maintainQueues listens before it      *)
(* waits for the lock, and the flush it waits for is what fills the queue). *)
WrongRestWasOvertaken ==
    AtRest /\ (\E u \in Units : ~NothingToSend(device, u)) => overtaken

(* allX10DevicesInWantedState is what it says: at rest the devices are in   *)
(* their wanted state, "no changes to devices needed" (housecode.cpp).      *)
RestMeansSettled == AtRest => \A u \in Units : NothingToSend(device, u)

(* Retries do no harm: while the house alone sends and every flush gets     *)
(* through in the end, what it believes of a device when it has heard its   *)
(* own messages is what the device shows, whichever echoes were lost on the *)
(* way (tw523.cpp repeats addresses and ON or OFF, never a DIM or BRIGHT,   *)
(* "or you might get the wrong number of DIMs/BRIGHTs").                    *)
RetriesAreSafe ==
    trusted /\ tw523 = "halfCycle" /\ reverseQueue = <<>> =>
        \A u \in Units : IsReal(u) /\ device[u].state # Unknown
                           => device[u].state = actual[u].state

\* DIMs or BRIGHTs are planned past messages the house has not listened to.
DimsUnheard == rules = "planning" /\ ContainsDimOrBright /\ reverseQueue # <<>>

(* Left alone, both threads come to rest, unless the house dims or          *)
(* brightens a lamp past unheard echoes again and again (housecode.cpp      *)
(* counts levels from where it believes the lamp to be).                    *)
EventuallyAtRest == <>[]AtRest \/ []<>DimsUnheard
=============================================================================
