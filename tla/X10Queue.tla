------------------------------ MODULE X10Queue ------------------------------
(***************************************************************************)
(* The outgoing X10 queue (queue.cpp) between the rules thread, which fills *)
(* it, and the TW523 thread, which sends it.  mQueueMutex is held by the    *)
(* rules thread while it plans a house code (housecode.cpp) and while a     *)
(* rule runs (vm.cpp), and by the TW523 thread for a whole flush, retries   *)
(* included (tw523.cpp).  Both threads look at the queue's length without   *)
(* holding it.                                                             *)
(*                                                                         *)
(* Messages are not distinguished here: size is mQueueSize, head is         *)
(* mQueueHead.  Retries of a single message are inside its sending.         *)
(***************************************************************************)
EXTENDS Integers

CONSTANTS MaxQueueSize,     \* MAX_QUEUE_SIZE: 54
          MaxPlan,          \* longest plan of a house code: 16 addresses and 17 DIMs
          MaxPasses,        \* passes mFlushQueue makes over the queue: 10
          MaxInfraRed,      \* infra red commands rules add between two clearings;
                            \* nothing in the code bounds them
          MaxDue            \* bound on the rules due at one time

ASSUME X10QueueAssumption ==
    /\ MaxQueueSize \in Nat /\ MaxPlan \in Nat /\ MaxInfraRed \in Nat /\ MaxDue \in Nat
    /\ MaxPasses \in Nat \ {0}
    /\ MaxPlan + 2 * MaxInfraRed < MaxQueueSize

VARIABLES mutex,        \* mQueueMutex
          size, head,
          dimOrBright,  \* mQueueContainsDimOrBright
          infraRed,     \* infra red commands since the queue was last cleared
          due,          \* rules that are due: timers, timeouts, messages heard
          rules,        \* where the rules thread is
          tw523,        \* where the TW523 thread is
          passes        \* completeMessageRetry

queueVars == <<mutex, size, head, dimOrBright, infraRed, due, rules, tw523, passes>>

QueueTypeOK ==
    /\ mutex \in {"free", "rules", "tw523"}
    /\ size \in Nat /\ head \in Nat
    /\ dimOrBright \in BOOLEAN
    /\ infraRed \in 0..MaxInfraRed
    /\ due \in 0..MaxDue
    /\ rules \in {"running", "wantsToPlan", "planning", "wantsToFire", "firing"}
    /\ tw523 \in {"halfCycle", "wantsToFlush", "flushing", "sending", "finished"}
    /\ passes \in 0..(MaxPasses - 1)

QueueInit ==
    /\ mutex = "free"
    /\ size = 0 /\ head = 0
    /\ dimOrBright = FALSE
    /\ infraRed = 0
    /\ due = 0
    /\ rules = "running"
    /\ tw523 = "halfCycle"
    /\ passes = 0

\* getQueueSize
Waiting == size - head

\* Variant: the head is left behind.
ClearSize == size' = 0 /\ head' = head /\ dimOrBright' = FALSE /\ infraRed' = 0

\* clearQueue
Clear == size' = 0 /\ head' = 0 /\ dimOrBright' = FALSE /\ infraRed' = 0
-----------------------------------------------------------------------------
(* The rules thread.                                                        *)

\* Variant: maintainQueues does not look at the queue.
SeeAnything ==
    /\ rules = "running"
    /\ rules' = "wantsToPlan"
    /\ UNCHANGED <<mutex, size, head, dimOrBright, infraRed, due, tw523, passes>>

\* maintainQueues reads getQueueSize() == 0 and goes to mUpdateX10Devices.
SeeEmpty ==
    /\ rules = "running" /\ Waiting = 0
    /\ rules' = "wantsToPlan"
    /\ UNCHANGED <<mutex, size, head, dimOrBright, infraRed, due, tw523, passes>>

\* mUpdateDevices: take the lock, clear the queue.
StartPlan ==
    /\ rules = "wantsToPlan" /\ mutex = "free"
    /\ mutex' = "rules" /\ rules' = "planning"
    /\ Clear
    /\ UNCHANGED <<due, tw523, passes>>

\* addQueue of one message of the plan.
AddMessage ==
    /\ rules = "planning" /\ size < MaxPlan
    /\ size' = size + 1
    /\ dimOrBright' \in {dimOrBright, TRUE}
    /\ UNCHANGED <<mutex, head, infraRed, due, rules, tw523, passes>>

\* mUpdateDevices returns; when it made no message the next house code is tried.
EndPlan ==
    /\ rules = "planning"
    /\ rules' \in IF size = 0 THEN {"running", "wantsToPlan"} ELSE {"running"}
    /\ mutex' = "free"
    /\ UNCHANGED <<size, head, dimOrBright, infraRed, due, tw523, passes>>

\* vm: a rule is to run, from a timer, a timeout or a received message.
CallRule ==
    /\ rules = "running" /\ due > 0
    /\ due' = due - 1
    /\ rules' = "wantsToFire"
    /\ UNCHANGED <<mutex, size, head, dimOrBright, infraRed, tw523, passes>>

StartRule ==
    /\ rules = "wantsToFire" /\ mutex = "free"
    /\ mutex' = "rules" /\ rules' = "firing"
    /\ UNCHANGED <<size, head, dimOrBright, infraRed, due, tw523, passes>>

\* CX10IRRemoteDevice::mSetWantedState: an address and ON or OFF, at once.
InfraRedCommand ==
    /\ rules = "firing" /\ infraRed < MaxInfraRed
    /\ size' = size + 2
    /\ infraRed' = infraRed + 1
    /\ UNCHANGED <<mutex, head, dimOrBright, due, rules, tw523, passes>>

EndRule ==
    /\ rules = "firing"
    /\ mutex' = "free" /\ rules' = "running"
    /\ UNCHANGED <<size, head, dimOrBright, infraRed, due, tw523, passes>>
-----------------------------------------------------------------------------
(* The TW523 thread.                                                        *)

\* do_half_cycle ticks the clock and hears messages: it is what makes rules
\* due, and the TW523 thread does not get to it while it waits for the lock.
HalfCycle ==
    /\ tw523 \in {"halfCycle", "flushing", "sending"} /\ due < MaxDue
    /\ due' = due + 1
    /\ UNCHANGED <<mutex, size, head, dimOrBright, infraRed, rules, tw523, passes>>

\* tw523ThreadStart reads getQueueSize() > 0.
SeeWork ==
    /\ tw523 = "halfCycle" /\ Waiting > 0
    /\ tw523' = "wantsToFlush"
    /\ UNCHANGED <<mutex, size, head, dimOrBright, infraRed, due, rules, passes>>

StartFlush ==
    /\ tw523 = "wantsToFlush" /\ mutex = "free"
    /\ mutex' = "tw523" /\ tw523' = "flushing"
    /\ passes' = 0
    /\ UNCHANGED <<size, head, dimOrBright, infraRed, due, rules>>

\* nextMessage, and mSendMessageWithImmediateRetry begins.
SendNext ==
    /\ tw523 = "flushing" /\ Waiting > 0
    /\ head' = head + 1
    /\ tw523' = "sending"
    /\ UNCHANGED <<mutex, size, dimOrBright, infraRed, due, rules, passes>>

Acknowledged ==
    /\ tw523 = "sending"
    /\ tw523' = "flushing"
    /\ UNCHANGED <<mutex, size, head, dimOrBright, infraRed, due, rules, passes>>

\* mFlushQueue starts the whole queue again (restartQueue).
Restart ==
    /\ tw523 = "sending"
    /\ ~dimOrBright /\ passes + 1 < MaxPasses
    /\ passes' = passes + 1
    /\ head' = 0
    /\ tw523' = "flushing"
    /\ UNCHANGED <<mutex, size, dimOrBright, infraRed, due, rules>>

GiveUp ==
    /\ tw523 = "sending"
    /\ dimOrBright \/ passes + 1 = MaxPasses
    /\ tw523' = "finished"
    /\ UNCHANGED <<mutex, size, head, dimOrBright, infraRed, due, rules, passes>>

AllSent ==
    /\ tw523 = "flushing" /\ Waiting = 0
    /\ tw523' = "finished"
    /\ UNCHANGED <<mutex, size, head, dimOrBright, infraRed, due, rules, passes>>

\* Variant: a queue given up is left for another flush.
EndFlushKeepingQueue ==
    /\ tw523 = "finished"
    /\ mutex' = "free" /\ tw523' = "halfCycle"
    /\ UNCHANGED <<size, head, dimOrBright, infraRed, due, rules, passes>>

\* tw523ThreadStart: clearQueue, and the lock_guard goes out of scope.
EndFlush ==
    /\ tw523 = "finished"
    /\ Clear
    /\ mutex' = "free" /\ tw523' = "halfCycle"
    /\ UNCHANGED <<due, rules, passes>>
-----------------------------------------------------------------------------
RulesNext == \/ SeeEmpty \/ StartPlan \/ AddMessage \/ EndPlan
             \/ CallRule \/ StartRule \/ InfraRedCommand \/ EndRule
TW523Next == \/ HalfCycle \/ SeeWork \/ StartFlush \/ SendNext
             \/ Acknowledged \/ Restart \/ GiveUp \/ AllSent \/ EndFlush
QueueNext == RulesNext \/ TW523Next

\* A thread that can go on does: a rule ends, a plan ends, a transmission gets
\* its answer or not within the half cycles it takes, and a free lock is taken.
\* Which rules run, and when, is not the scheduler's to promise.
Fairness ==
    /\ WF_queueVars(StartPlan) /\ WF_queueVars(EndPlan)
    /\ WF_queueVars(StartRule) /\ WF_queueVars(EndRule)
    /\ WF_queueVars(SeeWork) /\ WF_queueVars(StartFlush) /\ WF_queueVars(SendNext)
    /\ WF_queueVars(Acknowledged \/ Restart \/ GiveUp)
    /\ WF_queueVars(AllSent) /\ WF_queueVars(EndFlush)

QueueSpec == QueueInit /\ [][QueueNext]_queueVars /\ Fairness
-----------------------------------------------------------------------------
(* The assertions of addQueue and nextMessage (queue.cpp).  Whenever the    *)
(* rules thread adds, nothing has been taken from the queue and there is    *)
(* room; whenever the TW523 thread takes, the queue is not full (nextMessage *)
(* is one stricter than addQueue: a full queue may be built but not sent).  *)
QueueAssertions ==
    /\ rules = "planning" /\ size < MaxPlan => head = 0 /\ size < MaxQueueSize
    /\ rules = "firing" /\ infraRed < MaxInfraRed => head = 0 /\ size + 2 <= MaxQueueSize
    /\ tw523 = "flushing" => size < MaxQueueSize /\ head <= size

(* mUpdateDevices clears the queue first.  The length it acted on was read  *)
(* before it waited for the lock, yet when it gets the lock there is nothing *)
(* in the queue to lose.                                                   *)
PlanDiscardsNothing == rules = "wantsToPlan" /\ mutex = "free" => size = 0

(* A rule that is due runs, however long the flush before it and however    *)
(* many retries it takes: after a flush the TW523 thread cannot take the    *)
(* lock again before the rules thread has had it.                          *)
RulesRun == rules = "wantsToFire" ~> rules = "firing"

(* What is queued is sent or given up, never left lying.  Rules cannot keep *)
(* the TW523 thread from the lock for ever, because no rule becomes due     *)
(* while it waits.                                                         *)
QueueIsFlushed == size > 0 ~> size = 0
=============================================================================
