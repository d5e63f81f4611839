----------------------------- MODULE HouseCode -----------------------------
(***************************************************************************)
(* One house code as the rules thread means it to work: it plans only when *)
(* its last messages have gone out and have been heard back.  (X10Pipeline *)
(* is the same control with the threads, the lock and the two queues that  *)
(* really lie between planning and hearing.)                               *)
(*                                                                         *)
(* Rules, people, a refresh and failed transmissions disturb the house; at *)
(* most MaxDisturbances of them, so that a run can look at what the house  *)
(* does when it is left alone.                                             *)
(***************************************************************************)
EXTENDS Planner

CONSTANTS HouseAction,       \* what a house code's rule action sets
          DeviceAction,      \* what a device's rule action sets
          MaxDisturbances    \* bound on disturbances of a behaviour

\* What a rule action sets: some real devices, each to a wish of its class.
RuleAction(r) == /\ DOMAIN r \subseteq {u \in Units : IsReal(u)}
                 /\ \A u \in DOMAIN r : r[u] \in WishesOf(Kind[u])

ASSUME HouseCodeAssumption ==
    /\ MaxDisturbances \in Nat
    /\ \A s \in {"off", "on"} : RuleAction(HouseAction[s])
    /\ \A u \in Units, s \in {"off", "on"} : RuleAction(DeviceAction[<<u, s>>])

VARIABLES device,                   \* mDevice
          allX10DevicesInWantedState,
          queue,                    \* messages planned and not yet heard back
          disturbances              \* disturbances so far

vars == <<device, allX10DevicesInWantedState, queue, disturbances>>

TypeOK ==
    /\ device \in [Units -> Devices]
    /\ \A u \in Units : device[u].wanted \in IF IsReal(u) THEN WishesOf(Kind[u]) ELSE {Unknown}
    /\ allX10DevicesInWantedState \in BOOLEAN
    /\ queue \in Seq(Messages)
    /\ disturbances \in 0..MaxDisturbances

Init ==
    /\ device = [u \in Units |-> NewDevice(Kind[u])]
    /\ allX10DevicesInWantedState = FALSE
    /\ queue = <<>>
    /\ disturbances = 0

Disturb ==
    /\ disturbances < MaxDisturbances
    /\ disturbances' = disturbances + 1
-----------------------------------------------------------------------------
(* Firing rule actions one after the other: the last to set a device        *)
(* prevails.  A device told to be what it does not show clears              *)
(* allX10DevicesInWantedState (mSetWantedState).                           *)
Fire(D, actions) ==
    [u \in Units |->
        LET setting == {i \in DOMAIN actions : u \in DOMAIN actions[i]}
        IN  IF setting = {} THEN D[u]
            ELSE [D[u] EXCEPT !.wanted = actions[Max(setting)][u]]]

Unsettles(D, actions) ==
    \E i \in DOMAIN actions : \E u \in DOMAIN actions[i] :
        D[u].state # actions[i][u]

\* mAutomaticHouseCodeAction: mAllOffAction or mSomeOneHomeAction.
HouseActions(f) == <<HouseAction[IF f = "AllUnitsOff" THEN "off" ELSE "on"]>>

\* FireDelayedActions of the 16 devices, in address order.
DelayedActions(D, f) ==
    [i \in 1..NumUnits |->
        LET action == DelayedAction(Kind[i - 1], D[i - 1], f)
        IN  IF action = "none" THEN <<>> ELSE DeviceAction[<<i - 1, action>>]]
-----------------------------------------------------------------------------
(* The rules thread.                                                        *)

\* Variant: an empty plan is not taken for an end.
UpdateDevicesForever ==
    /\ ~allX10DevicesInWantedState
    /\ queue = <<>>
    /\ queue' = Plan(device)
    /\ allX10DevicesInWantedState' = FALSE
    /\ UNCHANGED <<device, disturbances>>

\* maintainQueues: plan when there is work and nothing left to send.
UpdateDevices ==
    /\ ~allX10DevicesInWantedState
    /\ queue = <<>>
    /\ queue' = Plan(device)
    /\ allX10DevicesInWantedState' = (Plan(device) = <<>>)
    /\ UNCHANGED <<device, disturbances>>

\* The house's own next message comes back from the mains (bExternal false).
Echo ==
    /\ queue # <<>>
    /\ device' = Hear(device, Head(queue), FALSE)
    /\ queue' = Tail(queue)
    /\ UNCHANGED <<allX10DevicesInWantedState, disturbances>>

\* mSetWantedState that takes effect, from a rule or a device timeout.
SetWantedState(u, w) ==
    /\ IsReal(u) /\ w \in WishesOf(Kind[u])
    /\ Disturb
    /\ device' = [device EXCEPT ![u].wanted = w]
    /\ allX10DevicesInWantedState' = (allX10DevicesInWantedState /\ device[u].state = w)
    /\ UNCHANGED queue

\* Variant: a refresh does not wake the planner.
RefreshDevicesQuietly ==
    /\ Disturb
    /\ device' = [u \in Units |-> Refresh(Kind[u], device[u])]
    /\ UNCHANGED <<allX10DevicesInWantedState, queue>>

RefreshDevices ==
    /\ Disturb
    /\ device' = [u \in Units |-> Refresh(Kind[u], device[u])]
    /\ allX10DevicesInWantedState' =
           (allX10DevicesInWantedState /\ \A u \in Units : ~IsReal(u))
    /\ UNCHANGED queue

(* People at the controllers (bExternal true).                              *)

ExternalAddress(u) ==
    /\ Disturb
    /\ device' = Hear(device, Address(u), TRUE)
    /\ UNCHANGED <<allX10DevicesInWantedState, queue>>

ExternalFunction(f) ==
    LET before  == Fire(device, HouseActions(f))
        heard   == Hear(before, Command(f), TRUE)
        delayed == DelayedActions(before, f)
    IN  /\ Disturb
        /\ device' = Fire(heard, delayed)
        /\ allX10DevicesInWantedState' =
               /\ allX10DevicesInWantedState
               /\ ~Unsettles(device, HouseActions(f))
               /\ ~ApplianceLampsWanted(before, Command(f))
               /\ ~Unsettles(heard, delayed)
        /\ UNCHANGED queue

\* The flush gave up: tw523ThreadStart clears what is left of the queue.
FlushFails ==
    /\ queue # <<>>
    /\ Disturb
    /\ queue' = <<>>
    /\ UNCHANGED <<device, allX10DevicesInWantedState>>
-----------------------------------------------------------------------------
Next ==
    \/ UpdateDevices
    \/ Echo
    \/ \E u \in Units, w \in Wishes : SetWantedState(u, w)
    \/ RefreshDevices
    \/ \E u \in Units : ExternalAddress(u)
    \/ \E f \in Functions : ExternalFunction(f)
    \/ FlushFails

\* The rules thread runs maintainQueues for ever and the TW523 thread empties
\* its queue; nothing makes people, rules or the mains disturb the house.
Spec == Init /\ [][Next]_vars /\ WF_vars(UpdateDevices) /\ WF_vars(Echo)
-----------------------------------------------------------------------------
(* Once the rules thread has stopped looking (allX10DevicesInWantedState),  *)
(* every device shows what is wanted, but for the two kinds of lamp above.  *)
(* It relies on every path that changes a device or a wish to clear the     *)
(* flag (device.cpp) and on the planner to miss no device (housecode.cpp). *)
FlagMeansSettled ==
    allX10DevicesInWantedState =>
        \A u \in Units : NothingToSend(device, u)

(* The plan a state would make, carried out undisturbed, moves no device    *)
(* that already shows what is wanted; a device somebody else has just       *)
(* addressed hears the function too and is not counted (the alternatives    *)
(* mUpdateDevices tries, housecode.cpp).                                   *)
PlanSparesTheSettled ==
    LET after == HearAll(device, Plan(device))
    IN  \A u \in Units :
            Settled(device, u) /\ device[u].selected # "on" => Settled(after, u)

\* How far a device is from what is wanted.
Distance(D, u) ==
    LET levels == D[u].state - D[u].wanted
    IN  IF ~IsReal(u) THEN 0
        ELSE IF D[u].state \in {Unknown, RefreshWanted} THEN MaxDim + 2
        ELSE IF levels >= 0 THEN levels ELSE -levels

TotalDistance(D) ==
    LET total[n \in 0..NumUnits] == IF n = 0 THEN 0 ELSE total[n - 1] + Distance(D, n - 1)
    IN  total[NumUnits]

(* Every plan makes progress: carried out undisturbed, it brings the house  *)
(* code strictly closer to what is wanted.  This is why planning one        *)
(* message at a time ends (housecode.cpp, mUpdateDevices).                 *)
PlanMakesProgress ==
    (Plan(device) # <<>> /\ \A u \in Units : device[u].selected # "on")
        => TotalDistance(HearAll(device, Plan(device))) < TotalDistance(device)

(* Left alone, the house settles: the planner stops for good with nothing   *)
(* left to send, whatever the disturbances left behind (runtime.cpp,        *)
(* maintainQueues).                                                        *)
EventuallyAtRest == <>[](allX10DevicesInWantedState /\ queue = <<>>)
=============================================================================
