--------------------------- MODULE HouseCodeProofs ---------------------------
(***************************************************************************)
(* For every house code, whatever its devices and whatever its rules set:   *)
(* when the planner stops looking, every device is left as it is wanted.    *)
(***************************************************************************)
EXTENDS HouseCode, PlannerProofs

USE PlannerAssumption, HouseCodeAssumption
    DEF PlannerAssumption, HouseCodeAssumption

LEMMA MaximumExists ==
    ASSUME NEW S, IsFiniteSet(S), \A x \in S : x \in Int, S # {}
    PROVE  Max(S) \in S /\ \A y \in S : y <= Max(S)
  <1> DEFINE T == {-x : x \in S}
  <1>1. IsFiniteSet(T)
    <2> DEFINE f == [x \in S |-> -x]
    <2>1. f \in Surjection(S, T)
      BY DEF Surjection
    <2> QED
      BY <2>1, FS_Surjection DEF ExistsSurjection
  <1>2. T # {} /\ \A x \in T : x \in Int
    OBVIOUS
  <1>3. Min(T) \in T /\ \A y \in T : Min(T) <= y
    BY <1>1, <1>2, MinimumExists
  <1>4. PICK x \in S : Min(T) = -x
    BY <1>3
  <1>5. \A y \in S : x >= y
    <2>1. SUFFICES ASSUME NEW y \in S PROVE x >= y
      OBVIOUS
    <2>2. -y \in T /\ x \in Int /\ y \in Int
      OBVIOUS
    <2>3. Min(T) <= -y
      BY <1>3, <2>2
    <2> QED
      BY <1>4, <2>2, <2>3
  <1>6. \E z \in S : \A y \in S : z >= y
    BY <1>5
  <1>7. Max(S) \in S /\ \A y \in S : Max(S) >= y
    BY <1>6 DEF Max
  <1> QED
    BY <1>7

(* A device has the wish of its class, or none.                             *)
WantedOK(D) == \A u \in Units : D[u].wanted \in IF IsReal(u) THEN WishesOf(Kind[u]) ELSE {Unknown}

LEMMA HearOK ==
    ASSUME NEW D \in [Units -> Devices], WantedOK(D),
           NEW m \in Messages, NEW external \in BOOLEAN
    PROVE  Hear(D, m, external) \in [Units -> Devices] /\ WantedOK(Hear(D, m, external))
  <1>1. WishesOK(D)
    BY DEF WantedOK, WishesOK
  <1>2. /\ Hear(D, m, external) \in [Units -> Devices]
        /\ WishesOK(Hear(D, m, external))
    BY <1>1, HearType
  <1>3. \A u \in Units : ~IsReal(u) => Hear(D, m, external)[u].wanted = Unknown
    BY HearKeepsOthersUnwanted DEF WantedOK
  <1> QED
    BY <1>2, <1>3 DEF WantedOK, WishesOK

-----------------------------------------------------------------------------
(* Firing rule actions.                                                     *)

\* A finite list of rule actions.
RuleActions(actions) == /\ IsFiniteSet(DOMAIN actions)
                        /\ \A i \in DOMAIN actions : i \in Int /\ RuleAction(actions[i])

\* What firing does to one device.
LEMMA FireOne ==
    ASSUME NEW D, NEW actions, RuleActions(actions), NEW u \in Units
    PROVE  \/ Fire(D, actions)[u] = D[u]
           \/ \E i \in DOMAIN actions : /\ u \in DOMAIN actions[i]
                              /\ Fire(D, actions)[u] = [D[u] EXCEPT !.wanted = actions[i][u]]
  <1> DEFINE setting == {i \in DOMAIN actions : u \in DOMAIN actions[i]}
  <1>1. CASE setting = {}
    BY <1>1 DEF Fire
  <1>2. CASE setting # {}
    <2>1. IsFiniteSet(setting) /\ \A i \in setting : i \in Int
      BY FS_Subset DEF RuleActions
    <2>2. Max(setting) \in setting
      BY <1>2, <2>1, MaximumExists
    <2>3. Fire(D, actions)[u] = [D[u] EXCEPT !.wanted = actions[Max(setting)][u]]
      BY <1>2 DEF Fire
    <2> QED
      BY <2>2, <2>3
  <1> QED
    BY <1>1, <1>2

LEMMA FireOK ==
    ASSUME NEW D \in [Units -> Devices], WantedOK(D),
           NEW actions, RuleActions(actions)
    PROVE  Fire(D, actions) \in [Units -> Devices] /\ WantedOK(Fire(D, actions))
  <1>1. ASSUME NEW u \in Units
        PROVE  /\ Fire(D, actions)[u] \in Devices
               /\ Fire(D, actions)[u].wanted \in IF IsReal(u) THEN WishesOf(Kind[u]) ELSE {Unknown}
    <2>1. CASE Fire(D, actions)[u] = D[u]
      BY <2>1 DEF WantedOK
    <2>2. ASSUME NEW i \in DOMAIN actions, u \in DOMAIN actions[i],
                 Fire(D, actions)[u] = [D[u] EXCEPT !.wanted = actions[i][u]]
          PROVE  /\ Fire(D, actions)[u] \in Devices
                 /\ Fire(D, actions)[u].wanted
                        \in IF IsReal(u) THEN WishesOf(Kind[u]) ELSE {Unknown}
      <3>1. IsReal(u) /\ actions[i][u] \in WishesOf(Kind[u])
        BY <2>2 DEF RuleActions, RuleAction
      <3>2. actions[i][u] \in States
        BY <3>1, KindType, WishesAreStates
      <3> QED
        BY <2>2, <3>1, <3>2 DEF Devices
    <2>3. \/ Fire(D, actions)[u] = D[u]
          \/ \E i \in DOMAIN actions : /\ u \in DOMAIN actions[i]
                             /\ Fire(D, actions)[u] = [D[u] EXCEPT !.wanted = actions[i][u]]
      BY FireOne
    <2> QED
      BY <2>1, <2>2, <2>3
  <1>2. Fire(D, actions) = [u \in Units |-> Fire(D, actions)[u]]
    BY DEF Fire
  <1> QED
    BY <1>1, <1>2 DEF WantedOK

\* Rules that tell the devices what they show already leave nothing to send.
LEMMA FireKeepsNothingToSend ==
    ASSUME NEW D \in [Units -> Devices],
           NEW actions, RuleActions(actions),
           ~Unsettles(D, actions), \A u \in Units : NothingToSend(D, u)
    PROVE  \A u \in Units : NothingToSend(Fire(D, actions), u)
  <1>1. SUFFICES ASSUME NEW u \in Units PROVE NothingToSend(Fire(D, actions), u)
    OBVIOUS
  <1>2. CASE Fire(D, actions)[u] = D[u]
    BY <1>2 DEF NothingToSend, Settled, AssumedOk, OutOfReach
  <1>3. ASSUME NEW i \in DOMAIN actions, u \in DOMAIN actions[i],
               Fire(D, actions)[u] = [D[u] EXCEPT !.wanted = actions[i][u]]
        PROVE  NothingToSend(Fire(D, actions), u)
    <2>1. D[u].state = actions[i][u]
      BY <1>3 DEF Unsettles
    <2> QED
      BY <1>3, <2>1 DEF NothingToSend, Settled, Devices
  <1>4. \/ Fire(D, actions)[u] = D[u]
        \/ \E i \in DOMAIN actions : /\ u \in DOMAIN actions[i]
                           /\ Fire(D, actions)[u] = [D[u] EXCEPT !.wanted = actions[i][u]]
    BY FireOne
  <1> QED
    BY <1>2, <1>3, <1>4

LEMMA HouseActionsType ==
    ASSUME NEW f \in Functions
    PROVE  RuleActions(HouseActions(f))
  <1>1. DOMAIN HouseActions(f) = {1}
    BY DEF HouseActions
  <1>2. IsFiniteSet({1})
    BY FS_Singleton
  <1> QED
    BY <1>1, <1>2 DEF HouseActions, RuleActions

LEMMA DelayedActionsType ==
    ASSUME NEW D, NEW f \in Functions
    PROVE  RuleActions(DelayedActions(D, f))
  <1>1. DOMAIN DelayedActions(D, f) = 1..NumUnits /\ IsFiniteSet(1..NumUnits)
    BY FS_Interval DEF DelayedActions
  <1>2. ASSUME NEW i \in 1..NumUnits PROVE RuleAction(DelayedActions(D, f)[i])
    <2> DEFINE action == DelayedAction(Kind[i - 1], D[i - 1], f)
    <2>1. i - 1 \in Units
      BY DEF Units
    <2>2. action \in {"none", "off", "on"}
      BY DEF DelayedAction
    <2>3. CASE action = "none"
      BY <2>3 DEF DelayedActions, RuleAction
    <2>4. CASE action \in {"off", "on"}
      <3>1. DelayedActions(D, f)[i] = DeviceAction[<<i - 1, action>>]
        BY <2>4 DEF DelayedActions
      <3>2. RuleAction(DeviceAction[<<i - 1, action>>])
        BY <2>1, <2>4
      <3> QED
        BY <3>1, <3>2
    <2> QED
      BY <2>2, <2>3, <2>4
  <1> QED
    BY <1>1, <1>2 DEF RuleActions

-----------------------------------------------------------------------------
(* The planner sleeps with nothing under way and nothing to send.           *)
RestInv == allX10DevicesInWantedState =>
               queue = <<>> /\ \A u \in Units : NothingToSend(device, u)

Inv == TypeOK /\ RestInv

LEMMA MessagesType ==
    /\ \A u \in Units : Address(u) \in Messages
    /\ \A f \in Functions : Command(f) \in Messages
  BY DEF Messages, Address, Command

LEMMA InitInv == Init => Inv
  <1> SUFFICES ASSUME Init PROVE Inv
    OBVIOUS
  <1>1. ASSUME NEW k \in Kinds
        PROVE  /\ NewDevice(k) \in Devices
               /\ NewDevice(k).wanted \in IF k \in Real THEN WishesOf(k) ELSE {Unknown}
    BY DeviceConstants DEF NewDevice, Devices, Selected, WishesOf
  <1>2. device \in [Units -> Devices]
    BY <1>1, KindType DEF Init
  <1>3. \A u \in Units : device[u].wanted \in IF IsReal(u) THEN WishesOf(Kind[u]) ELSE {Unknown}
    BY <1>1, KindType DEF Init, IsReal
  <1>4. /\ queue \in Seq(Messages) /\ allX10DevicesInWantedState = FALSE
        /\ disturbances \in 0..MaxDisturbances
    BY DEF Init
  <1> QED
    BY <1>2, <1>3, <1>4 DEF Inv, TypeOK, RestInv

LEMMA StepInv == Inv /\ [Next]_vars => Inv'
  <1> SUFFICES ASSUME Inv, [Next]_vars PROVE Inv'
    OBVIOUS
  <1>0. /\ device \in [Units -> Devices] /\ WantedOK(device)
        /\ allX10DevicesInWantedState \in BOOLEAN
        /\ queue \in Seq(Messages) /\ disturbances \in 0..MaxDisturbances
    BY DEF Inv, TypeOK, WantedOK
  <1>a. ASSUME device' \in [Units -> Devices], WantedOK(device'),
               allX10DevicesInWantedState' \in BOOLEAN, queue' \in Seq(Messages),
               disturbances' \in 0..MaxDisturbances, RestInv'
        PROVE  Inv'
    BY <1>a DEF Inv, TypeOK, WantedOK
  <1>b. ASSUME allX10DevicesInWantedState' =>
                   queue' = <<>> /\ \A u \in Units : NothingToSend(device', u)
        PROVE  RestInv'
    BY <1>b DEF RestInv, NothingToSend, Settled, AssumedOk, OutOfReach
  <1>c. Disturb => disturbances' \in 0..MaxDisturbances
    BY <1>0 DEF Disturb
  <1>1. CASE UpdateDevices
    <2>1. allX10DevicesInWantedState' \in BOOLEAN
      BY <1>1, Zenon DEF UpdateDevices
    <2>2. queue' \in Seq(Messages)
      BY <1>0, <1>1, PlanIsPlan DEF UpdateDevices, IsPlan
    <2>3. Plan(device) = <<>> => \A u \in Units : NothingToSend(device, u)
      BY <1>0, EmptyPlanMissesNobody DEF WantedOK
    <2>4. RestInv'
      BY <1>1, <1>b, <2>3 DEF UpdateDevices
    <2> QED
      BY <1>0, <1>1, <1>a, <2>1, <2>2, <2>4 DEF UpdateDevices
  <1>2. CASE Echo
    <2>1. Head(queue) \in Messages /\ queue' \in Seq(Messages)
      BY <1>0, <1>2 DEF Echo
    <2>2. device' \in [Units -> Devices] /\ WantedOK(device')
      BY <1>0, <1>2, <2>1, HearOK DEF Echo
    <2>3. ~allX10DevicesInWantedState'
      BY <1>2 DEF Echo, Inv, RestInv
    <2>4. RestInv'
      BY <2>3 DEF RestInv
    <2> QED
      BY <1>0, <1>2, <1>a, <2>1, <2>2, <2>4 DEF Echo
  <1>3. ASSUME NEW v \in Units, NEW w \in Wishes, SetWantedState(v, w) PROVE Inv'
    <2>1. IsReal(v) /\ w \in WishesOf(Kind[v]) /\ w \in States
      BY <1>3, KindType, WishesAreStates DEF SetWantedState
    <2>2. device' = [device EXCEPT ![v].wanted = w]
      BY <1>3 DEF SetWantedState
    <2>3. device' \in [Units -> Devices] /\ WantedOK(device')
      BY <1>0, <2>1, <2>2 DEF Devices, WantedOK
    <2>4. allX10DevicesInWantedState' \in BOOLEAN
      BY <1>3, Zenon DEF SetWantedState
    <2>5. ASSUME allX10DevicesInWantedState', NEW u \in Units PROVE NothingToSend(device', u)
      <3>1. device[v].state = w /\ NothingToSend(device, u)
        BY <1>3, <2>5 DEF SetWantedState, Inv, RestInv
      <3>2. CASE u = v
        BY <1>0, <2>2, <3>1, <3>2 DEF NothingToSend, Settled, Devices
      <3>3. CASE u # v
        BY <1>0, <2>2, <3>1, <3>3 DEF NothingToSend, Settled, AssumedOk, OutOfReach
      <3> QED
        BY <3>2, <3>3
    <2>6. RestInv'
      BY <1>3, <1>b, <2>5 DEF SetWantedState, Inv, RestInv
    <2> QED
      BY <1>0, <1>3, <1>a, <1>c, <2>3, <2>4, <2>6 DEF SetWantedState
  <1>4. CASE RefreshDevices
    <2>1. ASSUME NEW k \in Kinds, NEW e \in Devices
          PROVE  Refresh(k, e) \in Devices /\ Refresh(k, e).wanted = e.wanted
      BY DeviceConstants DEF Refresh, Devices
    <2>2. device' = [u \in Units |-> Refresh(Kind[u], device[u])]
      BY <1>4 DEF RefreshDevices
    <2>3. device' \in [Units -> Devices] /\ WantedOK(device')
      BY <1>0, <2>1, <2>2, KindType DEF WantedOK
    <2>4. allX10DevicesInWantedState' \in BOOLEAN
      BY <1>4, Zenon DEF RefreshDevices
    <2>5. RestInv'
      BY <1>4, <1>b DEF RefreshDevices, Inv, RestInv, NothingToSend, Settled
    <2> QED
      BY <1>0, <1>4, <1>a, <1>c, <2>3, <2>4, <2>5 DEF RefreshDevices
  <1>5. ASSUME NEW v \in Units, ExternalAddress(v) PROVE Inv'
    <2>1. device' = Hear(device, Address(v), TRUE) /\ Address(v) \in Messages
      BY <1>5, MessagesType DEF ExternalAddress
    <2>2. device' \in [Units -> Devices] /\ WantedOK(device')
      BY <1>0, <2>1, HearOK
    <2>3. ~ApplianceLampsWanted(device, Address(v))
      BY DEF ApplianceLampsWanted, Address, Command
    <2>4. RestInv'
      BY <1>0, <1>5, <1>b, <2>1, <2>3, PeopleLeaveNothingToSend DEF ExternalAddress, Inv, RestInv
    <2> QED
      BY <1>0, <1>5, <1>a, <1>c, <2>2, <2>4 DEF ExternalAddress
  <1>6. ASSUME NEW f \in Functions, ExternalFunction(f) PROVE Inv'
    <2> DEFINE before  == Fire(device, HouseActions(f))
               heard   == Hear(before, Command(f), TRUE)
               delayed == DelayedActions(before, f)
    <2>1. /\ Disturb /\ UNCHANGED queue
          /\ device' = Fire(heard, delayed)
          /\ allX10DevicesInWantedState' =
                 /\ allX10DevicesInWantedState
                 /\ ~Unsettles(device, HouseActions(f))
                 /\ ~ApplianceLampsWanted(before, Command(f))
                 /\ ~Unsettles(heard, delayed)
      BY <1>6 DEF ExternalFunction
    <2>2. before \in [Units -> Devices] /\ WantedOK(before)
      BY <1>0, HouseActionsType, FireOK
    <2>3. Command(f) \in Messages
      BY MessagesType
    <2>4. heard \in [Units -> Devices] /\ WantedOK(heard)
      BY <2>2, <2>3, HearOK
    <2>5. RuleActions(delayed)
      BY DelayedActionsType
    <2>6. device' \in [Units -> Devices] /\ WantedOK(device')
      BY <2>1, <2>4, <2>5, FireOK
    <2>7. allX10DevicesInWantedState' \in BOOLEAN
      BY <2>1, Zenon
    <2>8. ASSUME allX10DevicesInWantedState'
          PROVE  \A u \in Units : NothingToSend(device', u)
      <3>1. /\ \A u \in Units : NothingToSend(device, u)
            /\ ~Unsettles(device, HouseActions(f))
            /\ ~ApplianceLampsWanted(before, Command(f))
            /\ ~Unsettles(heard, delayed)
        BY <2>1, <2>8 DEF Inv, RestInv
      <3>2. \A u \in Units : NothingToSend(before, u)
        BY <1>0, <3>1, HouseActionsType, FireKeepsNothingToSend
      <3>3. \A u \in Units : NothingToSend(heard, u)
        BY <2>2, <2>3, <3>1, <3>2, PeopleLeaveNothingToSend
      <3> QED
        BY <2>1, <2>4, <2>5, <3>1, <3>3, FireKeepsNothingToSend
    <2> HIDE DEF before, heard, delayed
    <2>9. RestInv'
      BY <1>b, <2>1, <2>8 DEF Inv, RestInv
    <2> QED
      BY <1>0, <1>a, <1>c, <2>1, <2>6, <2>7, <2>9
  <1>7. CASE FlushFails
    <2>1. RestInv'
      BY <1>7 DEF FlushFails, Inv, RestInv
    <2> QED
      BY <1>0, <1>7, <1>a, <1>c, <2>1 DEF FlushFails
  <1>8. CASE UNCHANGED vars
    BY <1>8 DEF vars, Inv, TypeOK, RestInv, NothingToSend, Settled, AssumedOk, OutOfReach
  <1> QED
    BY <1>1, <1>2, <1>3, <1>4, <1>5, <1>6, <1>7, <1>8 DEF Next

LEMMA Invariance == Spec => []Inv
  BY InitInv, StepInv, PTL DEF Spec

(* Every device keeps a wish its class can carry out, whatever people and    *)
(* rules do, and a device without wishes never gets one.                    *)
THEOREM TypeCorrect == Spec => []TypeOK
  <1>1. Inv => TypeOK
    BY DEF Inv
  <1> QED
    BY <1>1, Invariance, PTL

(* When the planner has stopped looking there is nothing left to send,       *)
(* whatever devices, rules and people have done (housecode.cpp, device.cpp). *)
THEOREM FlagMeansSettledHolds == Spec => []FlagMeansSettled
  <1>1. Inv => FlagMeansSettled
    BY DEF Inv, RestInv, FlagMeansSettled
  <1> QED
    BY <1>1, Invariance, PTL

-----------------------------------------------------------------------------
(* Plans bring the house code nearer to what is wanted.                     *)

LEMMA DistanceType ==
    ASSUME NEW D \in [Units -> Devices], WantedOK(D), NEW u \in Units
    PROVE  /\ Distance(D, u) \in Nat
           /\ Settled(D, u) <=> Distance(D, u) = 0
           /\ IsReal(u) => /\ D[u].wanted \in 0..(MaxDim + 1)
                           /\ D[u].state \in 0..(MaxDim + 3)
                           /\ ~IsLamp(u) => D[u].wanted \in {Off, On}
  <1>1. CASE ~IsReal(u)
    BY <1>1 DEF Distance, Settled
  <1>2. CASE IsReal(u)
    <2>1. D[u].wanted \in WishesOf(Kind[u]) /\ D[u].state \in States
      BY <1>2 DEF WantedOK, Devices
    <2>2. /\ D[u].wanted \in 0..(MaxDim + 1) /\ D[u].state \in 0..(MaxDim + 3)
          /\ ~IsLamp(u) => D[u].wanted \in {Off, On}
      BY <2>1, DeviceConstants DEF WishesOf, IsLamp
    <2> QED
      BY <1>2, <2>2, DeviceConstants DEF Distance, Settled
  <1> QED
    BY <1>1, <1>2

(* The distance of a sum of steps.                                          *)
LEMMA TotalDistanceSums ==
    ASSUME NEW D \in [Units -> Devices], WantedOK(D)
    PROVE  \E t \in [0..NumUnits -> Int] :
               /\ t[0] = 0 /\ \A i \in 1..NumUnits : t[i] = t[i - 1] + Distance(D, i - 1)
               /\ TotalDistance(D) = t[NumUnits]
  <1> DEFINE n == NumUnits
             G == [i \in 1..n |-> [x \in Int |-> x + Distance(D, i - 1)]]
             total == CHOOSE f : f = [i \in 0..n |-> IF i = 0 THEN 0
                                                     ELSE f[i - 1] + Distance(D, i - 1)]
  <1>1. n \in Nat /\ \A i \in 1..n : i - 1 \in Units
    BY DEF Units
  <1>2. TotalDistance(D) = total[n]
    BY DEF TotalDistance
  <1>3. \A i \in 1..n : Distance(D, i - 1) \in Int
    BY <1>1, DistanceType
  <1> HIDE DEF n
  <1>4. G \in [1..n -> [Int -> Int]]
    BY <1>3
  <1>5. \A i \in 1..n, x \in Int : G[i][x] = x + Distance(D, i - 1)
    OBVIOUS
  <1>6. \A i \in 1..n : i # 0 /\ i \in 0..n /\ i - 1 \in 0..n
    BY <1>1
  <1> HIDE DEF G
  <1>7. PICK h : Iterates(h, n, Int, 0, G)
    <2>1. n \in Nat /\ 0 \in Int
      BY <1>1
    <2> QED
      BY <1>4, <2>1, RecursionUpTo
  <1>8. h \in [0..n -> Int] /\ h[0] = 0 /\ \A i \in 1..n : h[i] = h[i - 1] + Distance(D, i - 1)
    BY <1>5, <1>6, <1>7 DEF Iterates
  <1>9. h = [i \in 0..n |-> IF i = 0 THEN 0 ELSE h[i - 1] + Distance(D, i - 1)]
    <2>1. \A i \in 0..n : i # 0 => i \in 1..n
      BY <1>1
    <2> QED
      BY <1>8, <2>1
  <1>10. total = [i \in 0..n |-> IF i = 0 THEN 0 ELSE total[i - 1] + Distance(D, i - 1)]
    BY <1>9
  <1> HIDE DEF total
  <1>11. total[0] = 0 /\ \A i \in 1..n : total[i] = total[i - 1] + Distance(D, i - 1)
    <2>1. 0 \in 0..n
      BY <1>1
    <2> QED
      BY <1>6, <1>10, <2>1
  <1> DEFINE T == {i \in 0..n : total[i] \in Int}
  <1>12. 0 \in T
    BY <1>1, <1>11
  <1>13. ASSUME NEW i \in 0..(n - 1), i \in T PROVE i + 1 \in T
    <2>1. i + 1 \in 1..n /\ i + 1 \in 0..n /\ (i + 1) - 1 = i
      BY <1>1
    <2>2. total[i + 1] = total[i] + Distance(D, i) /\ Distance(D, i) \in Int
      BY <1>3, <1>11, <2>1
    <2> QED
      BY <1>13, <2>1, <2>2
  <1>14. \A i \in 0..n : i \in T
    <2> HIDE DEF T
    <2> QED
      BY <1>1, <1>12, <1>13, InductionUpTo
  <1>15. total \in [0..n -> Int]
    BY <1>10, <1>14
  <1> QED
    BY <1>2, <1>11, <1>15 DEF n

(* When no device gets further away and one gets nearer, the house does.     *)
LEMMA TotalDistanceShrinks ==
    ASSUME NEW D \in [Units -> Devices], WantedOK(D),
           NEW E \in [Units -> Devices], WantedOK(E),
           \A u \in Units : Distance(E, u) <= Distance(D, u),
           NEW v \in Units, Distance(E, v) < Distance(D, v)
    PROVE  TotalDistance(E) < TotalDistance(D)
  <1>1. PICK s \in [0..NumUnits -> Int] :
               /\ s[0] = 0 /\ \A i \in 1..NumUnits : s[i] = s[i - 1] + Distance(D, i - 1)
               /\ TotalDistance(D) = s[NumUnits]
    BY TotalDistanceSums
  <1>2. PICK t \in [0..NumUnits -> Int] :
               /\ t[0] = 0 /\ \A i \in 1..NumUnits : t[i] = t[i - 1] + Distance(E, i - 1)
               /\ TotalDistance(E) = t[NumUnits]
    BY TotalDistanceSums
  <1> DEFINE n == NumUnits
             T == {i \in 0..n : t[i] <= s[i] /\ (v < i => t[i] < s[i])}
  <1>3. n \in Nat /\ v \in 0..(n - 1) /\ \A i \in 0..(n - 1) : i \in Units
    BY DEF Units
  <1>4. 0 \in T
    <2>1. 0 \in 0..n /\ ~(v < 0)
      BY <1>3
    <2> QED
      BY <1>1, <1>2, <2>1
  <1>5. ASSUME NEW i \in 0..(n - 1), i \in T PROVE i + 1 \in T
    <2>1. /\ i + 1 \in 1..n /\ i + 1 \in 0..n /\ i \in 0..n /\ (i + 1) - 1 = i
          /\ v < i + 1 => v < i \/ v = i
      BY <1>3
    <2> DEFINE d == Distance(D, i)
               e == Distance(E, i)
    <2>2. s[i + 1] = s[i] + d /\ t[i + 1] = t[i] + e
      BY <1>1, <1>2, <2>1
    <2>3. d \in Int /\ e \in Int /\ e <= d /\ (v = i => e < d)
      <3>1. i \in Units
        BY <1>3
      <3>2. Distance(D, i) \in Nat /\ Distance(E, i) \in Nat
        BY <3>1, DistanceType
      <3> QED
        BY <3>1, <3>2
    <2>4. s[i] \in Int /\ t[i] \in Int /\ t[i] <= s[i] /\ (v < i => t[i] < s[i])
      BY <1>5, <2>1
    <2> HIDE DEF d, e
    <2>5. t[i + 1] <= s[i + 1] /\ (v < i + 1 => t[i + 1] < s[i + 1])
      BY <2>1, <2>2, <2>3, <2>4
    <2> QED
      BY <2>1, <2>5
  <1>6. \A i \in 0..n : i \in T
    <2> HIDE DEF T
    <2> QED
      BY <1>3, <1>4, <1>5, InductionUpTo
  <1>7. n \in T /\ v < n
    BY <1>3, <1>6
  <1> QED
    BY <1>1, <1>2, <1>7

(* The plan p, carried out undisturbed, takes no real unit further from what *)
(* is wanted of it, and one of them nearer; units that somebody else has     *)
(* just addressed are not counted.                                         *)
Helps(D, p) ==
    LET E == HearAll(D, p)
    IN  /\ \A u \in Units : IsReal(u) /\ D[u].selected # "on" => Distance(E, u) <= Distance(D, u)
        /\ \E u \in Units : IsReal(u) /\ (D[u].selected # "on" => Distance(E, u) < Distance(D, u))

\* What a unit's distance is made of.
LEMMA DistanceOf ==
    ASSUME NEW D \in [Units -> Devices], WantedOK(D), NEW E \in [Units -> Devices],
           NEW u \in Units, IsReal(u), E[u].wanted = D[u].wanted
    PROVE  /\ D[u].wanted \in 0..(MaxDim + 1) /\ D[u].state \in 0..(MaxDim + 3)
           /\ D[u].state \in {Unknown, RefreshWanted} => Distance(D, u) = MaxDim + 2
           /\ D[u].state \in 0..(MaxDim + 1) /\ D[u].state <= D[u].wanted
                  => Distance(D, u) = D[u].wanted - D[u].state
           /\ D[u].state \in 0..(MaxDim + 1) /\ D[u].state >= D[u].wanted
                  => Distance(D, u) = D[u].state - D[u].wanted
           /\ E[u].state \in 0..(MaxDim + 1) /\ E[u].state <= D[u].wanted
                  => Distance(E, u) = D[u].wanted - E[u].state
           /\ E[u].state \in 0..(MaxDim + 1) /\ E[u].state >= D[u].wanted
                  => Distance(E, u) = E[u].state - D[u].wanted
           /\ E[u].state = D[u].state => Distance(E, u) = Distance(D, u)
  <1>1. D[u].wanted \in 0..(MaxDim + 1) /\ D[u].state \in 0..(MaxDim + 3)
    BY DistanceType
  <1>2. \A s \in 0..(MaxDim + 1) : s \in Int /\ s \notin {Unknown, RefreshWanted}
    BY DeviceConstants
  <1>3. E[u].state = D[u].state => Distance(E, u) = Distance(D, u)
    BY DEF Distance
  <1> QED
    BY <1>1, <1>2, <1>3 DEF Distance

LEMMA OrderHelps ==
    ASSUME NEW D \in [Units -> Devices], NEW S, NEW f, NEW n, CanOrder(S, f, n),
           NEW V \in SUBSET Units, V # {}, \A v \in V : IsReal(v),
           \A E \in [Units -> Devices], u \in Units :
               IsReal(u) /\ Obeys(S, f, n, u, D[u], E[u])
                   => /\ Distance(E, u) <= Distance(D, u)
                      /\ u \in V => Distance(E, u) < Distance(D, u)
    PROVE  Helps(D, Order(S, f, n))
  <1> DEFINE E == HearAll(D, Order(S, f, n))
  <1>1. E \in [Units -> Devices]
    BY OrderLeaves
  <1>2. \A u \in Units : IsReal(u) /\ D[u].selected # "on" => Obeys(S, f, n, u, D[u], E[u])
    BY OrderEffect
  <1> HIDE DEF E
  <1>3. \A u \in Units : IsReal(u) /\ D[u].selected # "on"
            => /\ Distance(E, u) <= Distance(D, u)
               /\ u \in V => Distance(E, u) < Distance(D, u)
    BY <1>1, <1>2
  <1>4. PICK v \in V : IsReal(v)
    OBVIOUS
  <1> QED
    BY <1>3, <1>4 DEF Helps, E

LEMMA AllUnitsOffHelps ==
    ASSUME NEW D \in [Units -> Devices], WantedOK(D), UpdateAllUnitsOff(D) # <<>>
    PROVE  Helps(D, UpdateAllUnitsOff(D))
  <1> DEFINE n == AllOffRepeatCount
             V == {u \in Units : StateChangeNeeded(D, u, Off)}
  <1>1. /\ UpdateAllUnitsOff(D) = Order({}, "AllUnitsOff", n) /\ V # {}
        /\ \/ \A u \in Units : StateChangePossible(D, u, Off)
           \/ \A u \in Units : D[u].state = Unknown
    BY DEF UpdateAllUnitsOff
  <1>2. CanOrder({}, "AllUnitsOff", n)
    BY DEF CanOrder, Functions, AllOffRepeatCount
  <1>3. ASSUME NEW E \in [Units -> Devices], NEW u \in Units, IsReal(u),
               Obeys({}, "AllUnitsOff", n, u, D[u], E[u])
        PROVE  /\ Distance(E, u) <= Distance(D, u)
               /\ u \in V => Distance(E, u) < Distance(D, u)
    <2>1. E[u].wanted = D[u].wanted /\ E[u].state = Off
      BY <1>3 DEF Obeys
    <2>2. D[u].wanted = Off \/ D[u].state = Unknown
      BY <1>1, <1>3 DEF StateChangePossible
    <2>3. u \in V => D[u].state # Off /\ D[u].wanted = Off
      BY DEF StateChangeNeeded
    <2> QED
      BY <1>3, <2>1, <2>2, <2>3, DistanceOf, DeviceConstants
  <1>4. V \in SUBSET Units /\ \A v \in V : IsReal(v)
    BY DEF StateChangeNeeded
  <1> HIDE DEF V
  <1> QED
    BY <1>1, <1>2, <1>3, <1>4, OrderHelps

LEMMA BrightUnknownHelps ==
    ASSUME NEW D \in [Units -> Devices], WantedOK(D), UpdateBrightUnknown(D) # <<>>
    PROVE  Helps(D, UpdateBrightUnknown(D))
  <1> DEFINE S == {u \in Units : IsLamp(u) /\ D[u].wanted # Off /\ D[u].state = Unknown}
  <1>1. UpdateBrightUnknown(D) = Order(S, "Bright", MaxDim) /\ S # {}
    BY DEF UpdateBrightUnknown
  <1>2. CanOrder(S, "Bright", MaxDim)
    BY <1>1, DeviceConstants DEF CanOrder, Functions
  <1>3. ASSUME NEW E \in [Units -> Devices], NEW u \in Units, IsReal(u),
               Obeys(S, "Bright", MaxDim, u, D[u], E[u])
        PROVE  /\ Distance(E, u) <= Distance(D, u)
               /\ u \in S => Distance(E, u) < Distance(D, u)
    <2>1. /\ E[u].wanted = D[u].wanted
          /\ u \in S => D[u].wanted # Off /\ D[u].state = Unknown /\ E[u].state = On
          /\ u \notin S => E[u].state = D[u].state
      BY <1>3 DEF Obeys
    <2> HIDE DEF S
    <2>2. Distance(D, u) \in Nat
      BY DistanceType
    <2> QED
      BY <1>3, <2>1, <2>2, DistanceOf, DeviceConstants
  <1>4. S \in SUBSET Units /\ \A v \in S : IsReal(v)
    BY DEF IsLamp, IsReal, Real
  <1> HIDE DEF S
  <1> QED
    BY <1>1, <1>2, <1>3, <1>4, OrderHelps

LEMMA AllLightsOnHelps ==
    ASSUME NEW D \in [Units -> Devices], WantedOK(D), UpdateAllLightsOn(D) # <<>>
    PROVE  Helps(D, UpdateAllLightsOn(D))
  <1> DEFINE V == {u \in Units : LampOnChangeNeeded(D, u)}
  <1>1. /\ UpdateAllLightsOn(D) = Order({}, "AllLightsOn", 1) /\ V # {}
        /\ \A u \in Units : LampOnChangePossible(D, u)
    BY DEF UpdateAllLightsOn
  <1>2. CanOrder({}, "AllLightsOn", 1)
    BY DEF CanOrder, Functions
  <1>3. ASSUME NEW E \in [Units -> Devices], NEW u \in Units, IsReal(u),
               Obeys({}, "AllLightsOn", 1, u, D[u], E[u])
        PROVE  /\ Distance(E, u) <= Distance(D, u)
               /\ u \in V => Distance(E, u) < Distance(D, u)
    <2>1. /\ E[u].wanted = D[u].wanted
          /\ E[u].state = IF IsLamp(u) /\ D[u].state \in {Off, Unknown, RefreshWanted}
                          THEN On ELSE D[u].state
      BY <1>3 DEF Obeys
    <2>2. IsLamp(u) => D[u].wanted \in Lit
      BY <1>1 DEF LampOnChangePossible
    <2>3. u \in V => IsLamp(u) /\ D[u].state \in {Off, Unknown, RefreshWanted}
      BY DEF LampOnChangeNeeded
    <2>4. Distance(D, u) \in Nat
      BY DistanceType
    <2> QED
      BY <1>3, <2>1, <2>2, <2>3, <2>4, DistanceOf, DeviceConstants
  <1>4. V \in SUBSET Units /\ \A v \in V : IsReal(v)
    BY DEF LampOnChangeNeeded, IsLamp, IsReal, Real
  <1> HIDE DEF V
  <1> QED
    BY <1>1, <1>2, <1>3, <1>4, OrderHelps

LEMMA OnOffHelp ==
    ASSUME NEW D \in [Units -> Devices], WantedOK(D), NEW f \in {"On", "Off"},
           NEW S \in SUBSET Units, S # {},
           \A u \in S : IsReal(u) /\ D[u].wanted = Goal(f) /\ D[u].state # Goal(f)
    PROVE  Helps(D, Order(S, f, 1))
  <1>1. CanOrder(S, f, 1)
    BY DEF CanOrder, Functions
  <1>2. Goal(f) \in 0..(MaxDim + 1)
    BY DeviceConstants DEF Goal
  <1>3. ASSUME NEW E \in [Units -> Devices], NEW u \in Units, IsReal(u),
               Obeys(S, f, 1, u, D[u], E[u])
        PROVE  /\ Distance(E, u) <= Distance(D, u)
               /\ u \in S => Distance(E, u) < Distance(D, u)
    <2>1. /\ E[u].wanted = D[u].wanted
          /\ u \in S => E[u].state = Goal(f)
          /\ u \notin S => E[u].state = D[u].state
      BY <1>3 DEF Obeys
    <2>2. Distance(D, u) \in Nat /\ (Distance(D, u) = 0 => Settled(D, u))
      BY DistanceType
    <2>3. CASE u \in S
      <3>1. D[u].wanted = Goal(f) /\ E[u].state = Goal(f) /\ ~Settled(D, u)
        BY <2>1, <2>3 DEF Settled
      <3>2. Goal(f) - Goal(f) = 0 /\ Goal(f) <= Goal(f)
        BY <1>2
      <3>3. Distance(E, u) = 0
        BY <1>2, <1>3, <2>1, <3>1, <3>2, DistanceOf
      <3> QED
        BY <2>2, <3>1, <3>3
    <2>4. CASE u \notin S
      BY <1>3, <2>1, <2>2, <2>4, DistanceOf
    <2> QED
      BY <2>3, <2>4
  <1> QED
    BY <1>1, <1>3, OrderHelps

LEMMA OnAndOffHelp ==
    ASSUME NEW D \in [Units -> Devices], WantedOK(D)
    PROVE  /\ UpdateOn(D) # <<>> => Helps(D, UpdateOn(D))
           /\ UpdateOff(D) # <<>> => Helps(D, UpdateOff(D))
  <1>1. ASSUME UpdateOn(D) # <<>> PROVE Helps(D, UpdateOn(D))
    <2> DEFINE S == {u \in Units : StateChangeNeeded(D, u, On) /\ ~StateDimmed(D, u)}
    <2>1. UpdateOn(D) = Order(S, "On", 1) /\ S # {}
      BY <1>1 DEF UpdateOn
    <2>2. \A u \in S : IsReal(u) /\ D[u].wanted = Goal("On") /\ D[u].state # Goal("On")
      BY DEF StateChangeNeeded, Goal
    <2> QED
      BY <2>1, <2>2, OnOffHelp
  <1>2. ASSUME UpdateOff(D) # <<>> PROVE Helps(D, UpdateOff(D))
    <2> DEFINE S == {u \in Units : IsReal(u) /\ D[u].wanted = Off /\ D[u].state # Off}
    <2>1. UpdateOff(D) = Order(S, "Off", 1) /\ S # {}
      BY <1>2 DEF UpdateOff
    <2>2. \A u \in S : IsReal(u) /\ D[u].wanted = Goal("Off") /\ D[u].state # Goal("Off")
      BY DEF Goal
    <2> QED
      BY <2>1, <2>2, OnOffHelp
  <1> QED
    BY <1>1, <1>2

LEMMA DimAndBrightHelp ==
    ASSUME NEW D \in [Units -> Devices], WantedOK(D), NEW f \in {"Dim", "Bright"},
           NEW levels \in [Units -> Int],
           \A u \in Units : levels[u] = IF f = "Dim" THEN DimLevels(D, u) ELSE -DimLevels(D, u),
           UpdateLevels(f, levels) # <<>>
    PROVE  Helps(D, UpdateLevels(f, levels))
  <1> DEFINE steps == {levels[u] : u \in Units} \cap 1..MaxDim
             n == Min(steps)
             S == {u \in Units : levels[u] >= n}
  <1>1. steps # {} /\ UpdateLevels(f, levels) = Order(S, f, n)
    BY DEF UpdateLevels
  <1>2. n \in steps
    <2>a. 1 \in Int /\ MaxDim \in Int /\ steps \subseteq 1..MaxDim
      BY DeviceConstants
    <2>1. IsFiniteSet(1..MaxDim)
      BY <2>a, FS_Interval
    <2>2. IsFiniteSet(steps) /\ \A x \in steps : x \in Int
      BY <2>a, <2>1, FS_Subset
    <2> HIDE DEF steps
    <2> QED
      BY <1>1, <2>2, MinimumExists
  <1>3. n \in Nat /\ n >= 1 /\ S # {}
    <2>1. n \in 1..MaxDim /\ \E u \in Units : levels[u] = n
      BY <1>2
    <2> HIDE DEF n
    <2>2. n \in Nat /\ n >= 1 /\ n >= n
      BY <2>1, DeviceConstants
    <2> QED
      BY <2>1, <2>2
  <1> HIDE DEF n, steps
  <1>4. CanOrder(S, f, n)
    BY <1>3 DEF CanOrder, Functions
  <1>5. \A u \in S : IsLamp(u) /\ IsReal(u) /\ D[u].state \notin {Unknown, RefreshWanted}
                     /\ levels[u] = IF f = "Dim" THEN D[u].wanted - D[u].state
                                    ELSE D[u].state - D[u].wanted
    <2>1. SUFFICES ASSUME NEW u \in S
                   PROVE  IsLamp(u) /\ IsReal(u) /\ D[u].state \notin {Unknown, RefreshWanted}
                          /\ levels[u] = IF f = "Dim" THEN D[u].wanted - D[u].state
                                         ELSE D[u].state - D[u].wanted
      OBVIOUS
    <2>2. levels[u] >= n /\ u \in Units /\ DimLevels(D, u) \in Int
      BY DimLevelsType
    <2>3. DimLevels(D, u) # 0
      BY <1>3, <2>2
    <2>4. IsLamp(u) /\ D[u].state \notin {Unknown, RefreshWanted}
          /\ DimLevels(D, u) = D[u].wanted - D[u].state
      BY <2>3 DEF DimLevels
    <2>5. IsReal(u)
      BY <2>4 DEF IsLamp, IsReal, Real
    <2>6. D[u].wanted \in Int /\ D[u].state \in Int
      BY <2>2, <2>5, DistanceType, DeviceConstants
    <2> QED
      BY <2>2, <2>4, <2>5, <2>6
  <1>6. ASSUME NEW E \in [Units -> Devices], NEW u \in Units, IsReal(u),
               Obeys(S, f, n, u, D[u], E[u])
        PROVE  /\ Distance(E, u) <= Distance(D, u)
               /\ u \in S => Distance(E, u) < Distance(D, u)
    <2> DEFINE s == D[u].state
               w == D[u].wanted
    <2>1. /\ E[u].wanted = w
          /\ u \notin S => E[u].state = s
          /\ f = "Dim" /\ u \in S /\ IsLamp(u) /\ s \in Off..Darkest /\ s + n <= Darkest
                 => E[u].state = s + n
          /\ f = "Bright" /\ u \in S /\ IsLamp(u) /\ s \in On..Darkest /\ s - n >= On
                 => E[u].state = s - n
      BY <1>6 DEF Obeys
    <2>2. Distance(D, u) \in Nat
      BY DistanceType
    <2>5. /\ s \in 0..(MaxDim + 1) /\ s <= w => Distance(D, u) = w - s
          /\ s \in 0..(MaxDim + 1) /\ s >= w => Distance(D, u) = s - w
          /\ E[u].state \in 0..(MaxDim + 1) /\ E[u].state <= w => Distance(E, u) = w - E[u].state
          /\ E[u].state \in 0..(MaxDim + 1) /\ E[u].state >= w => Distance(E, u) = E[u].state - w
      BY <1>6, <2>1, DistanceOf
    <2>3. CASE u \notin S
      <3>1. E[u].state = D[u].state /\ E[u].wanted = D[u].wanted
        BY <2>1, <2>3
      <3>2. Distance(E, u) = Distance(D, u)
        BY <3>1 DEF Distance
      <3> HIDE DEF s, w
      <3>3. Distance(E, u) <= Distance(D, u)
        BY <2>2, <3>2
      <3> QED
        BY <2>3, <3>3
    <2>4. CASE u \in S
      <3>1. s \in 0..(MaxDim + 3) /\ w \in 0..(MaxDim + 1)
        BY <1>6, DistanceType
      <3>2. /\ IsLamp(u) /\ s \notin {Unknown, RefreshWanted}
            /\ levels[u] = IF f = "Dim" THEN w - s ELSE s - w
            /\ levels[u] >= n
        BY <1>5, <2>4
      <3>3. s \in 0..(MaxDim + 1)
        <4>1. s # MaxDim + 2 /\ s # MaxDim + 3 /\ MaxDim \in Nat
          BY <3>2, DeviceConstants
        <4> QED
          BY <3>1, <4>1
      <3>4. w # Off
        <4>1. DimLevels(D, u) # 0
          BY <1>3, <3>2, DimLevelsType
        <4> QED
          BY <4>1 DEF DimLevels
      <3> HIDE DEF s, w
      <3>5. CASE f = "Dim"
        <4>1. s + n <= w /\ s <= w
          BY <1>3, <3>1, <3>2, <3>5
        <4>2. E[u].state = s + n
          BY <1>3, <2>1, <2>4, <3>1, <3>2, <3>3, <3>5, <4>1, DeviceConstants
        <4>3. /\ s + n \in 0..(MaxDim + 1) /\ w - s \in Int /\ w - (s + n) < w - s
          BY <1>3, <3>1, <3>3, <4>1, DeviceConstants
        <4>4. Distance(D, u) = w - s /\ Distance(E, u) = w - (s + n)
          BY <2>5, <3>3, <4>1, <4>2, <4>3
        <4> QED
          BY <2>4, <3>1, <4>3, <4>4
      <3>6. CASE f = "Bright"
        <4>1. s - n >= w /\ s >= w
          BY <1>3, <3>1, <3>2, <3>6
        <4>2. E[u].state = s - n
          BY <1>3, <2>1, <2>4, <3>1, <3>2, <3>3, <3>4, <3>6, <4>1, DeviceConstants
        <4>3. /\ s - n \in 0..(MaxDim + 1) /\ s - w \in Int /\ (s - n) - w < s - w
          BY <1>3, <3>1, <3>3, <4>1, DeviceConstants
        <4>4. Distance(D, u) = s - w /\ Distance(E, u) = (s - n) - w
          BY <2>5, <3>3, <4>1, <4>2, <4>3
        <4> QED
          BY <2>4, <3>1, <4>3, <4>4
      <3> QED
        BY <3>5, <3>6
    <2> QED
      BY <2>3, <2>4
  <1>7. S \in SUBSET Units /\ \A v \in S : IsReal(v)
    BY <1>5
  <1> HIDE DEF S
  <1> QED
    BY <1>1, <1>3, <1>4, <1>6, <1>7, OrderHelps
LEMMA PlanHelps ==
    ASSUME NEW D \in [Units -> Devices], WantedOK(D), Plan(D) # <<>>
    PROVE  Helps(D, Plan(D))
  <1>1. /\ UpdateAllUnitsOff(D) # <<>> => Helps(D, UpdateAllUnitsOff(D))
        /\ UpdateBrightUnknown(D) # <<>> => Helps(D, UpdateBrightUnknown(D))
        /\ UpdateAllLightsOn(D) # <<>> => Helps(D, UpdateAllLightsOn(D))
        /\ UpdateOn(D) # <<>> => Helps(D, UpdateOn(D))
        /\ UpdateOff(D) # <<>> => Helps(D, UpdateOff(D))
    BY AllUnitsOffHelps, BrightUnknownHelps, AllLightsOnHelps, OnAndOffHelp
  <1>2. UpdateDim(D) # <<>> => Helps(D, UpdateDim(D))
    <2> DEFINE levels == [u \in Units |-> DimLevels(D, u)]
    <2>1. levels \in [Units -> Int] /\ UpdateDim(D) = UpdateLevels("Dim", levels)
      BY DimLevelsType DEF UpdateDim
    <2>2. \A u \in Units : levels[u] = IF "Dim" = "Dim" THEN DimLevels(D, u) ELSE -DimLevels(D, u)
      OBVIOUS
    <2> HIDE DEF levels
    <2> QED
      BY <2>1, <2>2, DimAndBrightHelp
  <1>3. UpdateBright(D) # <<>> => Helps(D, UpdateBright(D))
    <2> DEFINE levels == [u \in Units |-> -DimLevels(D, u)]
    <2>1. levels \in [Units -> Int] /\ UpdateBright(D) = UpdateLevels("Bright", levels)
      BY DimLevelsType DEF UpdateBright
    <2>2. \A u \in Units :
              levels[u] = IF "Bright" = "Dim" THEN DimLevels(D, u) ELSE -DimLevels(D, u)
      OBVIOUS
    <2> HIDE DEF levels
    <2> QED
      BY <2>1, <2>2, DimAndBrightHelp
  <1> QED
    BY <1>1, <1>2, <1>3, Zenon DEF Plan, OrElse

LEMMA HearAllOK ==
    ASSUME NEW D \in [Units -> Devices], WantedOK(D), NEW p \in Seq(Messages)
    PROVE  HearAll(D, p) \in [Units -> Devices] /\ WantedOK(HearAll(D, p))
  <1>1. PICK h : Heard(h, D, p) /\ HearAll(D, p) = h[Len(p)]
    BY HearAllIsHeard
  <1> DEFINE n == Len(p)
             T == {i \in 0..n : WantedOK(h[i])}
  <1>2. n \in Nat /\ \A i \in 1..n : p[i] \in Messages
    OBVIOUS
  <1>3. /\ h \in [0..n -> [Units -> Devices]] /\ h[0] = D
        /\ \A i \in 1..n : h[i] = Hear(h[i - 1], p[i], FALSE)
    BY <1>1 DEF Heard
  <1> HIDE DEF n
  <1>4. 0 \in T
    BY <1>2, <1>3
  <1>5. ASSUME NEW i \in 0..(n - 1), i \in T PROVE i + 1 \in T
    <2>1. i \in 0..n /\ i + 1 \in 1..n /\ i + 1 \in 0..n /\ (i + 1) - 1 = i
      BY <1>2
    <2>2. h[i] \in [Units -> Devices] /\ h[i + 1] = Hear(h[i], p[i + 1], FALSE)
      BY <1>3, <2>1
    <2>3. WantedOK(Hear(h[i], p[i + 1], FALSE))
      BY <1>2, <1>5, <2>1, <2>2, HearOK
    <2> QED
      BY <2>1, <2>2, <2>3
  <1> HIDE DEF T
  <1>6. \A i \in 0..n : i \in T
    BY <1>2, <1>4, <1>5, InductionUpTo
  <1>7. n \in 0..n
    BY <1>2
  <1> QED
    BY <1>1, <1>3, <1>6, <1>7 DEF T, n

(* The plan that any state of the house would make, carried out undisturbed, *)
(* leaves alone every device that shows what is wanted of it, unless         *)
(* somebody else has just addressed it (housecode.cpp, mUpdateDevices).      *)
THEOREM PlanSparesTheSettledHolds == Spec => []PlanSparesTheSettled
  <1>1. Inv => PlanSparesTheSettled
    <2> SUFFICES ASSUME Inv PROVE PlanSparesTheSettled
      OBVIOUS
    <2> DEFINE after == HearAll(device, Plan(device))
    <2>1. device \in [Units -> Devices] /\ WantedOK(device)
      BY DEF Inv, TypeOK, WantedOK
    <2>2. after \in [Units -> Devices] /\ WantedOK(after)
      BY <2>1, PlanIsPlan, HearAllOK DEF IsPlan
    <2>3. SUFFICES ASSUME NEW u \in Units, Settled(device, u), device[u].selected # "on"
                   PROVE  Settled(after, u)
      BY DEF PlanSparesTheSettled
    <2>4. CASE ~IsReal(u)
      BY <2>4 DEF Settled
    <2>5. CASE IsReal(u) /\ Plan(device) # <<>>
      <3>1. Distance(after, u) <= Distance(device, u)
        BY <2>1, <2>3, <2>5, PlanHelps DEF Helps
      <3>2. Distance(device, u) = 0
        BY <2>1, <2>3, DistanceType
      <3> HIDE DEF after
      <3>3. Distance(after, u) \in Nat
        BY <2>2, DistanceType
      <3>4. Distance(after, u) = 0
        BY <3>1, <3>2, <3>3
      <3> QED
        BY <2>2, <3>4, DistanceType
    <2>6. CASE Plan(device) = <<>>
      <3>0. <<>> \in Seq(Messages) /\ Len(<<>>) = 0
        OBVIOUS
      <3>1. PICK h : Heard(h, device, <<>>) /\ HearAll(device, <<>>) = h[Len(<<>>)]
        BY <2>1, <3>0, HearAllIsHeard
      <3>2. after = device
        BY <2>6, <3>0, <3>1 DEF Heard
      <3> QED
        BY <2>3, <3>2
    <2> QED
      BY <2>4, <2>5, <2>6
  <1> QED
    BY <1>1, Invariance, PTL

(* Every plan that any state of the house would make, carried out            *)
(* undisturbed, brings the house code strictly nearer to what is wanted:     *)
(* planning one function at a time comes to an end (housecode.cpp,           *)
(* mUpdateDevices).                                                         *)
THEOREM PlanMakesProgressHolds == Spec => []PlanMakesProgress
  <1>1. Inv => PlanMakesProgress
    <2> SUFFICES ASSUME Inv, Plan(device) # <<>>, \A u \in Units : device[u].selected # "on"
                 PROVE  TotalDistance(HearAll(device, Plan(device))) < TotalDistance(device)
      BY DEF PlanMakesProgress
    <2> DEFINE after == HearAll(device, Plan(device))
    <2>1. device \in [Units -> Devices] /\ WantedOK(device)
      BY DEF Inv, TypeOK, WantedOK
    <2>2. after \in [Units -> Devices] /\ WantedOK(after)
      BY <2>1, PlanIsPlan, HearAllOK DEF IsPlan
    <2>3. /\ \A u \in Units : IsReal(u) => Distance(after, u) <= Distance(device, u)
          /\ \E u \in Units : Distance(after, u) < Distance(device, u)
      BY <2>1, PlanHelps DEF Helps
    <2>4. \A u \in Units : ~IsReal(u) => Distance(after, u) = 0 /\ Distance(device, u) = 0
      BY DEF Distance
    <2> HIDE DEF after
    <2>5. \A u \in Units : Distance(after, u) <= Distance(device, u)
      BY <2>3, <2>4
    <2>6. TotalDistance(after) < TotalDistance(device)
      BY <2>1, <2>2, <2>3, <2>5, TotalDistanceShrinks
    <2> QED
      BY <2>6 DEF after
  <1> QED
    BY <1>1, Invariance, PTL
=============================================================================
