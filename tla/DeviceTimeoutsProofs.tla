------------------------ MODULE DeviceTimeoutsProofs ------------------------
(***************************************************************************)
(* The timeouts of the real devices, for any number of devices and any      *)
(* delays, durations and settings of the clock.                             *)
(***************************************************************************)
EXTENDS DeviceTimeouts, TLAPS

(* How far ahead of the clock a switch-on timeout can be, and how far behind *)
(* its latest time the clock.                                               *)
ClockInv ==
    /\ clock <= latest /\ latest <= clock + MaxBackStep
    /\ \A d \in Device : onAt[d] # EndOfTime => onAt[d] <= latest + MaxDelay

(* A device waiting to be switched on is switched off after that.           *)
OrderInv ==
    \A d \in Device :
        onAt[d] # EndOfTime => offAt[d] # EndOfTime /\ onAt[d] <= offAt[d]

(* A delay together with all the setting back of the clock is no longer     *)
(* than what a device switched on by hand is given.                         *)
DelaysAreShort == MaxDelay + MaxBackStep <= TwelveHours

-----------------------------------------------------------------------------
(* The operators of X10Device, for a real device.                           *)

LEMMA TargetInStates ==
    ASSUME NEW k \in Real, NEW e \in Devices, NEW f \in Functions, Moves(k, e, f)
    PROVE  Target(e, f) \in Wishes
<1> USE MaxDimAssumption
    DEF MaxDimAssumption, Real, Devices, States, Wishes, Off, On, Dim, Darkest,
        Unknown, RefreshWanted
<1>1. CASE f \in {"AllUnitsOff", "Off"}
  BY <1>1 DEF Target
<1>2. CASE f \in {"AllLightsOn", "On"}
  BY <1>2 DEF Target
<1>3. CASE f = "Dim"
  <2>1. e.state \in {Off, Unknown} \cup On..(Darkest - 1)
    BY <1>3 DEF Moves
  <2>2. QED
    BY <1>3, <2>1 DEF Target
<1>4. CASE f = "Bright"
  <2>1. e.state \in {Off, Unknown} \cup Dim(1)..Darkest
    BY <1>4 DEF Moves
  <2>2. QED
    BY <1>4, <2>1 DEF Target
<1>5. QED
  BY <1>1, <1>2, <1>3, <1>4 DEF Functions

LEMMA WishesAreStates == Wishes \subseteq States
BY MaxDimAssumption DEF MaxDimAssumption, Wishes, States, Off, Dim, Darkest, RefreshWanted

LEMMA FunctionType ==
    ASSUME NEW k \in Real, NEW e \in Devices, NEW f \in Functions
    PROVE  Function(k, e, f, TRUE) \in Devices
<1>1. Moves(k, e, f) => Target(e, f) \in States
  BY TargetInStates, WishesAreStates
<1>2. Off \in States
  BY MaxDimAssumption DEF MaxDimAssumption, States, Off, RefreshWanted
<1>3. e.state \in States /\ e.wanted \in States /\ e.selected \in Selected
  BY DEF Devices
<1>4. Shows(k, e, f) \in States
  BY <1>1, <1>2, <1>3 DEF Shows
<1>5. SelectedAfter(k, e, f) \in Selected
  BY <1>3 DEF SelectedAfter, Selected
<1>6. QED
  BY <1>1, <1>3, <1>4, <1>5 DEF Function, Devices

LEMMA SelectType ==
    ASSUME NEW k \in Real, NEW e \in Devices, NEW you \in BOOLEAN
    PROVE  /\ Select(k, e, you) \in Devices
           /\ Select(k, e, you).wanted = e.wanted
BY DEF Select, Devices, Selected

LEMMA MoveTimerRange ==
    ASSUME NEW k, NEW e, NEW f
    PROVE  MoveTimer(k, e, f) \in {"keep", "cancel", "twelveHours"}
BY DEF MoveTimer
-----------------------------------------------------------------------------
(* Type correctness.                                                        *)

LEMMA InitType == Init => TypeOK
<1> SUFFICES ASSUME Init PROVE TypeOK
  OBVIOUS
<1> USE DeviceTimeoutsAssumption, MaxDimAssumption
    DEF DeviceTimeoutsAssumption, MaxDimAssumption
<1>1. \A d \in Device : NewDevice(Kind[d]) \in Devices
  BY DEF NewDevice, Devices, Real, Selected, States, Off, Unknown, RefreshWanted
<1>2. allX10DevicesInWantedState \in BOOLEAN
  BY Zenon DEF Init
<1>3. Off \in Wishes
  BY DEF Wishes, Off, Darkest, Dim
<1>4. QED
  BY <1>1, <1>2, <1>3 DEF Init, TypeOK, Times

LEMMA StepType == TypeOK /\ [Next]_vars => TypeOK'
<1> SUFFICES ASSUME TypeOK, [Next]_vars PROVE TypeOK'
  OBVIOUS
<1> USE DeviceTimeoutsAssumption DEF DeviceTimeoutsAssumption
<1>0. Off \in States /\ On \in States /\ Wishes \subseteq States /\ Off \in Wishes
  BY WishesAreStates, MaxDimAssumption
     DEF MaxDimAssumption, States, Off, On, RefreshWanted, Wishes, Darkest, Dim
<1>1. ASSUME NEW t \in Nat, SetClock(t) PROVE TypeOK'
  BY <1>1 DEF SetClock, TypeOK
<1>2. ASSUME Tick PROVE TypeOK'
  BY <1>1, <1>2 DEF Tick, TypeOK
<1>3. ASSUME NEW t \in 0..Horizon, Resynch(t) PROVE TypeOK'
  BY <1>1, <1>3 DEF Resynch
<1>4. ASSUME NEW d \in Device, NEW w \in WishesOf(Kind[d]) \ {Off},
             NEW delay \in 0..MaxDelay, NEW duration \in 1..MaxDuration,
             SetOn(d, w, delay, duration)
      PROVE  TypeOK'
  <2>1. w \in Wishes
    BY MaxDimAssumption DEF MaxDimAssumption, WishesOf, Wishes, Off, On, Darkest, Dim
  <2>2. allX10DevicesInWantedState' \in BOOLEAN
    BY <1>4, Zenon DEF SetOn, TypeOK
  <2>3. device' \in [Device -> Devices]
    BY <1>4, <1>0, <2>1 DEF SetOn, TypeOK, Devices
  <2>4. onAt' \in [Device -> Times] /\ offAt' \in [Device -> Times]
    BY <1>4 DEF SetOn, TypeOK, Times
  <2>5. clock' \in Nat /\ latest' \in Nat
    BY <1>4, <2>1 DEF SetOn, TypeOK
  <2>6. QED
    BY <2>2, <2>3, <2>4, <2>5 DEF TypeOK
<1>5. ASSUME NEW d \in Device, NEW delay \in 0..MaxDelay, SetOff(d, delay) PROVE TypeOK'
  <2>1. allX10DevicesInWantedState' \in BOOLEAN
    BY <1>5, Zenon DEF SetOff, TypeOK
  <2>2. device' \in [Device -> Devices]
    BY <1>5, <1>0 DEF SetOff, TypeOK, Devices
  <2>3. onAt' \in [Device -> Times] /\ offAt' \in [Device -> Times]
    BY <1>5 DEF SetOff, TypeOK, Times
  <2>4. clock' \in Nat /\ latest' \in Nat
    BY <1>0, <1>5 DEF SetOff, TypeOK
  <2>5. QED
    BY <2>1, <2>2, <2>3, <2>4 DEF TypeOK
<1>6. ASSUME NEW d \in Device, ExternalAddress(d) PROVE TypeOK'
  <2>1. \A e \in Device : Select(Kind[e], device[e], e = d) \in Devices
    BY SelectType DEF TypeOK
  <2>2. QED
    BY <1>6, <2>1 DEF ExternalAddress, TypeOK
<1>7. ASSUME NEW f \in Functions, ExternalFunction(f) PROVE TypeOK'
  <2>1. \A d \in Device : Function(Kind[d], device[d], f, TRUE) \in Devices
    BY FunctionType DEF TypeOK
  <2>2. device' \in [Device -> Devices]
    BY <1>7, <2>1 DEF ExternalFunction
  <2>3. allX10DevicesInWantedState' \in BOOLEAN
    BY <1>7, Zenon DEF ExternalFunction, TypeOK
  <2>4. \A d \in Device : TimerOf(d, f) \in {"keep", "cancel", "twelveHours"}
    BY MoveTimerRange DEF TimerOf
  <2>5. onAt' \in [Device -> Times]
    BY <1>7 DEF ExternalFunction, TypeOK, Times
  <2>6. offAt' \in [Device -> Times]
    BY <1>7, <2>4 DEF ExternalFunction, TypeOK, Times
  <2>7. QED
    BY <1>7, <2>2, <2>3, <2>5, <2>6 DEF ExternalFunction, TypeOK
<1>8. ASSUME CheckTimeouts PROVE TypeOK'
  <2>1. allX10DevicesInWantedState' \in BOOLEAN
    BY <1>8, Zenon DEF CheckTimeouts, OffAtAfter, ShownAlready, TypeOK
  <2>2. device' \in [Device -> Devices]
    BY <1>8, <1>0 DEF CheckTimeouts, OffAtAfter, ShownAlready, TypeOK, Devices, WantedAfter
  <2>3. QED
    BY <1>8, <2>1, <2>2 DEF CheckTimeouts, OffAtAfter, ShownAlready, TypeOK, Times
<1>9. ASSUME NEW d \in Device, Delivered(d) PROVE TypeOK'
  <2>1. device' \in [Device -> Devices]
    BY <1>9 DEF Delivered, TypeOK, Devices
  <2>2. QED
    BY <1>9, <2>1 DEF Delivered, TypeOK
<1>10. ASSUME NothingToDo PROVE TypeOK'
  <2>1. allX10DevicesInWantedState' \in BOOLEAN
    BY <1>10, Zenon DEF NothingToDo
  <2>2. QED
    BY <1>10, <2>1 DEF NothingToDo, TypeOK
<1>11. CASE UNCHANGED vars
  BY <1>11 DEF vars, TypeOK
<1>12. QED
  BY <1>2, <1>3, <1>4, <1>5, <1>6, <1>7, <1>8, <1>9, <1>10, <1>11 DEF Next

(* The clock, the timeouts and the devices keep their ranges.               *)
THEOREM TypeCorrect == Spec => []TypeOK
BY InitType, StepType, PTL DEF Spec
-----------------------------------------------------------------------------
(* Nothing stays on.                                                        *)

LEMMA ExternalOutcome ==
    ASSUME TypeOK, NEW f \in Functions, ExternalFunction(f), NEW d \in Device
    PROVE  /\ TimerOf(d, f) = "keep" =>
                  device'[d].wanted = device[d].wanted /\ offAt'[d] = offAt[d]
                                                       /\ onAt'[d] = onAt[d]
           /\ TimerOf(d, f) = "cancel" =>
                  device'[d].wanted = Off /\ offAt'[d] = EndOfTime /\ onAt'[d] = EndOfTime
           /\ TimerOf(d, f) = "twelveHours" =>
                  offAt'[d] = clock + TwelveHours /\ onAt'[d] = onAt[d]
<1>1. device'[d] = Function(Kind[d], device[d], f, TRUE)
  BY DEF ExternalFunction
<1>2. device'[d].wanted =
          IF Moves(Kind[d], device[d], f) THEN Target(device[d], f) ELSE device[d].wanted
  BY <1>1 DEF Function
<1>3. TimerOf(d, f) = "keep" => ~Moves(Kind[d], device[d], f)
  BY DEF TimerOf, MoveTimer
<1>4. TimerOf(d, f) = "cancel" => Moves(Kind[d], device[d], f) /\ Target(device[d], f) = Off
  BY DEF TimerOf, MoveTimer, Target
<1>5. QED
  BY <1>2, <1>3, <1>4 DEF ExternalFunction

LEMMA InitOn == Init => NothingStaysOn
<1> SUFFICES ASSUME Init, NEW d \in Device
             PROVE  device[d].wanted = Off /\ onAt[d] = EndOfTime
  BY DEF NothingStaysOn
<1>1. Kind[d] \in Real
  BY DeviceTimeoutsAssumption DEF DeviceTimeoutsAssumption
<1>2. QED
  BY <1>1 DEF Init, NewDevice

LEMMA StepOn == TypeOK /\ NothingStaysOn /\ [Next]_vars => NothingStaysOn'
<1> SUFFICES ASSUME TypeOK, NothingStaysOn, [Next]_vars, NEW e \in Device,
                    device'[e].wanted # Off \/ onAt'[e] # EndOfTime
             PROVE  offAt'[e] # EndOfTime
  BY DEF NothingStaysOn
<1> USE DeviceTimeoutsAssumption DEF DeviceTimeoutsAssumption, TypeOK
<1>0. device[e].wanted # Off \/ onAt[e] # EndOfTime => offAt[e] # EndOfTime
  BY DEF NothingStaysOn
<1>1. CASE Tick \/ \E t \in 0..Horizon : Resynch(t)
  BY <1>0, <1>1 DEF Tick, Resynch, SetClock
<1>2. ASSUME NEW d \in Device, NEW w, NEW delay \in 0..MaxDelay,
             NEW duration \in 1..MaxDuration, SetOn(d, w, delay, duration)
      PROVE  offAt'[e] # EndOfTime
  <2>1. clock + duration \in Nat
    OBVIOUS
  <2>2. QED
    BY <1>0, <1>2, <2>1 DEF SetOn
<1>3. ASSUME NEW d \in Device, NEW delay \in 0..MaxDelay, SetOff(d, delay)
      PROVE  offAt'[e] # EndOfTime
  <2>1. CASE e # d
    BY <1>0, <1>3, <2>1 DEF SetOff
  <2>2. CASE e = d
    <3>1. onAt'[d] = EndOfTime
      BY <1>3 DEF SetOff
    <3>2. CASE delay = 0
      <4>1. device'[d].wanted = Off
        BY <1>3, <3>2 DEF SetOff, Devices
      <4>2. QED
        BY <2>2, <3>1, <4>1
    <3>3. CASE delay > 0
      BY <1>3, <2>2, <3>3 DEF SetOff
    <3>4. QED
      BY <3>2, <3>3
  <2>3. QED
    BY <2>1, <2>2
<1>4. ASSUME NEW d \in Device, ExternalAddress(d) PROVE offAt'[e] # EndOfTime
  <2>1. Kind[e] \in Real /\ device[e] \in Devices /\ (e = d) \in BOOLEAN
    OBVIOUS
  <2>2. Select(Kind[e], device[e], e = d).wanted = device[e].wanted
    BY <2>1, SelectType
  <2>3. device'[e].wanted = device[e].wanted /\ onAt' = onAt /\ offAt' = offAt
    BY <1>4, <2>2 DEF ExternalAddress
  <2>4. QED
    BY <1>0, <2>3
<1>5. ASSUME NEW f \in Functions, ExternalFunction(f) PROVE offAt'[e] # EndOfTime
  <2>1. clock + TwelveHours \in Nat
    OBVIOUS
  <2>2. TimerOf(e, f) \in {"keep", "cancel", "twelveHours"}
    BY MoveTimerRange DEF TimerOf
  <2>3. QED
    BY <1>0, <1>5, <2>1, <2>2, ExternalOutcome
<1>6. CASE CheckTimeouts
  <2>1. device'[e].wanted = WantedAfter(e)
    BY <1>6 DEF CheckTimeouts, OffAtAfter, ShownAlready, Devices
  <2>2. CASE SwitchesOff(e)
    BY <1>6, <2>1, <2>2 DEF CheckTimeouts, OffAtAfter, ShownAlready, WantedAfter
  <2>3. CASE ~SwitchesOff(e) /\ SwitchesOn(e)
    <3>1. onAt[e] # EndOfTime
      BY <2>3 DEF SwitchesOn, Due
    <3>2. QED
      BY <1>0, <1>6, <2>3, <3>1 DEF CheckTimeouts, OffAtAfter, ShownAlready
  <2>4. CASE ~SwitchesOff(e) /\ ~SwitchesOn(e)
    BY <1>0, <1>6, <2>1, <2>4 DEF CheckTimeouts, OffAtAfter, ShownAlready, WantedAfter
  <2>5. QED
    BY <2>2, <2>3, <2>4
<1>7. ASSUME NEW d \in Device, Delivered(d) PROVE offAt'[e] # EndOfTime
  <2>1. device'[e].wanted = device[e].wanted /\ onAt' = onAt /\ offAt' = offAt
    BY <1>7 DEF Delivered, Devices
  <2>2. QED
    BY <1>0, <2>1
<1>8. CASE NothingToDo
  BY <1>0, <1>8 DEF NothingToDo
<1>9. CASE UNCHANGED vars
  BY <1>0, <1>9 DEF vars
<1>10. QED
  BY <1>1, <1>2, <1>3, <1>4, <1>5, <1>6, <1>7, <1>8, <1>9 DEF Next

(* Whatever rules and people do, and however the clock is set, a device     *)
(* that is or will be wanted on has a switch-off timeout running.           *)
THEOREM NothingStaysOnHolds == Spec => []NothingStaysOn
BY InitType, StepType, InitOn, StepOn, PTL DEF Spec
-----------------------------------------------------------------------------
(* A device is switched on before it is switched off.                       *)

OnInv == TypeOK /\ NothingStaysOn /\ ClockInv /\ OrderInv

LEMMA InitOrder == Init => ClockInv /\ OrderInv
BY DeviceTimeoutsAssumption DEF DeviceTimeoutsAssumption, Init, ClockInv, OrderInv

LEMMA StepClock == TypeOK /\ ClockInv /\ [Next]_vars => ClockInv'
<1> SUFFICES ASSUME TypeOK, ClockInv, [Next]_vars PROVE ClockInv'
  OBVIOUS
<1> USE DeviceTimeoutsAssumption DEF DeviceTimeoutsAssumption, TypeOK, Times
<1>1. CASE Tick
  BY <1>1 DEF Tick, SetClock, ClockInv
<1>2. ASSUME NEW t \in 0..Horizon, Resynch(t) PROVE ClockInv'
  BY <1>2 DEF Resynch, SetClock, ClockInv
<1>3. ASSUME NEW d \in Device, NEW w, NEW delay \in 0..MaxDelay,
             NEW duration \in 1..MaxDuration, SetOn(d, w, delay, duration)
      PROVE  ClockInv'
  <2>1. onAt'[d] # EndOfTime => onAt'[d] <= latest + MaxDelay
    BY <1>3 DEF SetOn, ClockInv
  <2>2. \A e \in Device \ {d} : onAt'[e] = onAt[e]
    BY <1>3 DEF SetOn
  <2>3. QED
    BY <1>3, <2>1, <2>2 DEF SetOn, ClockInv
<1>4. ASSUME NEW d \in Device, NEW delay \in 0..MaxDelay, SetOff(d, delay)
      PROVE  ClockInv'
  BY <1>4 DEF SetOff, ClockInv
<1>5. ASSUME NEW d \in Device, ExternalAddress(d) PROVE ClockInv'
  BY <1>5 DEF ExternalAddress, ClockInv
<1>6. ASSUME NEW f \in Functions, ExternalFunction(f) PROVE ClockInv'
  BY <1>6 DEF ExternalFunction, ClockInv
<1>7. CASE CheckTimeouts
  BY <1>7 DEF CheckTimeouts, OffAtAfter, ShownAlready, ClockInv
<1>8. ASSUME NEW d \in Device, Delivered(d) PROVE ClockInv'
  BY <1>8 DEF Delivered, ClockInv
<1>9. CASE NothingToDo \/ UNCHANGED vars
  BY <1>9 DEF NothingToDo, vars, ClockInv
<1>10. QED
  BY <1>1, <1>2, <1>3, <1>4, <1>5, <1>6, <1>7, <1>8, <1>9 DEF Next

LEMMA StepOrder ==
    ASSUME DelaysAreShort
    PROVE  OnInv /\ [Next]_vars => OrderInv'
<1> SUFFICES ASSUME OnInv, [Next]_vars, NEW e \in Device, onAt'[e] # EndOfTime
             PROVE  offAt'[e] # EndOfTime /\ onAt'[e] <= offAt'[e]
  BY DEF OrderInv
<1> USE DeviceTimeoutsAssumption DEF DeviceTimeoutsAssumption, OnInv, TypeOK, Times
<1>0. onAt[e] # EndOfTime => offAt[e] # EndOfTime /\ onAt[e] <= offAt[e]
  BY DEF OrderInv
<1>1. CASE Tick \/ \E t \in 0..Horizon : Resynch(t)
  BY <1>0, <1>1 DEF Tick, Resynch, SetClock
<1>2. ASSUME NEW d \in Device, NEW w, NEW delay \in 0..MaxDelay,
             NEW duration \in 1..MaxDuration, SetOn(d, w, delay, duration)
      PROVE  offAt'[e] # EndOfTime /\ onAt'[e] <= offAt'[e]
  <2>1. CASE e # d
    BY <1>0, <1>2, <2>1 DEF SetOn
  <2>2. CASE e = d
    BY <1>2, <2>2 DEF SetOn
  <2>3. QED
    BY <2>1, <2>2
<1>3. ASSUME NEW d \in Device, NEW delay \in 0..MaxDelay, SetOff(d, delay)
      PROVE  offAt'[e] # EndOfTime /\ onAt'[e] <= offAt'[e]
  BY <1>0, <1>3 DEF SetOff
<1>4. ASSUME NEW d \in Device, ExternalAddress(d)
      PROVE  offAt'[e] # EndOfTime /\ onAt'[e] <= offAt'[e]
  BY <1>0, <1>4 DEF ExternalAddress
<1>5. ASSUME NEW f \in Functions, ExternalFunction(f)
      PROVE  offAt'[e] # EndOfTime /\ onAt'[e] <= offAt'[e]
  <2>1. TimerOf(e, f) \in {"keep", "cancel", "twelveHours"}
    BY MoveTimerRange DEF TimerOf
  <2>2. CASE TimerOf(e, f) = "keep"
    BY <1>0, <1>5, <2>2, ExternalOutcome
  <2>3. CASE TimerOf(e, f) = "cancel"
    BY <1>5, <2>3, ExternalOutcome
  <2>4. CASE TimerOf(e, f) = "twelveHours"
    <3>1. offAt'[e] = clock + TwelveHours /\ onAt'[e] = onAt[e]
      BY <1>5, <2>4, ExternalOutcome
    <3>2. onAt[e] <= latest + MaxDelay /\ latest <= clock + MaxBackStep
      BY <3>1 DEF ClockInv
    <3>3. QED
      BY <3>1, <3>2 DEF DelaysAreShort
  <2>5. QED
    BY <2>1, <2>2, <2>3, <2>4
<1>6. CASE CheckTimeouts
  BY <1>0, <1>6 DEF CheckTimeouts, OffAtAfter, ShownAlready
<1>7. ASSUME NEW d \in Device, Delivered(d)
      PROVE  offAt'[e] # EndOfTime /\ onAt'[e] <= offAt'[e]
  BY <1>0, <1>7 DEF Delivered
<1>8. CASE NothingToDo \/ UNCHANGED vars
  BY <1>0, <1>8 DEF NothingToDo, vars
<1>9. QED
  BY <1>1, <1>2, <1>3, <1>4, <1>5, <1>6, <1>7, <1>8 DEF Next

(* The assertion of mCheckSwitchOffTimeout never fails, as long as a delay  *)
(* and the setting back of the clock together are no longer than the twelve *)
(* hours of a device switched on by hand.                                   *)
THEOREM TimeoutAssertionHolds ==
    ASSUME DelaysAreShort
    PROVE  Spec => []TimeoutAssertion
<1>1. Init => OnInv
  BY InitType, InitOn, InitOrder DEF OnInv
<1>2. OnInv /\ [Next]_vars => OnInv'
  BY StepType, StepOn, StepClock, StepOrder DEF OnInv
<1>3. OnInv => TimeoutAssertion
  <2> SUFFICES ASSUME OnInv, NEW d \in Device, SwitchesOff(d), onAt[d] # EndOfTime
               PROVE  SwitchesOn(d)
    BY DEF TimeoutAssertion
  <2>1. onAt[d] <= offAt[d] /\ clock >= offAt[d] /\ offAt[d] # EndOfTime
    BY DEF OnInv, OrderInv, SwitchesOff, Due
  <2>2. QED
    BY <2>1 DEF OnInv, TypeOK, Times, SwitchesOn, Due
<1>4. QED
  BY <1>1, <1>2, <1>3, PTL DEF Spec
-----------------------------------------------------------------------------
(* The planner is woken.                                                    *)

\* What a function shows is what is wanted, unless it only makes an appliance
\* lamp wanted on.
LEMMA FunctionKeepsSettled ==
    ASSUME NEW k \in Real, NEW e \in Devices, NEW f \in Functions, e.state = e.wanted,
           ~(k = "applianceLamp" /\ f = "AllLightsOn" /\ Moves(k, e, f))
    PROVE  Function(k, e, f, TRUE).state = Function(k, e, f, TRUE).wanted
<1>1. CASE Moves(k, e, f)
  <2>1. Shows(k, e, f) = Target(e, f)
    BY <1>1 DEF Shows, Real
  <2>2. QED
    BY <1>1, <2>1 DEF Function
<1>2. CASE ~Moves(k, e, f)
  <2>1. Shows(k, e, f) \in {e.state, e.wanted}
    BY <1>2 DEF Shows, Real
  <2>2. QED
    BY <1>2, <2>1 DEF Function
<1>3. QED
  BY <1>1, <1>2

LEMMA SelectKeepsState ==
    ASSUME NEW k \in Real, NEW e \in Devices, NEW you \in BOOLEAN
    PROVE  /\ Select(k, e, you).state = e.state
           /\ Select(k, e, you).wanted = e.wanted
BY DEF Select, Devices, Selected

LEMMA StepWake == TypeOK /\ TimeoutsWakeThePlanner /\ [Next]_vars => TimeoutsWakeThePlanner'
<1> SUFFICES ASSUME TypeOK, TimeoutsWakeThePlanner, [Next]_vars, NEW e \in Device,
                    allX10DevicesInWantedState'
             PROVE  device'[e].state = device'[e].wanted
  BY DEF TimeoutsWakeThePlanner
<1> USE DeviceTimeoutsAssumption DEF DeviceTimeoutsAssumption, TypeOK
<1>0. allX10DevicesInWantedState => device[e].state = device[e].wanted
  BY DEF TimeoutsWakeThePlanner
<1>1. CASE Tick \/ \E t \in 0..Horizon : Resynch(t)
  BY <1>0, <1>1 DEF Tick, Resynch, SetClock
<1>2. ASSUME NEW d \in Device, NEW w, device' = [device EXCEPT ![d].wanted = w],
             device[d].state = w, allX10DevicesInWantedState
      PROVE  device'[e].state = device'[e].wanted
  BY <1>0, <1>2 DEF Devices
<1>3. ASSUME NEW d \in Device, NEW w, NEW delay \in 0..MaxDelay,
             NEW duration \in 1..MaxDuration, SetOn(d, w, delay, duration)
      PROVE  device'[e].state = device'[e].wanted
  BY <1>0, <1>2, <1>3 DEF SetOn
<1>4. ASSUME NEW d \in Device, NEW delay \in 0..MaxDelay, SetOff(d, delay)
      PROVE  device'[e].state = device'[e].wanted
  BY <1>0, <1>2, <1>4 DEF SetOff
<1>5. ASSUME NEW d \in Device, ExternalAddress(d)
      PROVE  device'[e].state = device'[e].wanted
  <2>1. Kind[e] \in Real /\ device[e] \in Devices /\ (e = d) \in BOOLEAN
    OBVIOUS
  <2>2. device'[e] = Select(Kind[e], device[e], e = d)
    BY <1>5 DEF ExternalAddress
  <2>3. QED
    BY <1>0, <1>5, <2>1, <2>2, SelectKeepsState DEF ExternalAddress
<1>6. ASSUME NEW f \in Functions, ExternalFunction(f)
      PROVE  device'[e].state = device'[e].wanted
  <2>1. /\ allX10DevicesInWantedState
        /\ ~(Kind[e] = "applianceLamp" /\ f = "AllLightsOn" /\ Moves(Kind[e], device[e], f))
    BY <1>6 DEF ExternalFunction
  <2>2. device'[e] = Function(Kind[e], device[e], f, TRUE)
    BY <1>6 DEF ExternalFunction
  <2>3. Kind[e] \in Real /\ device[e] \in Devices /\ device[e].state = device[e].wanted
    BY <1>0, <2>1
  <2>4. Function(Kind[e], device[e], f, TRUE).state = Function(Kind[e], device[e], f, TRUE).wanted
    BY <2>1, <2>3, FunctionKeepsSettled
  <2>5. QED
    BY <2>2, <2>4
<1>7. CASE CheckTimeouts
  <2>1. /\ allX10DevicesInWantedState
        /\ SwitchesOn(e) => device[e].state = On
        /\ SwitchesOff(e) => device[e].state = Off
    BY <1>7 DEF CheckTimeouts, OffAtAfter, ShownAlready
  <2>2. device'[e].state = device[e].state /\ device'[e].wanted = WantedAfter(e)
    BY <1>7 DEF CheckTimeouts, OffAtAfter, ShownAlready, Devices
  <2>3. device[e].state = device[e].wanted
    BY <1>0, <2>1
  <2>4. CASE SwitchesOff(e)
    BY <2>1, <2>2, <2>4 DEF WantedAfter
  <2>5. CASE ~SwitchesOff(e) /\ SwitchesOn(e)
    BY <2>1, <2>2, <2>5 DEF WantedAfter
  <2>6. CASE ~SwitchesOff(e) /\ ~SwitchesOn(e)
    BY <2>2, <2>3, <2>6 DEF WantedAfter
  <2>7. QED
    BY <2>4, <2>5, <2>6
<1>8. ASSUME NEW d \in Device, Delivered(d)
      PROVE  device'[e].state = device'[e].wanted
  <2>1. allX10DevicesInWantedState /\ device[d].state # device[d].wanted
    BY <1>8 DEF Delivered
  <2>2. QED
    BY <2>1 DEF TimeoutsWakeThePlanner
<1>9. CASE NothingToDo
  BY <1>9 DEF NothingToDo
<1>10. CASE UNCHANGED vars
  BY <1>0, <1>10 DEF vars
<1>11. QED
  BY <1>1, <1>3, <1>4, <1>5, <1>6, <1>7, <1>8, <1>9, <1>10 DEF Next

(* No timeout, rule or message changes what is wanted of a device, or what  *)
(* it shows, and leaves the planner asleep.                                 *)
THEOREM TimeoutsWakeThePlannerHolds == Spec => []TimeoutsWakeThePlanner
<1>1. Init => TimeoutsWakeThePlanner
  BY DEF Init, TimeoutsWakeThePlanner
<1>2. QED
  BY <1>1, InitType, StepType, StepWake, PTL DEF Spec
=============================================================================
