--------------------------- MODULE DeviceTimeouts ---------------------------
(***************************************************************************)
(* The two timeouts of the real X10 devices (device.cpp, CX10RealDevice):  *)
(* when a device is to be switched on and when it is to be switched off.   *)
(* Rules set them (vm.cpp, SetDeviceState), people at the controllers move *)
(* them, and the rules thread checks them on every turn (runtime.cpp,      *)
(* maintainQueues) against a clock that the mains frequency ticks and that  *)
(* a rule sets to the host's time, forwards or backwards (clock.cpp).      *)
(***************************************************************************)
EXTENDS X10Device

CONSTANTS Device,        \* the real devices
          Kind,          \* their classes
          TwelveHours,   \* how long a device switched on by hand stays on
          MaxDelay,      \* longest DELAYED of a rule
          MaxDuration,   \* longest DURATION of a rule
          MaxBackStep,   \* how far setting the clock can take it back in all
          Horizon,       \* bound: nobody acts after this time
          EndOfTime      \* THE_END_OF_TIME: the timeout is not running

ASSUME DeviceTimeoutsAssumption ==
    /\ Kind \in [Device -> Real]
    /\ TwelveHours \in Nat \ {0} /\ MaxDelay \in Nat /\ MaxDuration \in Nat
    /\ MaxBackStep \in Nat /\ Horizon \in Nat
    /\ EndOfTime \notin Nat

\* The last time any timeout can run out, with time to notice it.
MaxClock == Horizon + TwelveHours + MaxDuration + MaxBackStep

VARIABLES clock,      \* tickingClock
          latest,     \* the latest time the clock has shown
          device,     \* state, wanted and selected of each device
          onAt,       \* mSwitchOnTimeout
          offAt,      \* mSwitchOffTimeout
          allX10DevicesInWantedState

vars == <<clock, latest, device, onAt, offAt, allX10DevicesInWantedState>>

Times == Nat \cup {EndOfTime}

TypeOK ==
    /\ clock \in Nat /\ latest \in Nat
    /\ device \in [Device -> Devices]
    /\ onAt \in [Device -> Times] /\ offAt \in [Device -> Times]
    /\ allX10DevicesInWantedState \in BOOLEAN

Init ==
    /\ clock = 0 /\ latest = 0
    /\ device = [d \in Device |-> NewDevice(Kind[d])]
    /\ onAt = [d \in Device |-> EndOfTime]
    /\ offAt = [d \in Device |-> EndOfTime]
    /\ allX10DevicesInWantedState = FALSE

\* now >= timeout; THE_END_OF_TIME is later than any time the clock shows.
Due(timeout) == timeout # EndOfTime /\ clock >= timeout
-----------------------------------------------------------------------------
(* The clock.                                                               *)

SetClock(t) ==
    /\ clock' = t
    /\ latest' = IF t > latest THEN t ELSE latest
    /\ UNCHANGED <<device, onAt, offAt, allX10DevicesInWantedState>>

Tick == clock < MaxClock /\ SetClock(clock + 1)

\* ResynchClockToHostRealTimeClock
Resynch(t) ==
    /\ latest <= Horizon /\ t <= Horizon
    /\ t + MaxBackStep >= latest
    /\ SetClock(t)
-----------------------------------------------------------------------------
(* Rules: SETDEVICE d w DELAYED delay DURATION duration.                    *)

\* mSetWantedState, now: what happens at once does not start its timeout, and
\* of what is to happen later only the time is kept, not the state asked for.
SetOn(d, w, delay, duration) ==
    /\ latest <= Horizon
    /\ delay < duration            \* assertions of vm.cpp and device.cpp
    /\ offAt' = [offAt EXCEPT ![d] = clock + duration]
    /\ \/ /\ delay = 0
          /\ onAt' = [onAt EXCEPT ![d] = EndOfTime]
          /\ device' = [device EXCEPT ![d].wanted = w]
          /\ allX10DevicesInWantedState' =
                 (allX10DevicesInWantedState /\ device[d].state = w)
       \/ /\ delay > 0
          /\ onAt' = [onAt EXCEPT ![d] = clock + delay]
          /\ UNCHANGED <<device, allX10DevicesInWantedState>>
    /\ UNCHANGED <<clock, latest>>

\* Variant: a device told to go off may still be waiting to go on.
SetOffStillOn(d, delay) ==
    /\ latest <= Horizon
    /\ delay > 0
    /\ offAt' = [offAt EXCEPT ![d] = clock + delay]
    /\ UNCHANGED <<clock, latest, device, onAt, allX10DevicesInWantedState>>

SetOff(d, delay) ==
    /\ latest <= Horizon
    /\ onAt' = [onAt EXCEPT ![d] = EndOfTime]
    /\ \/ /\ delay = 0
          /\ offAt' = [offAt EXCEPT ![d] = EndOfTime]
          /\ device' = [device EXCEPT ![d].wanted = Off]
          /\ allX10DevicesInWantedState' =
                 (allX10DevicesInWantedState /\ device[d].state = Off)
       \/ /\ delay > 0
          /\ offAt' = [offAt EXCEPT ![d] = clock + delay]
          /\ UNCHANGED <<device, allX10DevicesInWantedState>>
    /\ UNCHANGED <<clock, latest>>
-----------------------------------------------------------------------------
(* People: an address, then a function (bExternal true).                    *)

ExternalAddress(d) ==
    /\ latest <= Horizon
    /\ device' = [e \in Device |-> Select(Kind[e], device[e], e = d)]
    /\ UNCHANGED <<clock, latest, onAt, offAt, allX10DevicesInWantedState>>

TimerOf(d, f) == MoveTimer(Kind[d], device[d], f)

ExternalFunction(f) ==
    /\ latest <= Horizon
    /\ device' = [d \in Device |-> Function(Kind[d], device[d], f, TRUE)]
    /\ onAt'  = [d \in Device |-> IF TimerOf(d, f) = "cancel" THEN EndOfTime ELSE onAt[d]]
    /\ offAt' = [d \in Device |->
                    CASE TimerOf(d, f) = "cancel"      -> EndOfTime
                      [] TimerOf(d, f) = "twelveHours" -> clock + TwelveHours
                      [] TimerOf(d, f) = "keep"        -> offAt[d]]
    /\ allX10DevicesInWantedState' =
           /\ allX10DevicesInWantedState
           /\ ~ \E d \in Device : /\ Kind[d] = "applianceLamp" /\ f = "AllLightsOn"
                                  /\ Moves(Kind[d], device[d], f)
    /\ UNCHANGED <<clock, latest>>
-----------------------------------------------------------------------------
(* The rules thread.                                                        *)

SwitchesOn(d)  == Due(onAt[d])
SwitchesOff(d) == Due(offAt[d])

\* mCheckSwitchOnTimeout, then mCheckSwitchOffTimeout, of every device.
WantedAfter(d) == IF SwitchesOff(d) THEN Off
                  ELSE IF SwitchesOn(d) THEN On ELSE device[d].wanted

\* Variant: switching on stops the timeout that would switch off.
OffAtAfterEither(d) == IF SwitchesOn(d) \/ SwitchesOff(d) THEN EndOfTime ELSE offAt[d]

OffAtAfter(d) == IF SwitchesOff(d) THEN EndOfTime ELSE offAt[d]

\* Variant: only switching on wakes the planner.
ShownAfterOn(d) == SwitchesOn(d) => device[d].state = On

\* The device shows already what its timeouts make wanted.
ShownAlready(d) == /\ SwitchesOn(d)  => device[d].state = On
                   /\ SwitchesOff(d) => device[d].state = Off

CheckTimeouts ==
    /\ \E d \in Device : SwitchesOn(d) \/ SwitchesOff(d)
    /\ device' = [d \in Device |-> [device[d] EXCEPT !.wanted = WantedAfter(d)]]
    /\ onAt'  = [d \in Device |-> IF SwitchesOn(d) \/ SwitchesOff(d) THEN EndOfTime ELSE onAt[d]]
    /\ offAt' = [d \in Device |-> OffAtAfter(d)]
    /\ allX10DevicesInWantedState' =
           (allX10DevicesInWantedState /\ \A d \in Device : ShownAlready(d))
    /\ UNCHANGED <<clock, latest>>

\* The house has brought d to what was wanted of it (HouseCode, X10Pipeline).
Delivered(d) ==
    /\ device[d].state # device[d].wanted
    /\ device' = [device EXCEPT ![d].state = device[d].wanted]
    /\ UNCHANGED <<clock, latest, onAt, offAt, allX10DevicesInWantedState>>

\* maintainQueues, when the planner finds nothing to do.
NothingToDo ==
    /\ ~allX10DevicesInWantedState
    /\ \A d \in Device : device[d].state = device[d].wanted
    /\ allX10DevicesInWantedState' = TRUE
    /\ UNCHANGED <<clock, latest, device, onAt, offAt>>
-----------------------------------------------------------------------------
Next ==
    \/ Tick
    \/ \E t \in 0..Horizon : Resynch(t)
    \/ \E d \in Device : \E w \in WishesOf(Kind[d]) \ {Off} :
           \E delay \in 0..MaxDelay, duration \in 1..MaxDuration : SetOn(d, w, delay, duration)
    \/ \E d \in Device, delay \in 0..MaxDelay : SetOff(d, delay)
    \/ \E d \in Device : ExternalAddress(d)
    \/ \E f \in Functions : ExternalFunction(f)
    \/ CheckTimeouts
    \/ \E d \in Device : Delivered(d)
    \/ NothingToDo

\* The mains keep the clock ticking and the rules thread keeps checking.
Spec == Init /\ [][Next]_vars /\ WF_vars(Tick) /\ WF_vars(CheckTimeouts)
-----------------------------------------------------------------------------
(* The assertion of mCheckSwitchOffTimeout (device.cpp): when a device is   *)
(* switched off, it is not still waiting to be switched on.                 *)
TimeoutAssertion ==
    \A d \in Device : SwitchesOff(d) => onAt[d] = EndOfTime \/ SwitchesOn(d)

(* A device that is wanted on, or is going to be, is going to be switched   *)
(* off: every path that lights a device starts its switch-off timeout, and  *)
(* none that stops the timeout leaves it lit (device.cpp, vm.cpp: "the      *)
(* duration defaults to 12 hours").                                        *)
NothingStaysOn ==
    \A d \in Device :
        device[d].wanted # Off \/ onAt[d] # EndOfTime => offAt[d] # EndOfTime

(* A timeout that changes what is wanted wakes the planner: while           *)
(* allX10DevicesInWantedState is set every device shows what is wanted.     *)
TimeoutsWakeThePlanner ==
    allX10DevicesInWantedState =>
        \A d \in Device : device[d].state = device[d].wanted

(* When people and rules have fallen silent (nobody acts after Horizon),    *)
(* everything is switched off in the end, whichever way the clock was set   *)
(* and whatever delays and durations were running.                         *)
EventuallyDark ==
    <>[](latest > Horizon) => <>[](\A d \in Device : device[d].wanted = Off)
=============================================================================
