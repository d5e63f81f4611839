----------------------------- MODULE X10Device -----------------------------
(***************************************************************************)
(* One X10 address as the house keeps it (device.cpp, include/device.h):   *)
(* what the device is believed to show, what the rules want it to show,    *)
(* and whether the last addresses heard on the mains select it.  The       *)
(* operators are the virtual functions of the device classes, with the     *)
(* class as parameter k.  The two timeouts of a device are in              *)
(* DeviceTimeouts; MoveTimer says what an external function does to them.  *)
(***************************************************************************)
EXTENDS Integers

CONSTANT MaxDim   \* number of DIM levels: 17 in the code

ASSUME MaxDimAssumption == MaxDim \in Nat \ {0}

(* device_state_t, with its numbering: stateOff, stateOn, stateDim1 ...     *)
(* stateDim17, stateUnknown, stateRefreshWanted.                           *)
Off           == 0
On            == 1
Dim(n)        == 1 + n
Darkest       == Dim(MaxDim)
Unknown       == MaxDim + 2
RefreshWanted == MaxDim + 3

States   == Off..RefreshWanted
Wishes   == Off..Darkest           \* what a rule may ask for
Lit      == On..Darkest
Selected == {"off", "on", "used"}  \* device_selected_t

Functions == {"AllUnitsOff", "AllLightsOn", "On", "Off", "Dim", "Bright"}

Kinds == {"null", "appliance", "lamp", "applianceLamp", "pir", "irRemote"}
Real  == {"appliance", "lamp", "applianceLamp"}

\* What rules may ask of each class: only a lamp is dimmed.
WishesOf(k) == IF k = "lamp" THEN Wishes ELSE {Off, On}

Devices == [state : States, wanted : States, selected : Selected]

\* A device as constructed; only real devices have a wanted state.
NewDevice(k) == [state    |-> Unknown,
                 wanted   |-> IF k \in Real THEN Off ELSE Unknown,
                 selected |-> "off"]
-----------------------------------------------------------------------------
(* mSelect: an address heard on the mains.  Addresses accumulate until a    *)
(* function uses them; the first address after that starts a new selection.*)
Select(k, d, you) ==
    IF k = "null" THEN d
    ELSE [d EXCEPT !.selected = CASE you        -> "on"
                                  [] ~you /\ @ = "used" -> "off"
                                  [] OTHER      -> @]

IsSelected(d) == d.selected # "off"

\* A function of class k heard by d takes the branch that moves the device.
Moves(k, d, f) ==
    CASE f = "AllUnitsOff" -> k \in Real
      [] f = "AllLightsOn" -> /\ k \in {"lamp", "applianceLamp"}
                              /\ d.state \in {Off, Unknown, RefreshWanted}
      [] f \in {"On", "Off"} -> k \in Real /\ IsSelected(d)
      [] f = "Dim"    -> /\ k = "lamp" /\ IsSelected(d)
                         /\ d.state \in {Off, Unknown} \cup On..(Darkest - 1)
      [] f = "Bright" -> /\ k = "lamp" /\ IsSelected(d)
                         /\ d.state \in {Off, Unknown} \cup Dim(1)..Darkest

\* Variant: the first DIM or BRIGHT of an unlit lamp is taken for a step.
TargetUnlit(d, f) ==
    IF f \in {"AllUnitsOff", "Off"} THEN Off
    ELSE IF f \in {"AllLightsOn", "On"} THEN On
    ELSE IF f = "Dim" THEN d.state + 1 ELSE d.state - 1

\* Where the move ends.  A first DIM or BRIGHT turns an unlit lamp fully on.
Target(d, f) ==
    IF f \in {"AllUnitsOff", "Off"} THEN Off
    ELSE IF f \in {"AllLightsOn", "On"} \/ d.state \in {Off, Unknown} THEN On
    ELSE IF f = "Dim" THEN d.state + 1 ELSE d.state - 1

\* An appliance lamp does not obey AllLightsOn: the house only wants it on.
Shows(k, d, f) ==
    IF Moves(k, d, f)
    THEN IF k = "applianceLamp" /\ f = "AllLightsOn" THEN d.state ELSE Target(d, f)
    ELSE IF k = "lamp" /\ IsSelected(d) /\ f \in {"Dim", "Bright"} /\ d.state = RefreshWanted
    THEN d.wanted
    ELSE IF k = "pir" /\ f = "Off" /\ IsSelected(d) THEN Off ELSE d.state

SelectedAfter(k, d, f) ==
    CASE k \in Real /\ f = "AllUnitsOff" -> "off"
      [] /\ IsSelected(d)
         /\ \/ k \in Real /\ f \in {"On", "Off", "Dim", "Bright"}
            \/ k = "pir"  /\ f \in {"On", "Off"} -> "used"
      [] OTHER -> d.selected

(* mFunction.  A function the house did not send itself (external) is a     *)
(* human at a controller: what it does becomes what is wanted.             *)
Function(k, d, f, external) ==
    [state    |-> Shows(k, d, f),
     wanted   |-> IF external /\ Moves(k, d, f) THEN Target(d, f) ELSE d.wanted,
     selected |-> SelectedAfter(k, d, f)]

\* The rule action an external function leaves for FireDelayedActions.
DelayedAction(k, d, f) ==
    CASE f = "AllUnitsOff" /\ k \in Real                       -> "off"
      [] f = "AllLightsOn" /\ k = "lamp" /\ Moves(k, d, f)     -> "on"
      [] f \in {"On", "Off"} /\ k \in Real \cup {"pir"} /\ IsSelected(d)
                            -> IF f = "On" THEN "on" ELSE "off"
      [] OTHER                                                 -> "none"

\* Variant: a device switched on by hand gets no timeout.
MoveTimerUntimed(k, d, f) ==
    IF Moves(k, d, f) /\ f \in {"AllUnitsOff", "Off"} THEN "cancel" ELSE "keep"

\* What an external function does to the device's timeouts.
MoveTimer(k, d, f) ==
    IF ~Moves(k, d, f) THEN "keep"
    ELSE IF f \in {"AllUnitsOff", "Off"} THEN "cancel" ELSE "twelveHours"

\* mRefreshDevice: forget what a real device shows.
Refresh(k, d) == IF k \in Real THEN [d EXCEPT !.state = RefreshWanted] ELSE d
=============================================================================
