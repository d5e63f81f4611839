------------------------------ MODULE Planner ------------------------------
(***************************************************************************)
(* CX10HouseCode (housecode.cpp): the 16 addresses of one house code, how  *)
(* they hear a message, and mUpdateDevices, which plans the X10 messages   *)
(* that bring the devices closer to what the rules want of them.           *)
(*                                                                         *)
(* D is the devices, a function from Units to X10Device's records.  A plan *)
(* is the sequence of messages put on the outgoing queue: the addresses in *)
(* increasing order, then one function, perhaps repeated.                  *)
(***************************************************************************)
EXTENDS X10Device, SequencesExt

CONSTANTS NumUnits,   \* addresses of a house code: 16 in the code
          Kind        \* the class of the device linked at each address

Units == 0..(NumUnits - 1)

ASSUME PlannerAssumption == /\ NumUnits \in Nat \ {0}
                            /\ Kind \in [Units -> Kinds]

AllOffRepeatCount == 3

Address(u) == [type |-> "address", unit |-> u]
Command(f) == [type |-> "function", function |-> f]
Messages   == {Address(u) : u \in Units} \cup {Command(f) : f \in Functions}
-----------------------------------------------------------------------------
(* CX10HouseCode::mSelect and the device part of CX10HouseCode::mFunction.  *)
Hear(D, m, external) ==
    [u \in Units |->
        IF m.type = "address" THEN Select(Kind[u], D[u], m.unit = u)
        ELSE Function(Kind[u], D[u], m.function, external)]

\* Somebody else's AllLightsOn makes an appliance lamp wanted on, unlit.
ApplianceLampsWanted(D, m) ==
    /\ m = Command("AllLightsOn")
    /\ \E u \in Units : Kind[u] = "applianceLamp" /\ Moves(Kind[u], D[u], "AllLightsOn")

\* The devices after the house's own messages p have all come back.
HearAll(D, p) ==
    LET after[n \in 0..Len(p)] == IF n = 0 THEN D ELSE Hear(after[n - 1], p[n], FALSE)
    IN  after[Len(p)]
-----------------------------------------------------------------------------
(* The questions the planner asks of a device; the null device, the sensor *)
(* and the infra red remote answer with CX10AbstractDevice's defaults.     *)

IsReal(u) == Kind[u] \in Real
IsLamp(u) == Kind[u] = "lamp"

StateChangeNeeded(D, u, s)   == IsReal(u) /\ D[u].state # s /\ D[u].wanted = s
StateChangePossible(D, u, s) == IsReal(u) => D[u].wanted = s
StateDimmed(D, u)            == IsLamp(u) /\ D[u].state \in Dim(1)..Darkest

LampOnChangeNeeded(D, u) ==
    IsLamp(u) /\ D[u].state \in {Off, Unknown, RefreshWanted} /\ D[u].wanted \in Lit
LampOnChangePossible(D, u) == IsLamp(u) => D[u].wanted \in Lit

\* mDimIncrementLevelsWanted: DIMs still to send, negative for BRIGHTs.
DimLevels(D, u) ==
    IF IsLamp(u) /\ D[u].wanted # Off /\ D[u].state \notin {Unknown, RefreshWanted}
    THEN D[u].wanted - D[u].state
    ELSE 0

\* The addresses S in increasing order, then n times the function f.
Nth(S, i) == CHOOSE u \in S : Cardinality({v \in S : v < u}) = i - 1
Order(S, f, n) ==
    [i \in 1..Cardinality(S) |-> Address(Nth(S, i))] \o [i \in 1..n |-> Command(f)]
-----------------------------------------------------------------------------
(* The alternatives mUpdateDevices tries in turn; <<>> when one does not    *)
(* apply.                                                                  *)

UpdateAllUnitsOff(D) ==
    IF /\ \E u \in Units : StateChangeNeeded(D, u, Off)
       /\ \/ \A u \in Units : StateChangePossible(D, u, Off)
          \/ \A u \in Units : D[u].state = Unknown
    THEN Order({}, "AllUnitsOff", AllOffRepeatCount)
    ELSE <<>>

UpdateBrightUnknown(D) ==
    LET S == {u \in Units : IsLamp(u) /\ D[u].wanted # Off /\ D[u].state = Unknown}
    IN  IF S # {} THEN Order(S, "Bright", MaxDim) ELSE <<>>

\* Variant: lamps that are wanted off do not stop an AllLightsOn.
UpdateAllLightsOnAnyway(D) ==
    IF \E u \in Units : LampOnChangeNeeded(D, u) THEN Order({}, "AllLightsOn", 1) ELSE <<>>

UpdateAllLightsOn(D) ==
    IF /\ \E u \in Units : LampOnChangeNeeded(D, u)
       /\ \A u \in Units : LampOnChangePossible(D, u)
    THEN Order({}, "AllLightsOn", 1)
    ELSE <<>>

UpdateOn(D) ==
    LET S == {u \in Units : StateChangeNeeded(D, u, On) /\ ~StateDimmed(D, u)}
    IN  IF S # {} THEN Order(S, "On", 1) ELSE <<>>

UpdateOff(D) ==
    LET S == {u \in Units : IsReal(u) /\ D[u].wanted = Off /\ D[u].state # Off}
    IN  IF S # {} THEN Order(S, "Off", 1) ELSE <<>>

\* Variant: one step too many.
UpdateLevelsAndOne(f, levels) ==
    LET steps == {levels[u] : u \in Units} \cap 1..MaxDim
    IN  IF steps # {}
        THEN Order({u \in Units : levels[u] >= Min(steps)}, f, Min(steps) + 1)
        ELSE <<>>

\* The lamps furthest along share the smallest number of steps; iMinimumLevels
\* starts at 18 in the code, so only smaller distances count.
UpdateLevels(f, levels) ==
    LET steps == {levels[u] : u \in Units} \cap 1..MaxDim
    IN  IF steps # {}
        THEN Order({u \in Units : levels[u] >= Min(steps)}, f, Min(steps))
        ELSE <<>>

UpdateDim(D)    == UpdateLevels("Dim",    [u \in Units |-> DimLevels(D, u)])
UpdateBright(D) == UpdateLevels("Bright", [u \in Units |-> -DimLevels(D, u)])

OrElse(p, q) == IF p # <<>> THEN p ELSE q

\* mUpdateDevices: the first alternative that makes a message; <<>> when it
\* returns false.
Plan(D) ==
    OrElse(UpdateAllUnitsOff(D), OrElse(UpdateBrightUnknown(D), OrElse(UpdateAllLightsOn(D),
    OrElse(UpdateOn(D), OrElse(UpdateOff(D), OrElse(UpdateDim(D), UpdateBright(D)))))))
-----------------------------------------------------------------------------
(* What it is for a device to be left as it is.                             *)

Settled(D, u) == IsReal(u) => D[u].state = D[u].wanted

\* A lamp to be refreshed at a DIM level: mFunctionDim says "just assume it is ok".
AssumedOk(D, u) == IsLamp(u) /\ D[u].state = RefreshWanted /\ D[u].wanted \in Dim(1)..Darkest

\* A lamp 18 DIMs away from what is wanted of it.
OutOfReach(D, u) == IsLamp(u) /\ D[u].state = Off /\ D[u].wanted = Darkest

NothingToSend(D, u) == Settled(D, u) \/ AssumedOk(D, u) \/ OutOfReach(D, u)
=============================================================================
