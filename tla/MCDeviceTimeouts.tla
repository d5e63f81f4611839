-------------------------- MODULE MCDeviceTimeouts --------------------------
(***************************************************************************)
(* An instance of DeviceTimeouts.  Twelve hours are a few ticks long, and a  *)
(* delay and a step back of the clock together are no longer than that.    *)
(***************************************************************************)
EXTENDS DeviceTimeouts

CONSTANTS d1, d2

MCTwo     == [d \in {d1, d2} |-> IF d = d1 THEN "applianceLamp" ELSE "lamp"]
=============================================================================
