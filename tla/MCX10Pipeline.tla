--------------------------- MODULE MCX10Pipeline ---------------------------
(***************************************************************************)
(* Instances of X10Pipeline: a lamp beside an appliance lamp, and one lamp. *)
(***************************************************************************)
EXTENDS X10Pipeline

Linked == <<"lamp", "applianceLamp">>
MCHouse == [u \in 0..1 |-> Linked[u + 1]]

MCLamp == [u \in {0} |-> "lamp"]
=============================================================================
