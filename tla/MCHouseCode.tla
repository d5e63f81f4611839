---------------------------- MODULE MCHouseCode ----------------------------
(***************************************************************************)
(* An instance of HouseCode: two lamps, an appliance lamp, a sensor and      *)
(* rules that react to what people do.                                     *)
(***************************************************************************)
EXTENDS HouseCode, TLC

\* Two lamps, an appliance lamp, and a sensor that lights the first lamp.
Mixed == <<"lamp", "lamp", "applianceLamp", "pir">>
MCMixed == [u \in 0..3 |-> Mixed[u + 1]]
MCHouseAction == [s \in {"off", "on"} |->
                     IF s = "on" THEN 0 :> On ELSE 0 :> Off @@ 2 :> Off]
MCDeviceAction ==
    [p \in Units \X {"off", "on"} |->
        CASE p = <<3, "on">>  -> 0 :> Dim(1)
          [] p = <<3, "off">> -> 0 :> Off
          [] p = <<0, "off">> -> 2 :> Off
          [] OTHER            -> <<>>]
=============================================================================
