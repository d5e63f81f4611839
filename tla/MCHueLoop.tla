----------------------------- MODULE MCHueLoop -----------------------------
(***************************************************************************)
(* Instances of HueLoop: two house codes, two lamps in the first, with all *)
(* the DIM levels of the code; and one lamp alone.                         *)
(***************************************************************************)
EXTENDS HueLoop

CONSTANTS l1, l2, l3

MCHouse == <<<<l1, l2>>, <<l3>>>>
MCOne   == <<<<l1>>>>

Wish(s, c, o) == [state |-> s, colour |-> c, loop |-> o]
MCWishes == {Wish(Off, 0, FALSE), Wish(Darkest, 0, FALSE), Wish(On, 1, TRUE)}

MCAllKnown == {l1, l2, l3}
MCOneKnown == {l1}
=============================================================================
