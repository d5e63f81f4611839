------------------------------- MODULE MCX10Link -------------------------------
(***************************************************************************)
(* The link with messages of three bits (nine in the code): two of our     *)
(* own, that differ in two bits, and two of the other transmitter's, one   *)
(* of them the same as ours, the other one bit away from both.             *)
(***************************************************************************)
EXTENDS X10Link, TLC

M(a, b, c) == <<a = 1, b = 1, c = 1>>
MCMessages == {M(1, 0, 1), M(0, 1, 0)}
MCForeign == {M(1, 0, 1), M(0, 0, 1)}
\* with house M, unit 13
MCWithM13 == {M(0, 0, 0), M(0, 1, 0)}
=============================================================================
