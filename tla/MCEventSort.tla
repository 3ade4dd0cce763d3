---------------------------- MODULE MCEventSort ----------------------------
(* Slices of names out of three, in any order. *)
EXTENDS EventSort

CONSTANTS h1, h2

MCNames == 1 .. 3
AnyOrder == [1 .. N -> Names]
=============================================================================
