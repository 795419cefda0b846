---------------------------- MODULE MCAbsorber ------------------------------
(* A small instance of Absorber for TLC. *)
EXTENDS Absorber

CONSTANTS t1, t2, t3, c1, c2, e1
=============================================================================
