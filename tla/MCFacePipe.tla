----------------------------- MODULE MCFacePipe -----------------------------
(* An instance of FacePipe for TLC. *)
EXTENDS FacePipe

MCThreshold == [fp32 |-> 58, i8 |-> 50]
=============================================================================
