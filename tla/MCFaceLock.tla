----------------------------- MODULE MCFaceLock -----------------------------
(* An instance of FaceLock for TLC. *)
EXTENDS FaceLock

MCPassword  == <<"2", "5">>
MCThreshold == [fp32 |-> 58, i8 |-> 50]
=============================================================================
