----------------------------- MODULE MCKeyPath -----------------------------
(* An instance of KeyPath for TLC. *)
EXTENDS KeyPath

MCPassword == <<"2", "5">>
=============================================================================
