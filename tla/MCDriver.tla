------------------------------ MODULE MCDriver ------------------------------
(* An instance of Driver for TLC. *)
EXTENDS Driver

MCRows == <<"row1", "row2">>
MCCols == <<"col1">>
=============================================================================
