---------------------------- MODULE MCSmartLock ----------------------------
(* Instances of SmartLock for TLC. *)
EXTENDS SmartLock

MCPassword == <<"2", "5">>
MCIdleBoot == {IdleStatus}
=============================================================================
