-------------------------------- MODULE Ctrl --------------------------------
(***************************************************************************)
(* The controller's status record and the four calls that change it        *)
(* (core/state).  Each call is an operator from the status before it to    *)
(* the status after it; a call that the code refuses (it returns false)    *)
(* leaves the status as it is.                                             *)
(***************************************************************************)

States        == {"Idle", "Awake", "Unlocked"}
WakeReasons   == {"None", "Motion"}
UnlockReasons == {"None", "Face", "Password"}

Statuses == [state : States, wake : WakeReasons, unlock : UnlockReasons]

Status(state, wake, unlock) ==
  [state |-> state, wake |-> wake, unlock |-> unlock]

(* Ctrl::Ctrl and Ctrl::ResetToIdle leave the same status. *)
IdleStatus == Status("Idle", "None", "None")

WakeFromMotion(s) ==
  IF s.state = "Unlocked" THEN s ELSE Status("Awake", "Motion", "None")

(* The wake reason is kept: a face unlock still tells what woke the lock. *)
UnlockFromFace(s) ==
  IF s.state = "Awake" THEN Status("Unlocked", s.wake, "Face") ELSE s

UnlockFromPassword(s) ==
  IF s.state = "Unlocked" THEN s ELSE Status("Unlocked", s.wake, "Password")

(* Mutants: a reset that keeps the wake reason, and one an open lock       *)
(* refuses.                                                                *)
ResetKeepingWake(s)  == Status("Idle", s.wake, "None")
ResetUnlessOpen(s)   == IF s.state = "Unlocked" THEN s ELSE IdleStatus

ResetToIdle(s) == IdleStatus

(* What the command line can leave in the controller before the loop runs: *)
(* --motion, --face, --password and --reset call the four operations in    *)
(* any order and any number of times.                                      *)
BootStatuses ==
  { IdleStatus,
    Status("Awake", "Motion", "None"),
    Status("Unlocked", "Motion", "Face"),
    Status("Unlocked", "Motion", "Password"),
    Status("Unlocked", "None", "Password") }
=============================================================================
