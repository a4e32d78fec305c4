------------------------------ MODULE KeyPath ------------------------------
(***************************************************************************)
(* The way of a key press when the control loop runs with --keypad-only:   *)
(* PollKey asks the driver for the key with KEY_IOCTL_GET_KEY, and the     *)
(* loop edits its own buffer (Keypad) and knows its own password.  The     *)
(* driver's processing of keys (KeyDriver) is not on that way; it is       *)
(* carried along as what the same presses make of it when a program        *)
(* processes them with KEY_IOCTL_SCAN, as key_test does, which also        *)
(* empties the driver's buffer at times.  Presses the loop does not poll,  *)
(* because the lock is open, are left out.                                 *)
(***************************************************************************)
EXTENDS KeyDriver

VARIABLES
  buffer,     \* password_input of the loop
  opened,     \* the last press unlocked
  cleared     \* the driver's buffer was emptied since the last confirmation

pathVars == <<buffer, opened, cleared, vars>>

(* "letter" is what the loop sees of any of the letters. *)
ASSUME LoopAssumption == "letter" \notin Digits

(* kPassword and correct_password are compiled in with the same digits. *)
Loop == INSTANCE Keypad WITH Password <- FirstPassword

PathInit == buffer = <<>> /\ opened = FALSE /\ cleared = FALSE /\ Init

(* The loop does not tell the letters apart. *)
Press(key) ==
  LET asSeen == IF key \in Letters THEN "letter" ELSE key
  IN  /\ buffer' = Loop!AfterKey(buffer, asSeen)
      /\ opened' = Loop!Confirms(buffer, asSeen)
      /\ cleared' = (cleared /\ key # "#")
      /\ Scan(key)

(* KEY_IOCTL_CLEAR *)
DriverClears ==
  /\ cleared' = TRUE
  /\ opened' = FALSE
  /\ Clear
  /\ UNCHANGED buffer

PathNext == (\E key \in Keys : Press(key)) \/ DriverClears

PathSpec == PathInit /\ [][PathNext]_pathVars

-----------------------------------------------------------------------------
(* The type invariant: no index of the driver ever leaves its array, and   *)
(* neither does the loop's buffer outgrow the password.                    *)
PathTypeOK ==
  /\ TypeOK
  /\ buffer \in Loop!Buffers
  /\ opened \in BOOLEAN /\ cleared \in BOOLEAN

(* Both keep the same input while no change of password is under way, also *)
(* across a change that was started in the middle of an input, unless the  *)
(* driver's buffer was emptied behind the loop's back.                     *)
SameInput == ~driver.changing /\ ~cleared => buffer = driver.buffer

(* The type invariant, and: the driver follows the sequence exactly, and   *)
(* both keep the same input.                                               *)
PathInv == PathTypeOK /\ ProgressIsExact /\ SameInput

(* As long as the password is the one both are compiled with, the loop     *)
(* opens for exactly what the driver would turn the LED on for.            *)
SameUntilChanged ==
  [][~driver.changing /\ ~cleared /\ driver.password = FirstPassword
     => /\ opened' => driver'.led
        /\ driver'.led /\ ~driver.led => opened']_pathVars
=============================================================================
