------------------------------- MODULE Sweep -------------------------------
(***************************************************************************)
(* The servo as the control loop sees it (SmartLock's variable servo): at  *)
(* most one sweep, which once it has run its first step goes to the unlock *)
(* position and back to the lock position, and is never cut short.  Servo  *)
(* with a single client is shown to implement it.                          *)
(***************************************************************************)
VARIABLE servo

Init == servo = "idle"

Goes(from, to) == servo = from /\ servo' = to

Start     == Goes("idle", "ready")
Opens     == Goes("ready", "open")
Closes    == Goes("open", "close")
Ends      == Goes("close", "idle")
Cancelled == Goes("ready", "idle")

Next == Start \/ Opens \/ Closes \/ Ends \/ Cancelled

Spec == Init /\ [][Next]_servo
=============================================================================
