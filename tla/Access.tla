------------------------------- MODULE Access -------------------------------
(***************************************************************************)
(* What the lock promises whoever watches its printed status: a session    *)
(* begins when something wakes the lock, a face opens it only within a     *)
(* session, a password opens it at any time, and whoever opened it stays   *)
(* the one it reports until it is shut, which ends the session.            *)
(* SmartLock is shown to implement it.                                     *)
(***************************************************************************)
VARIABLES
  open,     \* the lock is open
  opener,   \* who opened it: "None", "Face" or "Password"
  session   \* something woke the lock since it was last idle

Init ==
  \/ ~open /\ opener = "None" /\ session \in BOOLEAN
  \/ open /\ opener = "Face" /\ session
  \/ open /\ opener = "Password" /\ session \in BOOLEAN

BeginSession ==
  /\ ~open
  /\ session' = TRUE
  /\ UNCHANGED <<open, opener>>

Recognise ==
  /\ ~open /\ session
  /\ open' = TRUE /\ opener' = "Face"
  /\ UNCHANGED session

Enter ==
  /\ ~open
  /\ open' = TRUE /\ opener' = "Password"
  /\ UNCHANGED session

Shut == open' = FALSE /\ opener' = "None" /\ session' = FALSE

Next == BeginSession \/ Recognise \/ Enter \/ Shut

Spec == Init /\ [][Next]_<<open, opener, session>>
=============================================================================
