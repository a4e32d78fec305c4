----------------------------- MODULE CameraLife -----------------------------
(***************************************************************************)
(* What the face pipe promises about its camera: the first wake opens it,  *)
(* a sleep keeps it, the next wake resumes it without opening it again,    *)
(* and only a client that deactivates the pipe closes it.  FacePipe is     *)
(* shown to implement it.                                                  *)
(***************************************************************************)
VARIABLES
  mayClose,   \* the client deactivates the pipe
  held,       \* the capture pipeline exists
  used        \* the pipe reads its frames

Init == mayClose \in BOOLEAN /\ ~held /\ ~used

Open   == ~held /\ held' = TRUE /\ used' = TRUE
Rest   == held /\ used' = FALSE /\ UNCHANGED held
Resume == held /\ ~used /\ used' = TRUE /\ UNCHANGED held
Close  == mayClose /\ held' = FALSE /\ used' = FALSE

Next == (Open \/ Rest \/ Resume \/ Close) /\ UNCHANGED mayClose

Spec == Init /\ [][Next]_<<mayClose, held, used>>
=============================================================================
