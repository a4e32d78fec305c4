----------------------------- MODULE WakeWindow -----------------------------
(***************************************************************************)
(* class WakeCtl of core/run with the points in time the code keeps: the   *)
(* deadline is absolute and compared with the `now` of the call.  WakeCtl  *)
(* (the module) has the relative form the control loop is modelled with;   *)
(* RelativeFormIsExact relates the two.                                    *)
(***************************************************************************)
EXTENDS WakeCtl, Integers

CONSTANTS
  Gaps,     \* the times that may pass between two calls
  Horizon   \* bound of the clock

ASSUME ClockAssumption == Gaps \subseteq Nat /\ Horizon \in Nat

VARIABLES
  now,       \* the `now` of the last call
  awake,     \* awake_
  deadline,  \* deadline_
  event,     \* what the last call returned
  last       \* when the last wake signal came

vars == <<now, awake, deadline, event, last>>

(* time_point::min() and time_point::max() *)
Always == 0
Never  == Horizon + HoldSeconds + 1

(* The type invariant. *)
TypeOK ==
  /\ now \in 0..Horizon
  /\ awake \in BOOLEAN
  /\ deadline \in 0..Never
  /\ event \in WakeEvents
  /\ last \in 0..Horizon

(* Configure, with what the control loop asks for. *)
Init ==
  /\ now \in 0..Horizon
  /\ awake = ~UseWindow
  /\ deadline = Always
  /\ event = "None"
  /\ last = now

(* Mutant: only a signal that finds the window asleep sets the deadline.   *)
WakeOnce(elapsed) ==
  /\ now + elapsed <= Horizon
  /\ now' = now + elapsed
  /\ event' = IF awake THEN "None" ELSE "Woke"
  /\ awake' = TRUE
  /\ deadline' = IF awake THEN deadline ELSE now' + HoldSeconds
  /\ last' = now'

(* WakeCtl::Wake, which is also what Tick does with a signal. *)
Wake(elapsed) ==
  /\ now + elapsed <= Horizon
  /\ now' = now + elapsed
  /\ event' = IF awake THEN "None" ELSE "Woke"
  /\ awake' = TRUE
  /\ deadline' = IF UseWindow THEN now' + HoldSeconds ELSE Never
  /\ last' = now'

(* Mutant: the deadline itself still counts as awake. *)
QuietLate(elapsed) ==
  /\ now + elapsed <= Horizon
  /\ now' = now + elapsed
  /\ IF UseWindow /\ awake /\ now' > deadline
     THEN awake' = FALSE /\ deadline' = Always /\ event' = "Slept"
     ELSE event' = "None" /\ UNCHANGED <<awake, deadline>>
  /\ UNCHANGED last

(* Tick without a signal. *)
Quiet(elapsed) ==
  /\ now + elapsed <= Horizon
  /\ now' = now + elapsed
  /\ IF UseWindow /\ awake /\ now' >= deadline
     THEN awake' = FALSE /\ deadline' = Always /\ event' = "Slept"
     ELSE event' = "None" /\ UNCHANGED <<awake, deadline>>
  /\ UNCHANGED last

(* Sleep, called by the loop when the camera did not wake. *)
Sleep ==
  /\ awake /\ UseWindow
  /\ awake' = FALSE /\ deadline' = Always /\ event' = "Slept"
  /\ UNCHANGED <<now, last>>

Next == (\E elapsed \in Gaps : Wake(elapsed) \/ Quiet(elapsed)) \/ Sleep

Spec == Init /\ [][Next]_vars

-----------------------------------------------------------------------------
(* The window stays open for exactly HoldSeconds of quiet: it is not open  *)
(* longer, ...                                                             *)
OpenMeansRecent ==
  UseWindow /\ awake => now < last + HoldSeconds /\ deadline = last + HoldSeconds

(* ... and a tick does not close it earlier.                               *)
ExpiryMeansQuiet ==
  [][event' = "Slept" /\ now' # now => now' >= last + HoldSeconds]_vars

(* The inductive invariant. *)
WindowInv == TypeOK /\ OpenMeansRecent

(* The state as the control loop's model keeps it. *)
View == [awake |-> awake, left |-> IF UseWindow THEN TimeLeft(deadline, now) ELSE 0]

(* Each call does to the relative form what Aged, Tick and Asleep say, and *)
(* returns the same event.                                                 *)
RelativeStep(elapsed, signal) ==
  /\ View' = Tick(Aged(View, elapsed), signal)
  /\ event' = TickEvent(Aged(View, elapsed), signal)

RelativeFormIsExact ==
  [][\/ \E signal \in BOOLEAN : RelativeStep(now' - now, signal)
     \/ now' = now /\ View' = Asleep]_vars
=============================================================================
