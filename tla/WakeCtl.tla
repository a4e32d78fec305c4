------------------------------- MODULE WakeCtl -------------------------------
(***************************************************************************)
(* The camera's awake window (core/run, wake_ctl.cpp).  deadline_ is kept  *)
(* as the time left until it, as seen from the last `now` the caller read: *)
(* 0 is a deadline that is due, and also time_point::min().  Without a     *)
(* window the code never reads the deadline, and `left` stays 0.           *)
(***************************************************************************)
EXTENDS Naturals

CONSTANTS
  HoldSeconds,  \* WakeCfg::hold_s after ClampHoldSeconds
  UseWindow     \* WakeCfg::use_window

ASSUME HoldAssumption   == HoldSeconds \in Nat \ {0}
ASSUME WindowAssumption == UseWindow \in BOOLEAN

WakeStates == [awake : BOOLEAN, left : 0..HoldSeconds]
WakeEvents == {"None", "Woke", "Slept"}

TimeLeft(left, elapsed) == IF left > elapsed THEN left - elapsed ELSE 0

(* Configure: the window starts asleep, a window-less runtime awake. *)
Configured == [awake |-> ~UseWindow, left |-> 0]

(* The runtime as the next iteration's `now` sees it. *)
Aged(w, elapsed) == [w EXCEPT !.left = TimeLeft(w.left, elapsed)]

Expired(w) == UseWindow /\ w.awake /\ w.left = 0

Woken == [awake |-> TRUE, left |-> IF UseWindow THEN HoldSeconds ELSE 0]

Asleep == [awake |-> FALSE, left |-> 0]

(* Tick: a wake signal re-arms the window before its expiry is looked at. *)
Tick(w, signal) ==
  IF signal THEN Woken ELSE IF Expired(w) THEN Asleep ELSE w

(* Mutant: the expiry is reported before the wake signal is looked at. *)
TickEventExpiryFirst(w, signal) ==
  CASE Expired(w)           -> "Slept"
    [] signal /\ ~w.awake   -> "Woke"
    [] OTHER                -> "None"

TickEvent(w, signal) ==
  CASE signal /\ ~w.awake      -> "Woke"
    [] ~signal /\ Expired(w)   -> "Slept"
    [] OTHER                   -> "None"
=============================================================================
