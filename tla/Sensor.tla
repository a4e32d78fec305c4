------------------------------- MODULE Sensor -------------------------------
(***************************************************************************)
(* The motion sensor of the kernel module (sensor.c): the GPIO line, the   *)
(* rising-edge interrupt, the hold timer and the character that my_read    *)
(* gives to the control loop.  Interrupt handler, timer callback and the   *)
(* initial read run concurrently; each reads the line in one step and      *)
(* stores what it saw in a later one.                                      *)
(***************************************************************************)

VARIABLES
  pc,        \* where the module is between insmod and rmmod
  line,      \* the level of SENSOR_GPIO, high while somebody is there
  state,     \* sensor_state
  edge,      \* a rising edge is latched and not yet handled
  handler,   \* hc_sr501_irq_handler
  armed,     \* sensor_hold_timer is pending
  callback,  \* hc_sr501_hold_timeout: "off", or the level it has read
  first,     \* what the initial read has seen
  reported   \* what the last my_read returned

vars == <<pc, line, state, edge, handler, armed, callback, first, reported>>

Phases == {"request", "read", "store", "storeAgain", "up", "unhook", "gone"}
Chars  == {"0", "1"}

(* The type invariant. *)
TypeOK ==
  /\ pc \in Phases
  /\ line \in BOOLEAN /\ edge \in BOOLEAN /\ armed \in BOOLEAN
  /\ state \in Chars /\ first \in Chars /\ reported \in Chars
  /\ handler \in {"off", "store", "arm"}
  /\ callback \in {"off"} \cup Chars

Init ==
  /\ pc = "request"
  /\ line \in BOOLEAN
  /\ state = "0" /\ first = "0" /\ reported = "0"
  /\ edge = FALSE /\ armed = FALSE
  /\ handler = "off" /\ callback = "off"

Level == IF line THEN "1" ELSE "0"

(* Mutant: the interrupt is requested after the initial read. *)
HookedLate == pc \in {"up", "unhook"}

(* Between request_irq and free_irq. *)
Hooked == pc \notin {"request", "gone"}

-----------------------------------------------------------------------------
(* The line.  IRQF_TRIGGER_RISING: only a rise is latched.                 *)

Rise ==
  /\ ~line
  /\ line' = TRUE
  /\ edge' = (edge \/ Hooked)
  /\ UNCHANGED <<pc, state, handler, armed, callback, first, reported>>

Fall ==
  /\ line
  /\ line' = FALSE
  /\ UNCHANGED <<pc, state, edge, handler, armed, callback, first, reported>>

-----------------------------------------------------------------------------
(* hc_sr501_init and hc_sr501_deinit.                                      *)

RequestIrq ==
  /\ pc = "request"
  /\ pc' = "read"
  /\ UNCHANGED <<line, state, edge, handler, armed, callback, first, reported>>

(* The GPIO, its interrupt number or the interrupt is refused. *)
InitFails ==
  /\ pc = "request"
  /\ pc' = "gone"
  /\ UNCHANGED <<line, state, edge, handler, armed, callback, first, reported>>

FirstRead ==
  /\ pc = "read"
  /\ first' = Level
  /\ pc' = "store"
  /\ UNCHANGED <<line, state, edge, handler, armed, callback, reported>>

(* hc_sr501_refresh_state stores what it read, its caller stores it again. *)
FirstStore ==
  /\ pc \in {"store", "storeAgain"}
  /\ state' = first
  /\ pc' = IF pc = "store" THEN "storeAgain" ELSE "up"
  /\ UNCHANGED <<line, edge, handler, armed, callback, first, reported>>

(* Mutant: the timer is left alone. *)
StopNothing ==
  /\ pc = "up"
  /\ callback = "off"
  /\ pc' = "unhook"
  /\ UNCHANGED <<line, state, edge, handler, armed, callback, first, reported>>

(* del_timer_sync waits for a running callback. *)
StopTimer ==
  /\ pc = "up"
  /\ callback = "off"
  /\ armed' = FALSE
  /\ pc' = "unhook"
  /\ UNCHANGED <<line, state, edge, handler, callback, first, reported>>

(* free_irq waits for a running handler. *)
FreeIrq ==
  /\ pc = "unhook"
  /\ handler = "off"
  /\ edge' = FALSE
  /\ pc' = "gone"
  /\ UNCHANGED <<line, state, handler, armed, callback, first, reported>>

-----------------------------------------------------------------------------
(* hc_sr501_irq_handler: a line that is low again is ignored. *)

Interrupt ==
  /\ Hooked
  /\ edge /\ handler = "off"
  /\ edge' = FALSE
  /\ handler' = IF line THEN "store" ELSE "off"
  /\ UNCHANGED <<pc, line, state, armed, callback, first, reported>>

HandlerStores ==
  /\ handler = "store"
  /\ state' = "1"
  /\ handler' = "arm"
  /\ UNCHANGED <<pc, line, edge, armed, callback, first, reported>>

(* Mutant: the handler only stores. *)
HandlerEnds ==
  /\ handler = "arm"
  /\ handler' = "off"
  /\ UNCHANGED <<pc, line, state, edge, armed, callback, first, reported>>

(* mod_timer: two seconds from now, whether or not the timer was pending. *)
HandlerArms ==
  /\ handler = "arm"
  /\ armed' = TRUE
  /\ handler' = "off"
  /\ UNCHANGED <<pc, line, state, edge, callback, first, reported>>

-----------------------------------------------------------------------------
(* hc_sr501_hold_timeout.  The two seconds are long enough for the initial *)
(* read to be over; what a timer does after free_irq is in Driver.         *)

TimerFires ==
  /\ pc \in {"up", "unhook"}
  /\ armed /\ callback = "off"
  /\ armed' = FALSE
  /\ callback' = Level
  /\ UNCHANGED <<pc, line, state, edge, handler, first, reported>>

CallbackStores ==
  /\ pc # "gone"
  /\ callback # "off"
  /\ state' = callback
  /\ callback' = "off"
  /\ UNCHANGED <<pc, line, edge, handler, armed, first, reported>>

-----------------------------------------------------------------------------
(* my_read, which the control loop polls. *)
Read ==
  /\ pc = "up"
  /\ reported' = state
  /\ UNCHANGED <<pc, line, state, edge, handler, armed, callback, first>>

-----------------------------------------------------------------------------
Load   == RequestIrq \/ InitFails \/ FirstRead \/ FirstStore
Unload == StopTimer \/ FreeIrq
Irq    == Interrupt \/ HandlerStores \/ HandlerArms
Timer  == TimerFires \/ CallbackStores

Next == Rise \/ Fall \/ Load \/ Unload \/ Irq \/ Timer \/ Read

(* Interrupts are delivered, a pending timer expires, and the loop polls. *)
Fairness == WF_vars(Irq) /\ WF_vars(Timer) /\ WF_vars(Read)

Spec == Init /\ [][Next]_vars /\ Fairness

-----------------------------------------------------------------------------
(* Somebody is still going to look at the line, or to store that it is     *)
(* high.                                                                   *)
LookPending ==
  \/ edge \/ handler # "off"
  \/ armed

(* A stale low level waiting to be stored, by the timer callback or by the *)
(* initial read, is followed by another look at the line.                  *)
StaleIsRepaired ==
  pc # "gone" /\ line
  /\ (callback = "0" \/ (pc \in {"store", "storeAgain"} /\ first = "0"))
    => LookPending

(* The module never settles on "nobody" while somebody is there: the line  *)
(* may be high and sensor_state '0' only while an edge, the handler, the   *)
(* timer or a read in progress is going to correct it.                     *)
NobodyIsTemporary ==
  pc \in {"store", "storeAgain", "up"} /\ line /\ state = "0"
    => \/ LookPending
       \/ callback = "1"
       \/ pc \in {"store", "storeAgain"} /\ first = "1"

(* The hold timer cannot have fired before the interrupt was hooked. *)
NoEarlyCallback == pc \in {"request", "read"} => callback = "off"

(* The inductive invariant. *)
SensorInv == TypeOK /\ NoEarlyCallback /\ StaleIsRepaired /\ NobodyIsTemporary

(* Somebody who stays is reported, and stays reported. *)
PresenceIsReported == <>[](line /\ pc = "up") => <>[](reported = "1")

(* When nobody is there any more, that is reported.  The code looks at the *)
(* line once, two seconds after the last rising edge, and never again.     *)
AbsenceIsReported == <>[](~line /\ pc = "up") => <>[](reported = "0")
=============================================================================
