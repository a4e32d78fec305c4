------------------------------- MODULE Driver -------------------------------
(***************************************************************************)
(* The life of the kernel module (mydev_init and mydev_exit in main.c): an *)
(* insmod takes eight steps, a failing step runs its own error path, an    *)
(* rmmod gives everything back in yet another order.  What the kernel      *)
(* holds outlives the module's memory: a pin that an error path forgets is *)
(* still taken at the next insmod.  The motion sensor (Sensor) runs with   *)
(* its interrupt and timer all the while.                                  *)
(***************************************************************************)
EXTENDS Sensor, SequencesExt

CONSTANTS
  RowPins, ColPins,  \* row_gpios and col_gpios
  Autostart,         \* servo_autostart
  Foreign            \* the pins another driver may hold

KeyPins  == RowPins \o ColPins
Pins     == {"led", "servo", "sensor"} \cup Range(KeyPins)
Objects  == {"oled", "chrdev", "class", "device"}

LoadOrder ==
  <<"led", "servo", "sensor", "oled", "keys", "chrdev", "class", "device">>

(* Mutant: mydev_exit forgets the key matrix. *)
ExitWithoutKeys ==
  <<"device", "class", "oled", "sensor", "servo", "led", "chrdev">>

ExitOrder ==
  <<"device", "class", "keys", "oled", "sensor", "servo", "led", "chrdev">>

ASSUME PinAssumption ==
  /\ KeyPins \in Seq(Range(KeyPins))
  /\ Range(KeyPins) \cap ({"led", "servo", "sensor"} \cup Objects) = {}
  /\ Autostart \in BOOLEAN
  /\ Foreign \subseteq Pins

VARIABLES
  stage,   \* the step of insmod, or "undo", "up", "out", "crashed"
  todo,    \* the calls that are left of an error path or of mydev_exit
  owner,   \* who holds each pin and each kernel object
  servoUp, \* servo_initialized
  thread,  \* the servo thread is running
  loaded,  \* this module image has been up
  orphan,  \* something of an unloaded image is still going to run
  causes   \* what has left such things behind

driverVars == <<stage, todo, owner, servoUp, thread, loaded, orphan, causes>>
allVars    == <<vars, driverVars>>

ImageInit ==  \* what a fresh image of the module holds
  /\ state' = "0" /\ first' = "0" /\ reported' = "0"
  /\ edge' = FALSE /\ armed' = FALSE
  /\ handler' = "off" /\ callback' = "off"

DriverInit ==
  /\ pc = "gone" /\ line \in BOOLEAN
  /\ state = "0" /\ first = "0" /\ reported = "0"
  /\ edge = FALSE /\ armed = FALSE /\ handler = "off" /\ callback = "off"
  /\ stage = "out" /\ todo = <<>>
  /\ \E other \in {{}} \cup {{pin} : pin \in Foreign} :
       owner = [r \in Pins \cup Objects |->
                  IF r \in other THEN "other" ELSE "free"]
  /\ servoUp = FALSE /\ thread = FALSE /\ loaded = FALSE
  /\ orphan = FALSE /\ causes = {}

Ours == {r \in DOMAIN owner : owner[r] = "ours"}

(* gpio_request, and what else takes a resource. *)
Take(rs) == owner' = [r \in DOMAIN owner |-> IF r \in rs THEN "ours" ELSE owner[r]]

(* gpio_free, and what else gives one back, does not ask who holds it. *)
Free(rs) == owner' = [r \in DOMAIN owner |-> IF r \in rs THEN "free" ELSE owner[r]]

After(step) ==
  IF step = Last(LoadOrder) THEN "up"
  ELSE LoadOrder[CHOOSE i \in 2..Len(LoadOrder) : LoadOrder[i - 1] = step]

-----------------------------------------------------------------------------
(* mydev_init.                                                             *)

Insmod ==
  /\ stage = "out"
  /\ ImageInit
  /\ stage' = "led" /\ loaded' = FALSE
  /\ servoUp' = FALSE /\ thread' = FALSE
  /\ UNCHANGED <<pc, line, todo, owner, orphan, causes>>

(* A step that takes one resource and is done.                             *)
Succeeds(step) ==
  /\ stage = step
  /\ step \in {"led", "oled", "chrdev", "class", "device"}
  /\ owner[step] = "free"
  /\ Take({step})
  /\ stage' = After(step)
  /\ loaded' = (step = Last(LoadOrder))
  /\ UNCHANGED <<vars, todo, servoUp, thread, orphan, causes>>

ServoSucceeds ==
  /\ stage = "servo"
  /\ owner["servo"] = "free"
  /\ Take({"servo"})
  /\ servoUp' = TRUE /\ thread' = Autostart
  /\ stage' = After("servo")
  /\ UNCHANGED <<vars, todo, loaded, orphan, causes>>

(* hc_sr501_init takes its pin, then requests the interrupt (Sensor). *)
SensorBegins ==
  /\ stage = "sensor" /\ pc = "gone"
  /\ owner["sensor"] = "free"
  /\ Take({"sensor"})
  /\ pc' = "request"
  /\ UNCHANGED <<line, state, edge, handler, armed, callback, first, reported,
                 stage, todo, servoUp, thread, loaded, orphan, causes>>

SensorWorks ==
  /\ stage = "sensor"
  /\ RequestIrq \/ FirstRead \/ FirstStore
  /\ stage' = IF pc' = "up" THEN After("sensor") ELSE stage
  /\ UNCHANGED <<todo, owner, servoUp, thread, loaded, orphan, causes>>

KeysSucceed ==
  /\ stage = "keys"
  /\ \A pin \in Range(KeyPins) : owner[pin] = "free"
  /\ Take(Range(KeyPins))
  /\ stage' = After("keys")
  /\ UNCHANGED <<vars, todo, servoUp, thread, loaded, orphan, causes>>

-----------------------------------------------------------------------------
(* The error paths.                                                        *)

(* What mydev_init calls when a step fails: the sensor's path forgets the  *)
(* servo, the last three paths forget the key matrix.                      *)
ErrorPath(step) ==
  CASE step = "led"    -> <<>>
    [] step = "servo"  -> <<"servo", "servo", "led">>
    [] step = "sensor" -> <<"led">>
    [] step = "oled"   -> <<"sensor", "servo", "led">>
    [] step = "class"  -> <<"chrdev", "oled", "sensor", "servo", "led">>
    [] step = "device" -> <<"class", "chrdev", "oled", "sensor", "servo", "led">>
    [] OTHER           -> <<"oled", "sensor", "servo", "led">>

Abandon(step) ==
  /\ stage = step
  /\ stage' = "undo"
  /\ todo' = ErrorPath(step)
  /\ causes' = causes \cup (IF step = "sensor" /\ thread THEN {"forgotten thread"} ELSE {})
  /\ UNCHANGED <<loaded, orphan>>

(* The resource is taken, or is refused for a reason of its own. *)
Fails(step) ==
  /\ step \in {"led", "oled", "chrdev", "class", "device"}
  /\ Abandon(step)
  /\ UNCHANGED <<vars, owner, servoUp, thread>>

(* Without the pin, or with the pin and no thread. *)
ServoFails ==
  /\ Abandon("servo")
  /\ \/ UNCHANGED <<owner, servoUp>>
     \/ /\ owner["servo"] = "free" /\ Autostart
        /\ Take({"servo"}) /\ servoUp' = TRUE
  /\ UNCHANGED <<vars, thread>>

(* Mutant: the pin is freed although its request has failed. *)
SensorFailsFreely ==
  /\ Abandon("sensor")
  /\ \/ pc = "gone" /\ Free({"sensor"}) /\ UNCHANGED vars
     \/ InitFails /\ Free({"sensor"})
  /\ UNCHANGED <<servoUp, thread>>

SensorFails ==
  /\ Abandon("sensor")
  /\ \/ pc = "gone" /\ UNCHANGED <<vars, owner>>
     \/ InitFails /\ Free({"sensor"})
  /\ UNCHANGED <<servoUp, thread>>

(* Mutant: only what this call has taken is given back. *)
KeysFailBefore(i) ==
  /\ Abandon("keys")
  /\ \A j \in 1..i - 1 : owner[KeyPins[j]] = "free"
  /\ Free({KeyPins[j] : j \in 1..i - 1})
  /\ UNCHANGED <<vars, servoUp, thread>>

(* key_matrix_init requests its pins in turn; its error path frees the     *)
(* failing one as well, whoever holds it, and all rows before the columns. *)
(* The one index past the rows names no pin that anyone holds: the next    *)
(* static variable is col_gpios, whose first pin has just been freed, or   *)
(* the digits of a password.                                               *)
KeysFail(i) ==
  /\ Abandon("keys")
  /\ \A j \in 1..i - 1 : owner[KeyPins[j]] = "free"
  /\ Free({KeyPins[j] : j \in 1..i})
  /\ UNCHANGED <<vars, servoUp, thread>>

-----------------------------------------------------------------------------
(* Giving back: the head of todo.                                          *)

Rmmod ==
  /\ stage = "up"
  /\ stage' = "undo"
  /\ todo' = ExitOrder
  /\ UNCHANGED <<vars, owner, servoUp, thread, loaded, orphan, causes>>

Undo(call) ==
  /\ stage = "undo" /\ todo # <<>> /\ call = Head(todo)
  /\ todo' = Tail(todo)
  /\ UNCHANGED <<stage, loaded, orphan, causes>>

UndoPlain ==
  \E call \in {"led", "oled", "chrdev", "class", "device", "keys"} :
    /\ Undo(call)
    /\ Free(IF call = "keys" THEN Range(KeyPins) ELSE {call})
    /\ UNCHANGED <<vars, servoUp, thread>>

(* Mutant: servo_initialized is never reset. *)
UndoServoStillUp ==
  /\ Undo("servo")
  /\ IF servoUp THEN Free({"servo"}) /\ thread' = FALSE
                ELSE UNCHANGED <<owner, thread>>
  /\ UNCHANGED <<vars, servoUp>>

(* servo_deinit stops the thread; without servo_initialized it returns. *)
UndoServo ==
  /\ Undo("servo")
  /\ IF servoUp
     THEN Free({"servo"}) /\ servoUp' = FALSE /\ thread' = FALSE
     ELSE UNCHANGED <<owner, servoUp, thread>>
  /\ UNCHANGED vars

(* hc_sr501_deinit: the timer, the interrupt, the pin. *)
UndoSensor ==
  \/ /\ stage = "undo" /\ todo # <<>> /\ Head(todo) = "sensor"
     /\ StopTimer
     /\ UNCHANGED driverVars
  \/ /\ Undo("sensor")
     /\ FreeIrq
     /\ Free({"sensor"})
     /\ UNCHANGED <<servoUp, thread>>

(* The image is unloaded.  A timer that is pending, a callback in progress *)
(* and a thread that runs still point into it.                             *)
Unloaded ==
  /\ stage = "undo" /\ todo = <<>>
  /\ stage' = "out"
  /\ orphan' = (orphan \/ armed \/ callback # "off" \/ thread)
  /\ armed' = FALSE /\ callback' = "off" /\ thread' = FALSE
  /\ UNCHANGED <<pc, line, state, edge, handler, first, reported,
                 todo, owner, servoUp, loaded, causes>>

(* An orphan runs. *)
Crash ==
  /\ orphan /\ stage # "crashed"
  /\ stage' = "crashed"
  /\ pc' = "gone"
  /\ UNCHANGED <<line, state, edge, handler, armed, callback, first, reported,
                 todo, owner, servoUp, thread, loaded, orphan, causes>>

-----------------------------------------------------------------------------
(* What runs meanwhile.                                                    *)

(* An edge between del_timer_sync and free_irq arms the timer again. *)
SensorRuns ==
  /\ stage # "crashed"
  /\ Rise \/ Fall \/ Irq \/ Timer
  /\ causes' = causes \cup (IF pc = "unhook" /\ armed' /\ ~armed
                            THEN {"late edge"} ELSE {})
  /\ UNCHANGED <<stage, todo, owner, servoUp, thread, loaded, orphan>>

(* It expires, and its callback ends, while the image is still there. *)
LateTimer ==
  /\ stage = "undo" /\ pc = "gone"
  /\ \/ /\ armed /\ callback = "off"
        /\ armed' = FALSE /\ callback' = Level
        /\ UNCHANGED state
     \/ /\ callback # "off"
        /\ state' = callback /\ callback' = "off"
        /\ UNCHANGED armed
  /\ UNCHANGED <<pc, line, edge, handler, first, reported, driverVars>>

ThreadRuns ==
  /\ \/ stage = "up" /\ ~thread /\ thread' = TRUE
     \/ thread /\ thread' = FALSE
  /\ stage # "crashed"
  /\ UNCHANGED <<vars, stage, todo, owner, servoUp, loaded, orphan, causes>>

Reads == stage = "up" /\ Read /\ UNCHANGED driverVars

-----------------------------------------------------------------------------
LoadStep ==
  \/ \E step \in Range(LoadOrder) : Succeeds(step) \/ Fails(step)
  \/ ServoSucceeds \/ ServoFails
  \/ SensorBegins \/ SensorWorks \/ SensorFails
  \/ KeysSucceed \/ \E i \in DOMAIN KeyPins : KeysFail(i)

UndoStep == UndoPlain \/ UndoServo \/ UndoSensor \/ Unloaded

Crashed == stage = "crashed" /\ UNCHANGED allVars

DriverNext ==
  \/ Insmod \/ LoadStep \/ Rmmod \/ UndoStep \/ Crash \/ Crashed
  \/ SensorRuns \/ LateTimer \/ ThreadRuns \/ Reads

(* A system call that is under way goes on, interrupts are delivered, a    *)
(* pending timer expires, and the control loop polls.                      *)
DriverSpec ==
  /\ DriverInit /\ [][DriverNext]_allVars
  /\ WF_allVars(LoadStep) /\ WF_allVars(UndoStep)
  /\ WF_allVars(Irq /\ SensorRuns) /\ WF_allVars(Timer /\ SensorRuns)
  /\ WF_allVars(Reads)

-----------------------------------------------------------------------------
(* The type invariant. *)
DriverTypeOK ==
  /\ TypeOK
  /\ stage \in Range(LoadOrder) \cup {"up", "undo", "out", "crashed"}
  /\ todo \in Seq(Range(LoadOrder)) /\ Len(todo) <= Len(ExitOrder)
  /\ owner \in [Pins \cup Objects -> {"free", "ours", "other"}]
  /\ servoUp \in BOOLEAN /\ thread \in BOOLEAN /\ loaded \in BOOLEAN /\ orphan \in BOOLEAN
  /\ causes \subseteq {"late edge", "forgotten thread"}

(* What the image believes it has is what the kernel holds for it: the     *)
(* servo's flag and its pin, the sensor's interrupt and its pin, and all   *)
(* there is once it is up.                                                 *)
DriverInv ==
  /\ DriverTypeOK
  /\ servoUp => owner["servo"] = "ours"
  /\ thread => servoUp
  /\ pc # "gone" => owner["sensor"] = "ours"
  /\ stage = "up" => Ours = DOMAIN owner

(* A module that was up and is removed leaves nothing taken.  A load that  *)
(* fails leaves at most the servo's pin or keypad pins taken, whatever the *)
(* loads before it have left.                                              *)
OnlyKnownLeaks ==
  stage = "out" => Ours \subseteq IF loaded THEN {} ELSE {"servo"} \cup Range(KeyPins)

(* Code of an unloaded image runs only after an edge between               *)
(* del_timer_sync and free_irq, or after a sensor that failed while the    *)
(* servo was sweeping.                                                     *)
OrphanHasCause == orphan => causes # {}

(* The driver takes a pin from another one in one place only: the keypad   *)
(* pin whose request has just failed.                                      *)
OthersKeepTheirs ==
  [][\A pin \in Pins :
       owner[pin] = "other" /\ owner'[pin] # "other"
         => /\ stage = "keys" /\ stage' = "undo"
            /\ pin \in Range(KeyPins)
            /\ \A r \in Range(KeyPins) \ {pin} : owner'[r] # "other"]_allVars

(* A servo pin that was left taken keeps the module from ever loading.     *)
LeakedServoBlocks ==
  [](stage = "out" /\ owner["servo"] = "ours" => [](stage # "up"))

(* A step of insmod fails although all it needs is free. *)
BadLuck ==
  /\ stage \in Range(LoadOrder) /\ stage' = "undo"
  /\ IF stage = "keys"
     THEN ~\E i \in DOMAIN KeyPins : owner[KeyPins[i]] # "free" /\ KeysFail(i)
     ELSE owner[stage] = "free" \/ pc = "request"

(* Keypad pins that were left taken heal: each insmod that finds one taken *)
(* frees it on its error path, so whoever keeps trying gets the module up. *)
RetriesSucceed ==
  (/\ []<>(stage = "led") /\ <>[][~BadLuck]_allVars
   /\ [](stage = "out" => \A pin \in {"led", "servo", "sensor"} :
                            owner[pin] = "free"))
  => <>(stage = "up" \/ stage = "crashed")

(* A failed load costs the next ones nothing but a forgotten servo pin.    *)
OnlyServoLeakLasts == LeakedServoBlocks /\ RetriesSucceed
=============================================================================
