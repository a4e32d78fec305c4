----------------------------- MODULE SmartLock -----------------------------
(***************************************************************************)
(* The lock's control loop (app/ctl/src/main.cpp) together with what it    *)
(* drives: the controller's status, the camera's awake window, the         *)
(* password buffer, the face pipe's camera and the servo thread of the     *)
(* kernel module.                                                          *)
(*                                                                         *)
(* One iteration of the loop is the cycle of phases                        *)
(*                                                                         *)
(*   top -> camera -> act -> face -> expire -> finish -> top               *)
(*                     |                         ^                         *)
(*                     +-> reading -> stopping --+      (when unlocked)    *)
(*                                                                         *)
(* and the servo thread runs between them.  Time is what passes between    *)
(* two reads of `now`, one per iteration, so a deadline is the time left   *)
(* until it.  A blocking call (a frame read takes up to 5 s) lengthens the *)
(* gap to the next iteration.                                              *)
(***************************************************************************)
EXTENDS Ctrl, WakeCtl, Keypad

CONSTANTS
  FaceOnly,        \* --face-only
  MatchRequired,   \* --face-match-required
  UnlockSeconds,   \* unlock_hold_seconds
  Gaps,            \* the times that may pass between two iterations
  Boots            \* the statuses the command line may leave before the loop

ASSUME ModeAssumption == FaceOnly \in BOOLEAN /\ MatchRequired \in BOOLEAN
ASSUME TimeAssumption == UnlockSeconds \in Nat \ {0} /\ Gaps \subseteq Nat \ {0}
ASSUME BootAssumption == Boots \subseteq BootStatuses

KeypadOnly == ~UseWindow

VARIABLES
  pc,           \* where the loop is
  ctrl,         \* the controller's status
  runtime,      \* camera_runtime: the awake window
  signal,       \* wake_signal of this iteration
  event,        \* wake_event of this iteration
  input,        \* password_input
  unlockLeft,   \* the time left until unlock_deadline
  facePending,  \* face_wake_pending
  camera,       \* the face pipe's source_active
  servo,        \* the servo thread
  led           \* the LED as last written

vars == <<pc, ctrl, runtime, signal, event, input, unlockLeft, facePending,
          camera, servo, led>>

(* "reading" and "stopping" are inside StopServoSweep, "hung" never leaves *)
(* it.                                                                     *)
Phases == {"top", "camera", "act", "reading", "stopping", "face", "expire",
           "finish", "exited", "hung"}

(* "ready": servo_task is set, its thread has not run yet. *)
ServoStates == {"idle", "ready", "open", "close"}

FaceHits == {"none", "detected", "matched"}

(* The type invariant. *)
TypeOK ==
  /\ pc \in Phases
  /\ ctrl \in Statuses
  /\ runtime \in WakeStates
  /\ signal \in BOOLEAN
  /\ event \in WakeEvents
  /\ input \in Buffers
  /\ unlockLeft \in 0..UnlockSeconds
  /\ facePending \in BOOLEAN
  /\ camera \in BOOLEAN
  /\ servo \in ServoStates
  /\ led \in BOOLEAN

Init ==
  /\ pc = "top"
  /\ \E boot \in Boots :
       ctrl = IF KeypadOnly THEN WakeFromMotion(boot) ELSE boot
  /\ runtime = Configured
  /\ signal = FALSE
  /\ event = "None"
  /\ input = <<>>
  /\ unlockLeft = 0
  /\ facePending = FaceOnly
  /\ camera = FALSE
  /\ servo = "idle"
  /\ led = FALSE

Unlocked == ctrl.state = "Unlocked"

-----------------------------------------------------------------------------
(* The wake side of an iteration.                                          *)

(* Mutant: a signal that finds the lock awake leaves the buffer alone. *)
EmptiedWhenIdle(pending, seen) ==
  IF pending \/ (seen /\ ctrl.state = "Idle") THEN <<>> ELSE input

(* A wake empties the password buffer unless the lock is open; the pending *)
(* face-only wake empties it in any case.                                  *)
Emptied(pending, seen) ==
  IF pending \/ (seen /\ ~Unlocked) THEN <<>> ELSE input

(* Read the sensor, collect the wake signals and tick the window. *)
Sense(motion, simulated, elapsed) ==
  LET pending == ~KeypadOnly /\ facePending
      seen    == ~KeypadOnly /\ (simulated \/ (motion /\ ~FaceOnly))
      aged    == Aged(runtime, elapsed)
  IN  /\ pc = "top"
      /\ signal' = (pending \/ seen)
      /\ facePending' = (facePending /\ ~pending)
      /\ ctrl' = IF signal' THEN WakeFromMotion(ctrl) ELSE ctrl
      /\ input' = Emptied(pending, seen)
      /\ runtime' = Tick(aged, signal')
      /\ event' = TickEvent(aged, signal')
      /\ unlockLeft' = TimeLeft(unlockLeft, elapsed)
      /\ pc' = "camera"
      /\ UNCHANGED <<camera, servo, led>>

(* Mutant: the controller is not left Idle, window or not. *)
RewokenAlways(s, w) ==
  IF ~KeypadOnly /\ s.state = "Idle" THEN WakeFromMotion(s) ELSE s

(* While the window is open the controller is not left Idle. *)
Rewoken(s, w) ==
  IF ~KeypadOnly /\ s.state = "Idle" /\ w.awake THEN WakeFromMotion(s) ELSE s

(* The window was not opened by this iteration: the camera stays as it is. *)
LeaveCamera ==
  /\ pc = "camera"
  /\ KeypadOnly \/ event # "Woke"
  /\ ctrl' = Rewoken(ctrl, runtime)
  /\ pc' = "act"
  /\ UNCHANGED <<runtime, signal, event, input, unlockLeft, facePending,
                 camera, servo, led>>

(* face.Wake succeeds; it does nothing when the source is still active. *)
WakeCamera ==
  /\ pc = "camera"
  /\ ~KeypadOnly /\ event = "Woke"
  /\ camera' = TRUE
  /\ ctrl' = Rewoken(ctrl, runtime)
  /\ pc' = "act"
  /\ UNCHANGED <<runtime, signal, event, input, unlockLeft, facePending,
                 servo, led>>

(* face.Wake fails: only a source that is not active has to be opened or   *)
(* resumed.  The controller is reset whatever its state is.                *)
CameraFails ==
  /\ pc = "camera"
  /\ ~KeypadOnly /\ event = "Woke"
  /\ ~camera
  /\ runtime' = Asleep
  /\ ctrl' = ResetToIdle(ctrl)
  /\ pc' = "act"
  /\ UNCHANGED <<signal, event, input, unlockLeft, facePending, camera,
                 servo, led>>

-----------------------------------------------------------------------------
(* The lock side of an iteration: open, the loop only waits for the        *)
(* deadline; shut, it polls the keypad and then the face pipe.             *)

StayOpen ==
  /\ pc = "act"
  /\ Unlocked
  /\ unlockLeft > 0
  /\ pc' = "finish"
  /\ UNCHANGED <<ctrl, runtime, signal, event, input, unlockLeft, facePending,
                 camera, servo, led>>

(* StopServoSweep: the driver reads servo_task, ... *)
BeginRelock ==
  /\ pc = "act"
  /\ Unlocked
  /\ unlockLeft = 0
  /\ pc' = IF servo = "idle" THEN "stopping" ELSE "reading"
  /\ UNCHANGED <<ctrl, runtime, signal, event, input, unlockLeft, facePending,
                 camera, servo, led>>

(* ... and calls kthread_stop on the thread it has read.  When the thread  *)
(* has ended in between, the call may return or never return.              *)
CallStop ==
  /\ pc = "reading"
  /\ pc' \in {"stopping"} \cup (IF servo = "idle" THEN {"hung"} ELSE {})
  /\ UNCHANGED <<ctrl, runtime, signal, event, input, unlockLeft, facePending,
                 camera, servo, led>>

(* Mutant: the loop does not wait for the servo. *)
RelockAtOnce ==
  /\ pc = "stopping"
  /\ led' = FALSE /\ input' = <<>>
  /\ ctrl' = ResetToIdle(ctrl)
  /\ pc' = "finish"
  /\ UNCHANGED <<runtime, signal, event, unlockLeft, facePending, camera,
                 servo>>

(* kthread_stop has waited for the thread to end. *)
Relock ==
  /\ pc = "stopping"
  /\ servo = "idle"
  /\ led' = FALSE
  /\ input' = <<>>
  /\ ctrl' = ResetToIdle(ctrl)
  /\ pc' = "finish"
  /\ UNCHANGED <<runtime, signal, event, unlockLeft, facePending, camera,
                 servo>>

(* servo_start_sweep: nothing happens while a thread is still there, and   *)
(* the thread may fail to start; the loop sees neither.                    *)
StartSweep == servo' \in IF servo = "idle" THEN {"ready", "idle"} ELSE {servo}

(* What an accepted credential does next to the status. *)
OpenDoor ==
  /\ led' = TRUE
  /\ StartSweep
  /\ unlockLeft' = UnlockSeconds

(* One poll of the keypad.  A face-only lock does not poll it, which is as *)
(* if no key were ever down.                                               *)
PressKey(key) ==
  /\ pc = "act"
  /\ ~Unlocked
  /\ FaceOnly => key = "none"
  /\ input' = AfterKey(input, key)
  /\ IF Confirms(input, key)
     THEN ctrl' = UnlockFromPassword(ctrl) /\ OpenDoor
     ELSE UNCHANGED <<ctrl, led, servo, unlockLeft>>
  /\ pc' = "face"
  /\ UNCHANGED <<runtime, signal, event, facePending, camera>>

(* The status is read again here: a password may have opened the lock. *)
FaceWanted == ctrl.state = "Awake" /\ ~KeypadOnly /\ runtime.awake

(* Mutant: any face will do. *)
AcceptsAnyFace(hit) == hit # "none"

Accepts(hit) == hit = "matched" \/ (~MatchRequired /\ hit = "detected")

(* A source that is not active yields no face. *)
PollFace(hit) ==
  /\ pc = "face"
  /\ FaceWanted
  /\ camera \/ hit = "none"
  /\ IF Accepts(hit)
     THEN ctrl' = UnlockFromFace(ctrl) /\ OpenDoor
     ELSE UNCHANGED <<ctrl, led, servo, unlockLeft>>
  /\ pc' = "expire"
  /\ UNCHANGED <<runtime, signal, event, input, facePending, camera>>

SkipFace ==
  /\ pc = "face"
  /\ ~FaceWanted
  /\ pc' = "expire"
  /\ UNCHANGED <<ctrl, runtime, signal, event, input, unlockLeft, facePending,
                 camera, servo, led>>

(* The window has expired in this iteration.  An open lock never gets      *)
(* here with its branch taken at `act`; one that a key has just opened     *)
(* does.                                                                   *)
SleepCamera ==
  /\ pc = "expire"
  /\ ~KeypadOnly /\ event = "Slept"
  /\ input' = <<>>
  /\ camera' = FALSE
  /\ ctrl' = ResetToIdle(ctrl)
  /\ pc' = "finish"
  /\ UNCHANGED <<runtime, signal, event, unlockLeft, facePending, servo, led>>

KeepCamera ==
  /\ pc = "expire"
  /\ KeypadOnly \/ event # "Slept"
  /\ pc' = "finish"
  /\ UNCHANGED <<ctrl, runtime, signal, event, input, unlockLeft, facePending,
                 camera, servo, led>>

(* The LED mirrors the status; the iteration's locals go out of scope. *)
Finish ==
  /\ pc = "finish"
  /\ led' = Unlocked
  /\ signal' = FALSE
  /\ event' = "None"
  /\ pc' = "top"
  /\ UNCHANGED <<ctrl, runtime, input, unlockLeft, facePending, camera, servo>>

(* max_iterations is reached: the process ends without relocking. *)
Exit ==
  /\ pc = "top"
  /\ pc' = "exited"
  /\ UNCHANGED <<ctrl, runtime, signal, event, input, unlockLeft, facePending,
                 camera, servo, led>>

-----------------------------------------------------------------------------
(* The servo thread (servo_thread_fn): unlock position, lock position, end. *)

ServoMoves(from, to) ==
  /\ servo = from
  /\ servo' = to
  /\ UNCHANGED <<pc, ctrl, runtime, signal, event, input, unlockLeft,
                 facePending, camera, led>>

ServoOpens  == ServoMoves("ready", "open")
ServoCloses == ServoMoves("open", "close")
ServoEnds   == ServoMoves("close", "idle")

(* kthread_stop on a thread that has not run yet: it never will. *)
ServoCancelled == pc = "stopping" /\ ServoMoves("ready", "idle")

-----------------------------------------------------------------------------
Iterate ==
  \/ \E motion, simulated \in BOOLEAN, elapsed \in Gaps :
       Sense(motion, simulated, elapsed)
  \/ LeaveCamera \/ WakeCamera \/ CameraFails
  \/ StayOpen \/ BeginRelock \/ CallStop \/ Relock
  \/ \E key \in Keys : PressKey(key)
  \/ \E hit \in FaceHits : PollFace(hit)
  \/ SkipFace
  \/ SleepCamera \/ KeepCamera
  \/ Finish

ServoThread == ServoOpens \/ ServoCloses \/ ServoEnds \/ ServoCancelled

Over == pc \in {"exited", "hung"}

(* The loop does not go on and the servo is at rest. *)
Ended == Over /\ servo = "idle" /\ UNCHANGED vars

Next == Iterate \/ Exit \/ ServoThread \/ Ended

(* The loop and the thread are each scheduled; nothing forces the exit,    *)
(* a signal, a key or a face.                                              *)
Fairness == WF_vars(Iterate) /\ WF_vars(ServoThread)

Spec == Init /\ [][Next]_vars /\ Fairness

-----------------------------------------------------------------------------
(* Safety.                                                                 *)

(* Once an iteration is past its camera wake, an open window means an      *)
(* active camera: a failed wake closes the window again, and no path puts  *)
(* the camera to sleep behind the window's back.                           *)
AwakeMeansActive ==
  ~KeypadOnly /\ runtime.awake /\ (pc # "camera" \/ event # "Woke") => camera

(* Closing the window at its expiry also puts the camera to sleep.  The    *)
(* code loses the sleep when the window expires while the lock is open.    *)
ExpirySleepsCamera ==
  ~KeypadOnly /\ pc = "top" /\ ~runtime.awake => ~camera

GrantBy(reason) == ~Unlocked /\ Unlocked' /\ ctrl'.unlock = reason

(* A password is never accepted in an iteration that saw a wake signal:    *)
(* every signal empties the buffer before the key is read, also while the  *)
(* controller is already awake and whatever the lock did before.           *)
NoPasswordWhileSignalled == [][GrantBy("Password") => ~signal]_vars

(* An open lock shuts only when its deadline is due and the servo is at    *)
(* rest, or when the camera cannot be woken, or, right after a password,   *)
(* when the window expires in that same iteration.                         *)
ShutsFor ==
  \/ unlockLeft = 0 /\ servo = "idle"
  \/ event = "Woke" /\ ctrl.unlock = "Password" /\ ~camera
  \/ event = "Slept" /\ ctrl.unlock = "Password" /\ unlockLeft = UnlockSeconds

OpenLockShutsOnlyFor == [][Unlocked /\ ~Unlocked' => ShutsFor]_vars

(* The status the loop shows is that of an access session. *)
Door == INSTANCE Access WITH
          open    <- ctrl.state = "Unlocked",
          opener  <- ctrl.unlock,
          session <- ctrl.wake = "Motion"

(* Every step of the loop, composed calls included, is a step of an access *)
(* session: no face opens a lock that nothing woke, and no second          *)
(* credential takes over an open lock.                                     *)
ImplementsAccess == Door!Spec

-----------------------------------------------------------------------------
(* The inductive invariant behind the safety properties.                   *)

(* The three fields of the status agree: these five are all there are. *)
StatusConsistent == ctrl \in BootStatuses

(* A window that has just expired is not open. *)
SleptMeansAsleep == event = "Slept" => ~runtime.awake

(* A signal has emptied the buffer by the time the key is read. *)
SignalEmptiesBuffer ==
  pc \in {"camera", "act"} /\ signal /\ ~Unlocked => input = <<>>

(* Digits left behind in an open lock are those of a lock a face opened,   *)
(* and its camera stays active until the lock is shut.                     *)
OpenWithoutCamera == Unlocked /\ ~camera => input = <<>>

(* Without a camera, a lock open to a face is one the command line opened. *)
FaceOpenNeedsCamera ==
  Unlocked /\ ctrl.unlock = "Face" /\ ~camera
    => unlockLeft = 0 /\ servo = "idle"

(* The servo is stopped only for an open lock whose deadline is due. *)
StoppingIsDue ==
  pc \in {"reading", "stopping"} => Unlocked /\ unlockLeft = 0

(* Past the branch on the status, an open lock is one just opened. *)
JustOpened ==
  pc \in {"face", "expire"} /\ Unlocked
    => /\ unlockLeft = UnlockSeconds
       /\ ctrl.unlock = "Face" => runtime.awake

(* The inductive invariant: the types, the agreement of the status fields, *)
(* and what each phase of an iteration may rely on.                        *)
SafetyInv ==
  /\ TypeOK
  /\ StatusConsistent
  /\ SleptMeansAsleep
  /\ AwakeMeansActive
  /\ SignalEmptiesBuffer
  /\ OpenWithoutCamera
  /\ FaceOpenNeedsCamera
  /\ StoppingIsDue
  /\ JustOpened

-----------------------------------------------------------------------------
(* Liveness.                                                               *)

(* An open lock is shut again, unless the process ends first or is lost in *)
(* the driver, stopping a thread that had just ended.                      *)
Relocks == Unlocked ~> (~Unlocked \/ Over)

(* When the wake signals stop, the lock stops looking for faces: it is not *)
(* left Awake with its camera asleep.  (A lock that --motion left Awake    *)
(* and that no signal ever reached has no window that could expire.)       *)
QuietGoesIdle ==
  (<>signal /\ <>[]~signal)
    => (<>[](ctrl.state # "Awake") \/ <>Over)

(* The lock comes to rest: both.                                           *)
CalmsDown == Relocks /\ QuietGoesIdle
=============================================================================
