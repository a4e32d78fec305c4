# Verification of smart_lock_rk3566

TLA+ models of the door lock for the RK3566 board: the control loop `ctl`, the
face pipe with its camera, its detector and its people, and the kernel module with
its sensor, servo, keypad and screen.  TLC checks small instances, TLAPS proves the
theorems for every value of the constants.  `PROJECT.json` says which lines each
definition stands for.

## 1. The system

| Component | Source | State | Operations |
|---|---|---|---|
| Controller state | `core/state` | `Status`: state, wake reason, unlock reason | `WakeFromMotion`, `UnlockFromFace`, `UnlockFromPassword`, `ResetToIdle` |
| Awake window | `core/run/src/wake_ctl.cpp` | `awake_`, `deadline_` | `Configure`, `Tick`, `Wake`, `Sleep` |
| Control loop | `app/ctl/src/main.cpp` | password buffer, unlock deadline, pending face wake | one iteration: sense, wake camera, relock or poll key and face, expire, mirror LED |
| Hardware access | `hal/dev` | device descriptor, simulated inputs | `PollMotion`, `PollKey`, `SetLed`, `StartServoSweep`, `StopServoSweep`, OLED |
| Face pipe | `face/pipe` | source flags, recogniser mode and errors, vote window | `Initialize`, `Wake`, `Sleep`, `Deactivate`, `PollRecognition` |
| Frame source | `third/rknn_face/src/camera.cpp` | GStreamer pipeline, `camera_sleeping_` | open, read, wake, sleep, close |
| Detector, extractor | `yolo_face.cpp`, `mobilefacenet.cpp`, `face_alignment.cpp` | NPU context, `initialized_` | `Init`, `Release`, `Detect`, crop, `Extract` |
| Face database, recogniser | `face_database.cpp`, `face_recognizer.cpp` | the file, `records_`, `feature_size_`, a copy of the records | `load`, `initialize`, `clear`, `upsert_record`, `reset`, `recognize` |
| Sensor driver | `drv/mydev/src/sensor.c` | `sensor_state`, hold timer | init, deinit, interrupt, timer, read |
| Servo driver | `drv/mydev/src/servo.c` | `servo_task`, thread, `servo_initialized` | init, deinit, start, stop, test moves |
| Key driver | `drv/mydev/src/key.c` | rows, password, input buffer, `ABCD` progress | init, deinit, scan, process, clear |
| OLED driver | `drv/mydev/src/oled.c` | frame buffer, I2C client, the panel | init, deinit, update of a line |
| LED driver | `drv/mydev/src/led.c` | a pin | init, deinit, set |
| Character device | `drv/mydev/src/main.c` | `major`, `cls`, `dev` | `read`, `write`, `ioctl`, load, unload |
| `cam_hold.cpp`, tests, scripts, hnswlib | | | not modelled (section 8) |

`ctl` is one thread.  It reaches the driver through `/dev/test`: a read gives the
sensor's character, an ioctl the key that is down, one-letter writes drive LED and
servo, a longer one writes a name on the screen.  In the kernel an interrupt handler,
a timer and the servo thread run by themselves, and several processes may call the
device at once without a lock.  What the kernel holds for the module (pins, an
interrupt, a device) outlives a load that failed.

What is hard here: the loop interleaves four things with a life of their own
(camera window, open lock, password buffer, servo thread) and looks at each of
them only at certain points of an iteration; calls block for seconds; the servo
driver shares one pointer with its thread; the sensor driver stores what several
contexts have read earlier; the camera and the recogniser fail half way; the
vote window outlives the frames it was made of; loading the module has eight steps
and as many error paths; two processes in the driver share rows, indexes, a frame
buffer and a bus.

What makes each component correct:

- Controller and loop: a credential opens, exactly one is recorded, the lock shuts
  for a reason, and always shuts again; an open window has a camera; no password is
  taken while somebody moves in front of the lock; the lock calms down when the
  signals stop.
- Window: it ends hold_s after the last signal, not before and not later than the
  next tick.
- Face pipe: its flags agree with the camera's; one vote never mixes two models; a
  match rests on enough frames of an uninterrupted sight; the camera is opened once
  and resumed afterwards.  With the loop: a grant rests on the frames of its window,
  and a known face gets in.
- Detector: no face is lost to a box that is itself dropped; every box is inside its
  frame; the best complete face is the one that is recognised.
- Database: what is in memory is in the file, and the file loads again.
- Sensor: presence is never lost.  Servo: the door is never left open.  Keys: the
  password changes after exactly A, B, C, D, both password machines judge alike, and
  a scan finds the key that is down.  Screen: it shows the last texts.
- Module: a load that fails and an exit leave nothing behind, or only what is known.

## 2. Modules

| Module | Models | Role |
|---|---|---|
| `Ctrl`, `WakeCtl`, `Keypad` | the status record, the window, the password buffer | operators, used by the loop |
| `SmartLock` | the loop with camera flag and servo thread | the core |
| `Access` | what the printed status promises | abstract; `SmartLock` implements it |
| `WakeWindow` | the window with absolute times | justifies the relative time of `SmartLock` |
| `Smoothing`, `FacePipe` | the vote; the pipe on its frame source | |
| `CameraLife` | opened once, paused, resumed | abstract; `FacePipe` implements it |
| `FaceLock` | the loop with the pipe in place of its camera flag | composes `SmartLock` and `FacePipe` |
| `FaceBoxes`, `FaceFinder` | box arithmetic; one frame from proposals to a crop | |
| `FaceDb` | file, database, recogniser | |
| `NpuModel` | the two models on the NPU | |
| `Vision` | processes that enrol or look at frames | composes the last three |
| `Sensor` | the sensor driver | |
| `Servo` | the servo driver with its clients | |
| `Sweep` | the servo as the loop sees it | abstract; `Servo` with one client implements it, `SmartLock` assumes it |
| `Driver` | loading, failing and unloading the kernel module | extends `Sensor` |
| `KeyDriver` | the driver's password machine | |
| `KeyPath` | the same presses for the loop and for the driver | composes `Keypad` and `KeyDriver` |
| `KeyMatrix` | scan and password machine with several callers | |
| `Oled` | frame buffer, bus and panel with several callers | |
| `Device` | two processes in the driver at once | puts `KeyMatrix` and `Oled` side by side |
| `MC*` | constants for TLC | |
| `SmartLockProofs`, `FacePipeProofs`, `FaceLockProofs`, `WakeWindowProofs`, `KeyPathProofs` | | theorems about the module they are named after |
| `DriverProofs` | | theorems about `Sensor` and `Driver` |
| `VisionProofs` | | theorems about `Vision` and its parts `FaceBoxes`, `FaceFinder`, `FaceDb` and `NpuModel` |
| `DeviceProofs` | | theorems about `Servo`, `KeyMatrix` and `Oled`: what several processes do to each other |

### How the models correspond to the code

**SmartLock.** One iteration of the loop (`main.cpp:273-393`) is a cycle of phases
kept in `pc`; between two phases the servo thread may move.  A phase ends where the
code calls out or branches: `Sense` is everything up to `Tick`, the next phase is
the camera's wake, the next the branch on the copied status, then the face, then
the expiry, then the LED.  The status record is that of `Ctrl`, changed only by its
four operations, which refuse what the code refuses.  `StopServoSweep` is three
steps (`BeginRelock`, `CallStop`, `Relock`), because the driver reads the pointer,
waits, and comes back when the thread is gone; a thread that ends between the read
and `kthread_stop` makes that call undefined, so the loop may also never come back
(`"hung"`).

*Time.*  `now` is read once per iteration.  A deadline is kept as the time left
until it as seen from that `now`; `Gaps` are the times that may pass between two
reads.  `WakeWindow` keeps `now` and `deadline_` themselves, and
`RelativeFormIsExact` shows (TLC) and proves (TLAPS) that both forms take the same
decisions.  The initial `time_point::min()` is a time left of 0.

*Inputs.*  Motion, simulated wakes, keys, face results and camera failures are free
in every iteration.  `Boots` are the statuses `--motion`, `--face`, `--password`
and `--reset` can leave before the loop.

**FacePipe.** One action per way out of each call.  What GStreamer, the detector and
the models answer is chosen freely, the order of effects is the code's: the fp32
model is released before the i8 model loads; a pause that fails leaves
`camera_sleeping_` alone while the pipe marks itself inactive; every early return
of `PollRecognition` clears the vote window or does not, as in the code.  `source` and
`closes` are chosen at the start: what kind of frames there are, and whether the
client ever calls `Deactivate`.  A vote is a person (0 is nobody), a similarity and,
as bookkeeping for a property, the model that made it; `sight` is bookkeeping too.

**FaceLock.** Each step of the loop that calls the pipe is a step of both: `WakeCamera`
with a wake of the pipe, `PollFace` with a poll and what it answered, `SleepCamera`
with `Sleep`.  All other steps of the loop leave the pipe alone.  `earlier` counts the
votes that were cast before the window last opened, `lost` says that an expiry fell
into an open lock; both are bookkeeping.

**FaceFinder, FaceBoxes.** A poll of one frame: the proposals the outputs decode to
are chosen freely among `Candidates`; the suppression looks at them one by one, equal
scores in any order, because `std::sort` is not stable; then come the boxes in the
frame, the choice, and the crop.  Floats are integers and scores percentages; a
conversion to `int` truncates towards zero (`Trunc`), `std::round`, `std::floor` and
`std::ceil` are `Round`, `\div` and `Ceil`.  A rank is multiplied out, so nothing is
rounded there.  The two eyes stand for the five landmarks.  A loop of the code is a
recursive function of how many rounds it has made: `BoxesOfFirst`, `BestOfFirst`.

**FaceDb.** `rows` is the table in the file, `records` the memory, `known` the copy in
the recogniser.  Every SQLite call may fail: a load that fails leaves an empty
memory, a query that ends early leaves the rows so far.  A feature has a length and a
direction; the cosine of two directions is a parameter.  A name has one row, because
the column is `UNIQUE` (`OnceEach`).  The scan of `recognize` is `NearestOfFirst`, which
keeps the index of the best record instead of a pointer, 0 for none.  `view` (does the memory hold
the whole file?) and `mixed` (a feature of another length was stored) are bookkeeping.

**NpuModel, Vision.** Contexts and output buffers are counted as the runtime hands them
out.  `Vision` starts the pipe's process in the order of `Initialize` (people,
detector, extractor, the recogniser's copy) and lets it poll; before and between,
other processes may enrol.

**Sensor.** Interrupt handler, timer callback and initial read each read the line in
one step and store what they saw in a later one.  Only rising edges are latched.

**Driver.** `stage` is the step of `mydev_init` that is next; a step succeeds, or
`Abandon`s the load with the calls of its own error path in `todo`, which are then
made one by one, as are those of `mydev_exit`.  `owner` says who holds each pin and
kernel object: us, another driver, or nobody.  `gpio_free` does not ask.  The sensor
runs throughout; the servo has one bit for its thread.  An image that is unloaded
while its timer is pending, its timer's callback is in progress or its thread runs
leaves an `orphan`, and that may crash; `causes` remembers how it came about.

**Servo.** Every access to `servo_task` is a step; between a failed start and its
clearing of `servo_task`, other clients may take the error pointer for a thread.
`Threads` are the thread structures that can exist at a time; one is reused after the thread has
exited.  `users`, chosen at the start, are the clients that have the device open.

**KeyDriver, KeyPath.** `key_process_input` is a function from the machine and a key
to the machine, with its branches in the code's order.  `KeyPath` feeds each press
to the loop's buffer and to that machine; `KEY_IOCTL_CLEAR` empties the machine's
buffer in between.  `typed` (the last four keys) and `cleared` are bookkeeping for
the properties.

**KeyMatrix.** The same driver with several processes inside.  Each write to a row and
each look at a column is a step, and so is each look at and each use of `input_index`
and `reset_index`, which the compiler may load once or twice.  One key is down at a
time; the keypad is a grid of `KeyMap`, of which the run takes a digit, a letter, `*`
and `#`.  A `kResetSequence` that is read past its end may match anything.

**Oled.** A line of the buffer is the set of texts drawn on it since it was cleared,
because drawing only sets pixels.  An update clears, draws, sends six commands, copies
the buffer and sends the copy.  The panel takes arguments as they come, keeps its
window and its two pointers, and shows what it gets; a command that is no argument does
what the SSD1306 does with that byte.  `alone`, `last`, `disturbed` and `clean` are
bookkeeping.

**Device.** Keypad and screen share nothing but the line `key_process_input` writes, so
a behaviour is about the one or the other, chosen at the start.

## 3. Runs

| Run | Question | Bounds, and why they are enough |
|---|---|---|
| `full` | Is the loop safe, an access session, and does it calm down? | hold 3, unlock 2, gaps 1 and 4: a gap shorter and one longer than either deadline, so each expires early, exactly and late; two digits and a two-digit password: a wrong, a short and a full buffer |
| `facelock` | With `--face-only` and a match required: on whose frames does a grant rest, when does the pipe rest, does a known face get in, does all calm down? | as above; one person, a window and a minimum of two votes: the smallest where votes can be left over from before |
| `pipe` | Do flags, votes, the fallback to i8 and the camera's life agree, for every source and for clients that deactivate or do not? Is the winner of the vote the best supported name? | two people, window 4, votes 2, error limit 2: the smallest where a vote can tie, be outvoted and age out, and where a limit differs from a repetition; similarities on either side of the thresholds |
| `vision` | Is a face found, kept in its frame, chosen, and compared with the people that are enrolled? Is everything given back? | an input of 24 by 24, a wide and a wider frame, eight proposals of which a frame yields up to three: a chain that overlaps in pairs, equal scores, one box with a stray eye, boxes over three edges, one too small, eyes in one place; two people, two lengths, three directions of which two are opposite; a file that is missing, empty, good, of two people, or unreadable |
| `driver` | What does a load leave behind that failed, or that was removed? Does trying again help? Is presence ever lost? | two rows and one column, so that a row, the last row and a column can be the one that fails; autostart on; the sensor's pin or a row held by another driver; nothing else is bounded |
| `device` | What do two processes in the driver do to each other? | two by two keys, one of each kind, a password of two and a sequence of one letter; four calls and three updates begin, one send is lost: two callers twice each, and a third update that meets what the first two left; the two processes are interchangeable |
| `hold` | What does the window's expiry mean, and is relative time exact? | `Horizon` bounds `now`; gaps shorter than, equal to and longer than the hold |
| `servo` | With one client, is the driver the sweep the loop assumes? With two, can they leave the door open? | one or two clients; three threads, enough for every start that can overlap |
| `keys` | Is `ABCD` followed exactly, and do both password machines agree? | two digits, a password of two; nothing else is bounded |

Deadlock is checked in every run but `servo`, where all clients may be lost in
`kthread_stop` and nothing is left to do, and `device`, which ends when its calls and
updates are used up.  The loop with `--keypad-only` has no run: its safety is that of
the theorems, which hold in every mode.

What the properties say in each run is written above them in the modules.  Those that
take the most steps to break: `OpenLockShutsOnlyFor`, `ImplementsAccess`, `CalmsDown`
(loop); `VotesOfThisWindow`, `KnownFaceGetsIn` (loop and pipe); `MemoryMatchesFile`
(failures of the file, restarts); `OnlyServoLeakLasts`, `OrphanHasCause` (loads that
fail in a row); `DeviceInv`, `PanelShows` (two callers).

The other runs end in a violation.  Each checks one sentence of the documents or
tests against what the code does:

| Run | Sentence | What the code does |
|---|---|---|
| `lost_sleep` | README:213, the window's expiry puts the camera to sleep | not when the lock is open at that moment: the event is lost |
| `resume` | README:214, the next wake resumes | not after a pause whose completion failed |
| `absence` | docs/verify.md:22, the sensor returns to "nobody" | not when the line falls after the timer has looked |

More that the models show and that is worth knowing:

- A lock that a password opened shuts at once when the awake window expires in the
  same iteration (the third way of `ShutsFor`).  A grant that finds the previous
  sweep still closing starts no sweep of its own (`servo.c:146`).
- Of three votes two good ones do not win when the third is bad: the average falls
  below the threshold (`face_core_test.cpp:242` has two good rounds win).
- A password changed with `ABCD` is not that of `ctl`, which compares with a constant
  (`docs/verify.md:26`): `SameUntilChanged` holds until then.
- After an expiry that was lost in an open lock the source stays active and the next
  wake keeps the votes (`VotesOfThisWindow` has that exception and no other).  Votes
  also survive a relock within one window.  A video source that was put to sleep is
  never active again, because `Wake` returns true for every source but the camera.
- A sensor that fails to initialise leaves the servo's pin taken, and no load succeeds
  until the next boot.  Keypad pins that a load has left taken heal, because the
  error path of the keypad also frees the pin whose request has just failed; if
  another driver holds it, that driver loses it.
- An edge between `del_timer_sync` and `free_irq`, or a sweep that runs while the
  sensor fails, leaves something running in a module that is unloaded.
- Two callers of `KEY_IOCTL_SCAN` may write over the input buffer's terminator and the
  byte before the buffer, and no other (`IndexStrays`); with three there is no bound, because an
  index that one of them has loaded comes back after the other two have passed their
  checks at a smaller one.  A progress that two have raised reads past the sequence.  A scan
  that another overlaps may report a key that is not down.
- Two screen updates at a time may garble the picture.  Two undisturbed ones repair
  it, all but a start line that was moved, which only `oled_init` sets.  The
  `"LOCK"` that `servo_init` draws before `oled_init` is cleared by it.
- `upsert_record` takes a feature of any length; a database with two lengths does not
  load again.  A query that ends with an error loads a part of the people as if it
  were all.  `load` looks at no schema: it rejects the table of
  `face_core_test.cpp:112-131` only because it has no rows, where that test expects
  an error that speaks of the schema.
- A box that begins left of or above its frame is moved in with its size, not cut.

## 4. Fairness

`SmartLock`: weak fairness of the loop and of the servo thread, which are a process
and a kernel thread that the scheduler runs; no fairness of motion, keys, faces or
the exit.  `Relocks` and `QuietGoesIdle` allow the process to end or to be lost in
the driver, which the code cannot exclude.  `FaceLock` has the same two fairness
conditions; the pipe's answers are free, and `KnownFaceGetsIn` says in its premise
what they and the signals have to be.  `Driver`: an `insmod`, `rmmod` or error path
that is under way goes on, interrupts are delivered, a pending timer expires and the
loop polls; nobody has to load or unload, and the premise of `RetriesSucceed` is that
somebody keeps trying.  `Servo`: threads run, and a call that is in progress goes on;
nobody has to call.  The other modules have no liveness property.

## 5. Proofs

`tlapm` checks all of these for every value of the constants.  None of the properties
is inductive by itself; each section names what had to be added.  The inductive
invariants were checked with TLC on the instances of section 3 before they were proved.

**Control loop** (`SmartLockProofs`).  `Safety`: `SafetyInv` is inductive.  That an open
window has a camera survives an expiry only because a window that reported its expiry
is closed (`SleptMeansAsleep`), and that an open lock shuts only for its reasons needs
to know what the branch at `act` was taken on (`JustOpened`, `StoppingIsDue`) and who
can have opened a lock without a camera (`OpenWithoutCamera`, `FaceOpenNeedsCamera`).
From it follow `OpenWindowHasCamera`, `SignalBlocksPassword`, `OpenLockShuts` and
`Implements`, the refinement of `Access`.

**Window** (`WakeWindowProofs`).  With `WindowInv` (an open window has the deadline its last
signal gave it): `WindowIsRecent`, `ExpiryIsQuiet`, and `RelativeForm`, that the relative
time of `SmartLock` is exact.

**Face pipe** (`FacePipeProofs`).  `PipeSafe` is the invariant: beside `PipeInv`, that a
vote window holds no more results than faces were recognised since the face was last lost
(`CountsSight`; a single image has no window to speak of).  `PipeInvHolds` and `MatchesAreSeen` follow.  `VoteIsRight` compares the
two scans of `ApplyTemporalSmoothing`, recursive functions in `Smoothing`, with sets of
votes and their sums (`Supporters`, `SumOf`, `Beats`): a scan is followed place by place,
and a place where it would be wrong first has a place before it where it already was.
`KeepsItsCamera` is the refinement of `CameraLife`.

**Loop and pipe** (`FaceLockProofs`).  `LockRefinesLoop`: each step of the composition is
one of `SmartLock`, whose invariant is taken over rather than proved again; so is that of
the pipe.  `LockInv` adds what the one knows of the other: the loop's camera flag is the pipe's
source at each phase (`Joined`), a camera is active behind a closed window only between an
expiry and its sleep or when that sleep was lost (`LostOrResting`, `WokeAgain`), and only
then are there votes from before the window (`EarlierCounted`).  `LockTypes`, `PipeRests`, `VotesAreOfThisWindow` and
`FaceGrantIsSeen` follow.

**From a frame to a name** (`VisionProofs`).  `VisionSafe`: each step of the whole is one of
the search and one of the database or neither's (`FinderFollows`, `DbFollows`), so each
part has an invariant of its own.

- Search.  What is dropped overlaps with something at least as probable only because
  everything kept is at least as probable as everything still to come (`KeptFirst`).  For
  any input, frame and proposal the box and its landmarks are in the frame
  (`ToFrameInFrame`), and for any such box the expanded one is in the padded frame
  (`CropIsInside`); they rest on bounds of the integer division (`HundredthBounds`,
  `ExpandedStretch`).  The scan for the best box is followed round by round
  (`BestSoFar`).  `Suppression`, `FacesAreInFrame` and `BestIsChosen` follow.
- File and memory.  That the memory holds nobody the file does not survives an update only
  because a name comes once in each (`OnceEach`): otherwise the first entry of that name
  would be replaced and the second be left behind.  A whole view stays whole because an
  entry is placed at the same index on both sides (`WholePlaced`), and loads again because
  all lengths are `featureSize` until one that differs is let in (`MemoryInv`).
  `MemoryIsTheFile` follows.
- Recogniser.  The scan again (`NearSoFar`); that it begins at the cosine of the opposite
  direction is why somebody exactly opposite is not found.  `AnswersAreBest`.
- Models.  The contexts handed out are counted model by model (`TwoModels`), and outputs are
  held from the inference to the decoding only (`OutputsInv`).  That whoever polls has a
  detector and people needs to be known of each step of `Initialize` (`ProgressInv`).
  `VisionInvHolds`.

**Sensor, loading and unloading** (`DriverProofs`).  `NobodyIsNeverFinal`: a stale low that
is about to be stored is always followed by another look at the line (`StaleIsRepaired`);
it holds alone and inside the driver.  `DriverSafe`: `DriverInd` keeps the books of a load.
Whatever the kernel holds for us belongs to a step of this load that is over, to a call
that is still to be made, or was left by an earlier load (`Accounted`, `LoadsInOrder`); a
call in `todo` finds what it gives back, and is made once (`UndoneOnce`).  The sensor and
the servo thread follow the stages (`SensorFollows`, `ServoFollows`).
`DriverInvHolds`, `LeaksAreKnown`, `OrphansHaveCauses` and the action property
`OthersAreLeftAlone` follow; `ServoLeakIsFinal` is the safety half of
`OnlyServoLeakLasts`: what blocks a load stays.

**Password machines** (`KeyPathProofs`).  `PathSafe`: the driver's progress is the longest
part of `ABCD` that the keys typed end with.  The property chooses it; the invariant says
that the keys end with the first n letters exactly when the progress is n (`Follows`), which
is the same because no letter comes twice, and which a step can be compared with.  `PathInvHolds`, `ChangeNeedsSequence` and `JudgedAlike` follow.

**Several processes** (`DeviceProofs`), for any number of them.

- Servo: `ServoIsNeverLeftOpen`: it stands at the unlock position only while a thread
  holds it there.  `ServoImplementsSweep`: with one client the driver is the sweep the loop
  assumes.  `AloneInv` says where that client can be for each state of the thread, and that
  no two threads drive the line (`OneDrives`).
- Keypad, `KeypadSafe`: `MatrixInd` has three parts.  Every row that is low has a process
  that will raise it (`RowsAreRaised`).  A scan that met no other is the only one, has
  driven its own row and none else, and a key that was down all the time is still ahead of
  it (`LoneIsOnly`, `SoundScan`).  And of the indexes: a process that is alone finds them as
  it has checked them (`AloneInd`), and of two each has the room that it and the other may
  need (`StrayInd`).  `LoneScans`, `OneStaysInRange` and `TwoStrayByOne` follow.  The last
  was once believed of any number of processes, with the room growing with it; for want of
  an inductive invariant TLC was given three of them and a longer run, and found the
  counterexample of section 3.
- Screen, `ScreenSafe`: `ScreenInd` knows of the lines who draws on one alone and that it
  is clear for it (`LineInd`), and of the panel what it waits for and has taken after each
  command of a display that met no other (`LoneIsHeard`), how displays that are over have
  left it (`PanelIsSet`), and that a task that will send the buffer is under way whenever
  the panel does not show it (`ShowsOrWill`, `CopyIsNew`).  `LinesAreIndependent` and
  `PanelIsRight` follow, and with the keypad's part `DeviceInvHolds`.

Assumptions: hold and unlock times positive, gaps positive, a password of at least one
digit, digits distinct from the other keys; a vote window, a minimum of votes and an error
limit of at least one; input and frame sizes positive, at least two landmarks to a
proposal; lengths of features positive, cosines between -100 and 100 percent, a name once in
a file that is found; key pins distinct from the module's other objects; at least one process, a keypad
with a key, texts other than the self-test.  Each is an `ASSUME` of the module that
declares the constant, and TLC evaluates it in the runs.

Only model-checked: liveness (`CalmsDown`, `KnownFaceGetsIn`, `PresenceIsReported`,
`RetriesSucceed` in `OnlyServoLeakLasts`, `StopEnds`), which the prover cannot do with
fairness.

## 6. Modelling assumptions

- Sensor: the hold timer's two seconds outlast the initial read.
- Servo: pulse widths are valid for the period, so a hold takes its time and a
  thread does not end before its creator has stored its pointer.  In `Servo` the module
  is loaded with `servo_autostart` 0 and not unloaded while clients call it; `Driver`
  has autostart and unloading, and only the thread's existence.
- Servo: `kthread_stop` on a thread that has exited is undefined; the model lets it
  return or never return.  Given an error pointer it never returns, because it
  dereferences that at once.
- Driver: one other driver may hold one pin; the device is not open while the module
  is removed, which the kernel sees to; the index one past the rows that the keypad's
  error path uses names no pin that anyone holds.
- Loop: an iteration lasts at least one unit of time (it sleeps `poll_ms`); the
  password and the digits are parameters.
- Keys: in `KeyDriver` and `KeyPath` one call of `key_process_input` at a time;
  `KeyMatrix` has several.
- Screen: the frame buffer is kept line by line, because each update clears and draws
  in pages of its own and no text is long enough to leave them; that two lines share
  no byte is read off `oled.c`, not checked.  A data transfer is one step, as the bus is locked for it; data may end a
  command that waits for its arguments or not.
- People: no program of the repository enrols anybody; enrolment is a process that
  calls the database class in any order.  A name has one row (it is UNIQUE in the
  table the class makes), and enrolling it again replaces the feature.
- A similarity is an integer number of hundredths; averages are compared by cross
  multiplication, without rounding.

## 7. Plan

1. Done: the loop with its abstract specification and proofs; window, sensor, servo,
   keys, vote and face pipe.
2. Done: the loop composed with the pipe; loading and unloading the module; two
   callers at the keypad and at the screen; detector boxes, database, recogniser and
   NPU models; the suppression and the box arithmetic proved.
3. Done: the invariants, action properties and refinements of pipe, loop with pipe,
   driver, password machines, servo, keypad, screen, face search, database, recogniser
   and NPU models proved (section 5).
4. The modes of `ctl` as variables chosen at the start, so that one run also covers
   the liveness of `--keypad-only`.
5. The preview pipeline's life, if it turns out to carry properties.

## 8. Not modelled

Tensors, pixels and floats (what a model answers is a free choice); preview and debug
images; font and layout of the screen; option parsing, printing and the `--loop`-less
run of `ctl`; `cam_hold.cpp`, which nothing uses; test programs, scripts and build
files; the vendored hnswlib, which no source file includes.  Of the character device,
copying to and from the user.
