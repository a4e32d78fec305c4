------------------------------ MODULE FacePipe ------------------------------
(***************************************************************************)
(* The face pipe (face/pipe) on top of its frame source (camera.cpp): the  *)
(* camera's open/pause/resume life, the recogniser with its fp32 -> i8     *)
(* fallback, and the vote over the last frames.  Every call of the pipe is *)
(* an action; what GStreamer, the detector and the models answer is chosen *)
(* freely.  Preview, debug images and frame counters are left out.         *)
(***************************************************************************)
EXTENDS Smoothing, FiniteSetsExt

CONSTANTS
  Sources,        \* the sources the client may configure
  RecMode,        \* FaceCfg::rec_mode, normalised
  HasI8,          \* a model path resolves for i8
  ErrorLimit,     \* rec_error_limit
  Threshold,      \* the recognition threshold of each mode
  Similarities    \* the similarities a best match may have

Modes == {"fp32", "i8"}

ASSUME PipeAssumption ==
  /\ Sources \subseteq {"camera", "image", "video"}
  /\ RecMode \in Modes
  /\ HasI8 \in BOOLEAN
  /\ ErrorLimit \in Nat \ {0}
  /\ Threshold \in [Modes -> Int]
  /\ Similarities \subseteq Int

VARIABLES
  source,     \* FaceCfg's source: "camera", "image" or "video"
  closes,     \* the client calls Deactivate (the control loop does not)
  ready,      \* initialized_
  open,       \* source_open
  active,     \* source_active
  pipeline,   \* the GStreamer pipeline: "none", "playing" or "paused"
  sleeping,   \* camera_sleeping_
  consumed,   \* image_consumed_
  extractor,  \* the model that is loaded: "none", "fp32" or "i8"
  recMode,    \* current_rec_mode
  fallback,   \* rec_fallback
  errors,     \* rec_error_count, counted up to ErrorLimit
  history,    \* recognition_history, each entry with the mode that made it
  hit,        \* what the last PollRecognition answered
  sight       \* faces recognised since the face was last lost, up to MinVotes

sourceVars == <<open, active, pipeline, sleeping, consumed>>
recVars    == <<extractor, recMode, fallback, errors>>
vars       == <<source, closes, ready, sourceVars, recVars, history, hit, sight>>

Hit(detected, matched) == [detected |-> detected, matched |-> matched]
NoHit == Hit(FALSE, FALSE)

Votes == [candidate : 0..Names, similarity : Similarities \cup {0}, mode : Modes]

(* The type invariant. *)
TypeOK ==
  /\ source \in Sources
  /\ closes \in BOOLEAN
  /\ ready \in BOOLEAN
  /\ open \in BOOLEAN /\ active \in BOOLEAN
  /\ pipeline \in {"none", "playing", "paused"}
  /\ sleeping \in BOOLEAN /\ consumed \in BOOLEAN
  /\ extractor \in {"none"} \cup Modes
  /\ recMode \in Modes
  /\ fallback \in BOOLEAN
  /\ errors \in 0..ErrorLimit
  /\ history \in Seq(Votes) /\ Len(history) <= WindowSize
  /\ hit \in [detected : BOOLEAN, matched : BOOLEAN]
  /\ sight \in 0..MinVotes

Init ==
  /\ source \in Sources
  /\ closes \in BOOLEAN
  /\ ready = FALSE
  /\ open = FALSE /\ active = FALSE
  /\ pipeline = "none" /\ sleeping = FALSE /\ consumed = FALSE
  /\ extractor = "none" /\ recMode = RecMode /\ fallback = FALSE
  /\ errors = 0
  /\ history = <<>> /\ hit = NoHit /\ sight = 0

(* Mutant: the votes outlive the face. *)
ForgetNothing == sight' = 0 /\ UNCHANGED history

(* recognition_history.clear() *)
Forget == history' = <<>> /\ sight' = 0

IsCamera == source = "camera"

-----------------------------------------------------------------------------
(* Initialize: a primary fp32 model that does not load falls back to i8.   *)
(* A file source is opened here and is active at once.  A failure leaves   *)
(* the pipe unready, and the client gives up.                              *)
Initialize(primaryLoads) ==
  /\ ~ready
  /\ primaryLoads \/ (RecMode = "fp32" /\ HasI8)
  /\ recMode' = IF primaryLoads THEN RecMode ELSE "i8"
  /\ extractor' = recMode'
  /\ fallback' = ~primaryLoads
  /\ active' = ~IsCamera
  /\ ready' = TRUE
  /\ UNCHANGED <<open, pipeline, sleeping, consumed, errors, history, hit,
                 sight>>

-----------------------------------------------------------------------------
(* Wake.                                                                   *)

(* A source that is active, or is not the camera, is left as it is, and so *)
(* is the history.                                                         *)
WakeNothing ==
  /\ ready
  /\ active \/ ~IsCamera
  /\ UNCHANGED vars

Woken ==
  /\ active' = TRUE
  /\ Forget
  /\ UNCHANGED <<ready, consumed, recVars, hit>>

WakeOpens ==
  /\ ready /\ ~active /\ IsCamera
  /\ ~open
  /\ open' = TRUE /\ pipeline' = "playing" /\ sleeping' = FALSE
  /\ Woken

(* open_camera closes what there is first, and fails on both pipelines. *)
WakeOpenFails ==
  /\ ready /\ ~active /\ IsCamera
  /\ ~open
  /\ pipeline' = "none" /\ sleeping' = FALSE
  /\ UNCHANGED <<ready, open, active, consumed, recVars, history, hit, sight>>

(* FrameSource::wake believes its flag: a camera that is not marked as     *)
(* sleeping is not set to playing.                                         *)
WakeResumes ==
  /\ ready /\ ~active /\ IsCamera
  /\ open
  /\ pipeline' = IF sleeping THEN "playing" ELSE pipeline
  /\ sleeping' = FALSE
  /\ Woken
  /\ UNCHANGED open

(* GStreamer refuses the state, or reports the failure while waiting. *)
WakeResumeFails ==
  /\ ready /\ ~active /\ IsCamera
  /\ open /\ sleeping
  /\ pipeline' \in {"playing", "paused"}
  /\ UNCHANGED <<ready, open, active, sleeping, consumed, recVars, history,
                 hit, sight>>

-----------------------------------------------------------------------------
(* Sleep.  Whatever the source answers, the pipe is inactive afterwards.   *)

(* Mutant: the pipe does not note that it sleeps. *)
RestedUnnoticed ==
  /\ errors' = 0
  /\ Forget
  /\ UNCHANGED <<ready, open, active, consumed, extractor, recMode, fallback,
                 hit>>

Rested ==
  /\ active' = FALSE
  /\ errors' = 0
  /\ Forget
  /\ UNCHANGED <<ready, open, consumed, extractor, recMode, fallback, hit>>

SourceSleeps == open /\ IsCamera /\ ~sleeping

SleepNothing ==
  /\ ready
  /\ ~SourceSleeps
  /\ Rested
  /\ UNCHANGED <<pipeline, sleeping>>

(* Mutant: a sleep gives the pipeline back. *)
SleepCloses ==
  /\ ready
  /\ SourceSleeps
  /\ pipeline' = "none" /\ sleeping' = FALSE
  /\ Rested

SleepPauses ==
  /\ ready
  /\ SourceSleeps
  /\ pipeline' = "paused" /\ sleeping' = TRUE
  /\ Rested

(* PAUSED is refused, or it was requested and the wait for it failed. *)
SleepFails ==
  /\ ready
  /\ SourceSleeps
  /\ pipeline' \in {"playing", "paused"}
  /\ Rested
  /\ UNCHANGED sleeping

(* Deactivate sleeps and closes, so how the sleep went does not matter. *)
Deactivate ==
  /\ ready /\ closes
  /\ active' = FALSE /\ open' = FALSE
  /\ pipeline' = "none" /\ sleeping' = FALSE
  /\ consumed' = FALSE /\ errors' = 0
  /\ Forget
  /\ UNCHANGED <<ready, extractor, recMode, fallback, hit>>

-----------------------------------------------------------------------------
(* PollRecognition, one action per way out of it.                          *)

PollInactive ==
  /\ ready /\ ~active
  /\ hit' = NoHit
  /\ UNCHANGED <<ready, sourceVars, recVars, history, sight>>

HasFrame ==
  CASE source = "camera" -> pipeline = "playing" /\ ~sleeping
    [] source = "image"  -> ~consumed
    [] OTHER             -> TRUE

(* No frame in time, an end of stream or a frame that does not convert. *)
PollNoFrame ==
  /\ ready /\ active
  /\ source = "image" => consumed
  /\ hit' = NoHit
  /\ UNCHANGED <<ready, sourceVars, recVars, history, sight>>

Frame ==
  /\ ready /\ active /\ HasFrame
  /\ consumed' = (consumed \/ source = "image")
  /\ UNCHANGED <<ready, open, active, pipeline, sleeping>>

PollDetectorFails ==
  /\ Frame
  /\ hit' = NoHit
  /\ UNCHANGED <<recVars, history, sight>>

PollNoFace ==
  /\ Frame
  /\ hit' = NoHit
  /\ Forget
  /\ UNCHANGED recVars

(* A face is there, but its box or its landmarks are cut off. *)
PollIncomplete ==
  /\ Frame
  /\ hit' = Hit(TRUE, FALSE)
  /\ Forget
  /\ UNCHANGED recVars

PollEmptyCrop ==
  /\ Frame
  /\ hit' = Hit(TRUE, FALSE)
  /\ UNCHANGED <<recVars, history, sight>>

TooManyErrors == recMode = "fp32" /\ errors + 1 >= ErrorLimit /\ HasI8

PollExtractFails ==
  /\ Frame
  /\ ~TooManyErrors
  /\ errors' = IF errors < ErrorLimit THEN errors + 1 ELSE errors
  /\ hit' = Hit(TRUE, FALSE)
  /\ UNCHANGED <<extractor, recMode, fallback, history, sight>>

(* Mutant: the votes of the old model are kept. *)
PollFallsBackKeepingVotes ==
  /\ Frame
  /\ TooManyErrors
  /\ extractor' = "i8" /\ recMode' = "i8"
  /\ fallback' = TRUE
  /\ errors' = 0
  /\ hit' = Hit(TRUE, FALSE)
  /\ UNCHANGED <<history, sight>>

PollFallsBack ==
  /\ Frame
  /\ TooManyErrors
  /\ extractor' = "i8" /\ recMode' = "i8"
  /\ fallback' = TRUE
  /\ errors' = 0
  /\ Forget
  /\ hit' = Hit(TRUE, FALSE)

(* The fp32 model is released before the i8 model fails to load: the next  *)
(* extraction fails too, and the fallback is tried again.                  *)
PollFallbackFails ==
  /\ Frame
  /\ TooManyErrors
  /\ extractor' = "none"
  /\ errors' = ErrorLimit
  /\ hit' = Hit(TRUE, FALSE)
  /\ UNCHANGED <<recMode, fallback, history, sight>>

(* A still image is judged by itself, frames by the vote. *)
PollRecognises(candidate, similarity) ==
  LET raw == [candidate |-> candidate, similarity |-> similarity,
              mode |-> recMode]
  IN  /\ Frame
      /\ extractor # "none"
      /\ candidate = 0 => similarity = 0
      /\ errors' = 0
      /\ IF source = "image"
         THEN /\ hit' = Hit(TRUE, candidate # 0 /\ similarity >= Threshold[recMode])
              /\ UNCHANGED <<history, sight>>
         ELSE /\ history' = Push(history, raw)
              /\ hit' = Hit(TRUE, Smoothed(history', Threshold[recMode]) # 0)
              /\ sight' = IF sight < MinVotes THEN sight + 1 ELSE sight
      /\ UNCHANGED <<extractor, recMode, fallback>>

-----------------------------------------------------------------------------
Wake  == WakeNothing \/ WakeOpens \/ WakeOpenFails \/ WakeResumes \/ WakeResumeFails
Sleep == SleepNothing \/ SleepPauses \/ SleepFails

PollsInVain ==
  \/ PollInactive \/ PollNoFrame \/ PollDetectorFails \/ PollNoFace
  \/ PollIncomplete \/ PollEmptyCrop
  \/ PollExtractFails \/ PollFallsBack \/ PollFallbackFails

PollsResult ==
  \E candidate \in 0..Names, similarity \in Similarities \cup {0} :
    PollRecognises(candidate, similarity)

PollRecognition == PollsInVain \/ PollsResult

Next ==
  /\ \/ \E primaryLoads \in BOOLEAN : Initialize(primaryLoads)
     \/ Wake \/ Sleep \/ Deactivate \/ PollRecognition
  /\ UNCHANGED <<source, closes>>

Spec == Init /\ [][Next]_vars

-----------------------------------------------------------------------------
(* Properties.                                                             *)

(* The pipe's flags and the source's agree: an active camera is open and   *)
(* not marked as sleeping, so a read is never refused for either reason,   *)
(* and the pipe knows whether there is a pipeline.                         *)
FlagsAgree ==
  IsCamera =>
    /\ open <=> pipeline # "none"
    /\ active => open /\ ~sleeping
    /\ sleeping => open

(* A vote never mixes results of the two models, which have thresholds and *)
(* similarities of their own; the model in use is the one reported.        *)
OneModelPerVote ==
  /\ \A i \in DOMAIN history : history[i].mode = recMode
  /\ extractor \in {"none", recMode}

(* While the fp32 model is loaded the error count stays below the limit    *)
(* that replaces the model.                                                *)
FallbackInTime == HasI8 /\ recMode = "fp32" /\ extractor = "fp32" => errors < ErrorLimit

(* A match needs MinVotes recognised faces since the face was last lost, a *)
(* model replaced or the camera woken, even when other frames failed in    *)
(* between.  (With an empty history, the match is the one before that.)    *)
MatchNeedsSight ==
  source # "image" /\ hit.matched /\ history # <<>> => sight = MinVotes

(* What the vote should make of the results in its window.                 *)
Supporters(name) == {i \in DOMAIN history : history[i].candidate = name}

VotesOf(name) == Cardinality(Supporters(name))
SumOf(name) == MapThenSumSet(LAMBDA i : history[i].similarity, Supporters(name))

(* a has more votes than b, or as many and a higher average. *)
Beats(a, b) ==
  \/ VotesOf(a) > VotesOf(b)
  \/ VotesOf(a) = VotesOf(b) /\ SumOf(a) > SumOf(b)

Accepted(name) ==
  /\ VotesOf(name) >= MinVotes
  /\ SumOf(name) >= Threshold[recMode] * VotesOf(name)
  /\ \A other \in (1..Names) \ {name} :
       ~Beats(other, name) /\ (Beats(name, other) \/ name < other)

(* The frame is given the one name that nobody beats, the first of those   *)
(* that tie, if it has votes enough and the average of its own results     *)
(* reaches the threshold; otherwise it stays unknown.                      *)
GivesBestSupported ==
  LET name == Smoothed(history, Threshold[recMode])
  IN  IF name = 0 THEN \A n \in 1..Names : ~Accepted(n) ELSE Accepted(name)

(* The type invariant, and these three.                                    *)
PipeInv == TypeOK /\ FlagsAgree /\ OneModelPerVote /\ FallbackInTime

Camera == INSTANCE CameraLife WITH
            mayClose <- closes, held <- pipeline # "none", used <- IsCamera /\ active

(* The camera is opened once, kept through every sleep and resumed. *)
ImplementsCameraLife == Camera!Spec

(* A wake that succeeds leaves a camera that delivers frames. *)
WokenCameraPlays == IsCamera /\ active => pipeline = "playing"
=============================================================================
