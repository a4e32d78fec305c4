----------------------------- MODULE FaceBoxes -----------------------------
(***************************************************************************)
(* The arithmetic of face boxes: from a proposal of the detector to a box  *)
(* in the frame (yolo_face.cpp), the choice of the box to recognise        *)
(* (face_pipe.cpp) and the crop around it (face_alignment.cpp).  Lengths   *)
(* are integers, scores and ratios percentages.  A proposal and a box have *)
(* landmarks, of which the first two are the eyes.                         *)
(***************************************************************************)
EXTENDS Integers, Sequences

CONSTANTS
  InputWidth,    \* the width and ...
  InputHeight,   \* ... height of the detector's input
  MinSide,       \* a complete face is at least this wide and high (32)
  MinSlack       \* landmarks may lie this far outside of any box (4)

ASSUME BoxAssumption ==
  /\ InputWidth \in Nat \ {0} /\ InputHeight \in Nat \ {0}
  /\ MinSide \in Nat \ {0} /\ MinSlack \in Nat

ConfThreshold == 50
NmsThreshold  == 45
ExpandRatio   == 15

Least(a, b)    == IF a <= b THEN a ELSE b
Greatest(a, b) == IF a >= b THEN a ELSE b

(* A conversion to int truncates towards zero. *)
Trunc(a, b) == IF a >= 0 THEN a \div b ELSE -((-a) \div b)
Round(a, b) == (2 * a + b) \div (2 * b)
Ceil(a, b)  == -((-a) \div b)

Clamp(value, top) == Greatest(0, Least(top, value))

-----------------------------------------------------------------------------
(* Preprocess: the frame is scaled by num/den to fit the input, and padded. *)

Scale(frame) ==
  IF InputWidth * frame.height <= InputHeight * frame.width
  THEN [num |-> InputWidth, den |-> frame.width]
  ELSE [num |-> InputHeight, den |-> frame.height]

Pad(input, length, scale) ==
  (input - Greatest(1, Round(length * scale.num, scale.den))) \div 2

(* IoU above the threshold. *)
Common(a, w, b, v) == Greatest(0, Least(a + w, b + v) - Greatest(a, b))

Overlaps(p, q) ==
  LET inter == Common(p.x, p.w, q.x, q.w) * Common(p.y, p.h, q.y, q.h)
      union == p.w * p.h + q.w * q.h - inter
  IN  union > 0 /\ 100 * inter > NmsThreshold * union

(* Mutant: the width and height are clamped without regard to the place. *)
ToFrameByPlace(p, frame) ==
  LET scale == Scale(frame)
      x == Pad(InputWidth, frame.width, scale)
      y == Pad(InputHeight, frame.height, scale)
      InFrame(length) == Trunc(length * scale.den, scale.num)
  IN  [x |-> Clamp(InFrame(p.x - x), frame.width - 1),
       y |-> Clamp(InFrame(p.y - y), frame.height - 1),
       width |-> Clamp(InFrame(p.w), frame.width),
       height |-> Clamp(InFrame(p.h), frame.height),
       score |-> p.score,
       marks |-> [i \in DOMAIN p.marks |->
                    [x |-> Clamp(InFrame(p.marks[i].x - x), frame.width - 1),
                     y |-> Clamp(InFrame(p.marks[i].y - y), frame.height - 1)]]]

(* DecodeOutputs: a proposal as a box in the frame.  A box that begins     *)
(* outside of the frame is moved in, not cut.                              *)
ToFrame(p, frame) ==
  LET scale == Scale(frame)
      xPad  == Pad(InputWidth, frame.width, scale)
      yPad  == Pad(InputHeight, frame.height, scale)
      InFrame(length) == Trunc(length * scale.den, scale.num)
      x == Clamp(InFrame(p.x - xPad), frame.width - 1)
      y == Clamp(InFrame(p.y - yPad), frame.height - 1)
  IN  [x |-> x, y |-> y,
       width  |-> Clamp(InFrame(p.w), frame.width - x),
       height |-> Clamp(InFrame(p.h), frame.height - y),
       score  |-> p.score,
       marks  |-> [i \in DOMAIN p.marks |->
                    [x |-> Clamp(InFrame(p.marks[i].x - xPad), frame.width - 1),
                     y |-> Clamp(InFrame(p.marks[i].y - yPad), frame.height - 1)]]]

Visible(box) == box.width > 1 /\ box.height > 1

-----------------------------------------------------------------------------
(* SelectBestFace *)

Near(at, from, length) ==
  LET slack == Greatest(MinSlack, length \div 10)
  IN  from - slack <= at /\ at <= from + length + slack

Complete(box, frame) ==
  /\ box.width >= Greatest(MinSide, frame.width \div 16)
  /\ box.height >= Greatest(MinSide, frame.height \div 16)
  /\ \A i \in DOMAIN box.marks :
       /\ box.marks[i].x >= 0 /\ Near(box.marks[i].x, box.x, box.width)
       /\ box.marks[i].y >= 0 /\ Near(box.marks[i].y, box.y, box.height)

(* ScoreFaceCandidate: 65 % for the size, up to 12 % of the frame, 25 %    *)
(* for how central the box is, 10 % for its score; all of it multiplied by *)
(* 6000 and the square of the frame's area.                                *)
Rank(box, frame) ==
  LET W == frame.width
      H == frame.height
      size == Least(12 * W * H, 100 * box.width * box.height)
      dx == (2 * box.x + box.width - W) * H
      dy == (2 * box.y + box.height - H) * W
      central == Greatest(0, W * H * W * H - dx * dx - dy * dy)
  IN  325 * size * W * H + 1500 * central
        + 6 * Clamp(box.score, 100) * W * H * W * H

-----------------------------------------------------------------------------
(* CropFaceForRecognition *)

Expanded(box) ==
  LET left   == (100 * box.x - ExpandRatio * box.width) \div 100
      top    == (100 * box.y - ExpandRatio * box.height) \div 100
      right  == Ceil(100 * (box.x + box.width) + ExpandRatio * box.width, 100)
      bottom == Ceil(100 * (box.y + box.height) + ExpandRatio * box.height, 100)
  IN  [x |-> left, y |-> top, width |-> right - left, height |-> bottom - top]

(* PadFrameForFace: borders where the expanded box leaves the frame. *)
Padded(frame, box) ==
  LET wide   == Expanded(box)
      left   == Greatest(0, -wide.x)
      top    == Greatest(0, -wide.y)
      right  == Greatest(0, wide.x + wide.width - frame.width)
      bottom == Greatest(0, wide.y + wide.height - frame.height)
  IN  [frame |-> [width |-> left + frame.width + right,
                  height |-> top + frame.height + bottom],
       left |-> left, top |-> top,
       roi  |-> [wide EXCEPT !.x = @ + left, !.y = @ + top]]

Within(roi, frame) ==
  /\ roi.width > 0 /\ roi.height > 0
  /\ roi.x >= 0 /\ roi.x + roi.width <= frame.width
  /\ roi.y >= 0 /\ roi.y + roi.height <= frame.height

(* AlignFaceForRecognition turns the face by its eyes, which must not be   *)
(* in one place; otherwise the expanded box is cut out as it is.           *)
Alignable(box) ==
  /\ \A i \in DOMAIN box.marks : box.marks[i].x >= 0 /\ box.marks[i].y >= 0
  /\ box.marks[1] # box.marks[2]

Crop(frame, box) ==
  LET padded == Padded(frame, box)
  IN  IF ~Within(padded.roi, padded.frame) THEN "empty"
      ELSE IF Alignable(box) THEN "aligned" ELSE "cut"
=============================================================================
