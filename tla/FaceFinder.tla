----------------------------- MODULE FaceFinder -----------------------------
(***************************************************************************)
(* How the pipe finds the face to recognise in one frame: the proposals of *)
(* the detector, the suppression of those that overlap, the boxes in the   *)
(* frame, the choice of one box and its crop.  One frame after the other   *)
(* is looked at; the model's outputs are chosen freely among Candidates.   *)
(***************************************************************************)
EXTENDS FaceBoxes, SequencesExt

CONSTANTS
  Frames,       \* the sizes a frame may have
  Candidates,   \* the proposals the outputs may decode to
  MaxCandidates \* how many of them a frame yields at most

VARIABLES
  pc,        \* where the poll is
  frame,     \* the frame's size
  proposals, \* the proposals of the frame, at or above the threshold
  pending,   \* those that have not been looked at
  selected,  \* those that are kept, the most probable first
  faces,     \* the boxes Detect returns
  best,      \* the index of the chosen box, 0 while there is none
  crop       \* what was cut out

finderVars == <<pc, frame, proposals, pending, selected, faces, best, crop>>

Stages == {"idle", "infer", "suppress", "choose", "crop", "extract"}

Box == [x : Nat, y : Nat, width : Nat, height : Nat, score : Nat,
        marks : Seq([x : Nat, y : Nat])]

Proposal == [x : Int, y : Int, w : Int, h : Int, score : Nat,
             marks : Seq([x : Int, y : Int])]

ASSUME FinderAssumption ==
  /\ Frames \subseteq [width : Nat \ {0}, height : Nat \ {0}] /\ Frames # {}
  /\ Candidates \subseteq Proposal
  /\ \A c \in Candidates : Len(c.marks) >= 2

(* The type invariant. *)
FinderTypeOK ==
  /\ pc \in Stages
  /\ frame \in Frames
  /\ proposals \subseteq Candidates /\ pending \subseteq proposals
  /\ selected \in Seq(Candidates)
  /\ faces \in Seq(Box)
  /\ best \in 0..Len(faces)
  /\ crop \in {"none", "empty", "aligned", "cut"}

Nothing ==
  /\ proposals = {} /\ pending = {} /\ selected = <<>>
  /\ faces = <<>> /\ best = 0 /\ crop = "none"

FinderInit == pc = "idle" /\ frame \in Frames /\ Nothing

(* The locals of a poll go out of scope. *)
Over ==
  /\ pc' = "idle"
  /\ proposals' = {} /\ pending' = {} /\ selected' = <<>>
  /\ faces' = <<>> /\ best' = 0 /\ crop' = "none"
  /\ UNCHANGED frame

-----------------------------------------------------------------------------
Grab(next) ==
  /\ pc = "idle"
  /\ frame' = next
  /\ pc' = "infer"
  /\ UNCHANGED <<proposals, pending, selected, faces, best, crop>>

DetectFails == pc = "infer" /\ Over

(* AppendOutputProposals *)
Infer(outputs) ==
  /\ pc = "infer"
  /\ proposals' = {p \in outputs : p.score >= ConfThreshold}
  /\ pending' = proposals'
  /\ pc' = "suppress"
  /\ UNCHANGED <<frame, selected, faces, best, crop>>

Kept == {selected[i] : i \in DOMAIN selected}

(* Mutant: a proposal is compared with the last one kept only. *)
SuppressByLast(p) ==
  /\ pc = "suppress"
  /\ p \in pending /\ \A q \in pending : q.score <= p.score
  /\ pending' = pending \ {p}
  /\ selected' = IF selected # <<>> /\ Overlaps(p, selected[Len(selected)])
                 THEN selected ELSE Append(selected, p)
  /\ UNCHANGED <<pc, frame, proposals, faces, best, crop>>

(* The proposals are looked at by falling score, equal ones in any order.  *)
Suppress(p) ==
  /\ pc = "suppress"
  /\ p \in pending /\ \A q \in pending : q.score <= p.score
  /\ pending' = pending \ {p}
  /\ selected' = IF \E q \in Kept : Overlaps(p, q)
                 THEN selected ELSE Append(selected, p)
  /\ UNCHANGED <<pc, frame, proposals, faces, best, crop>>

(* The boxes of the proposals that are kept, but for those too small to    *)
(* see: what the loop has after the first n.                               *)
BoxesOfFirst ==
  LET found[n \in 0..Len(selected)] ==
        IF n = 0 THEN <<>>
        ELSE IF Visible(ToFrame(selected[n], frame))
        THEN Append(found[n - 1], ToFrame(selected[n], frame))
        ELSE found[n - 1]
  IN  found

Decode ==
  /\ pc = "suppress" /\ pending = {}
  /\ faces' = BoxesOfFirst[Len(selected)]
  /\ pc' = "choose"
  /\ UNCHANGED <<frame, proposals, pending, selected, best, crop>>

NoFace == pc = "choose" /\ faces = <<>> /\ Over

(* Mutant: the best box wins, complete or not. *)
AllIndexes == DOMAIN faces

(* Only the complete boxes are looked at, if there are any. *)
Preferred ==
  LET complete == {i \in DOMAIN faces : Complete(faces[i], frame)}
  IN  IF complete = {} THEN DOMAIN faces ELSE complete

(* The scan for the highest rank, and what it has after the first n.       *)
Ahead(i, b) == b = 0 \/ Rank(faces[i], frame) > Rank(faces[b], frame)

BestOfFirst ==
  LET found[n \in 0..Len(faces)] ==
        IF n = 0 THEN 0
        ELSE IF n \in Preferred /\ Ahead(n, found[n - 1]) THEN n
        ELSE found[n - 1]
  IN  found

Choose ==
  /\ pc = "choose" /\ faces # <<>>
  /\ best' = BestOfFirst[Len(faces)]
  /\ pc' = "crop"
  /\ UNCHANGED <<frame, proposals, pending, selected, faces, crop>>

Incomplete == pc = "crop" /\ ~Complete(faces[best], frame) /\ Over

Cut ==
  /\ pc = "crop" /\ Complete(faces[best], frame)
  /\ crop' = Crop(frame, faces[best])
  /\ pc' = "extract"
  /\ UNCHANGED <<frame, proposals, pending, selected, faces, best>>

(* The crop goes to the extractor, an empty one is given up. *)
Extracted == pc = "extract" /\ Over

Find ==
  \/ \E next \in Frames : Grab(next)
  \/ DetectFails
  \/ \E n \in 0..MaxCandidates : \E outputs \in kSubset(n, Candidates) :
       Infer(outputs)
  \/ \E p \in pending : Suppress(p)
  \/ Decode \/ NoFace \/ Choose \/ Incomplete \/ Cut \/ Extracted

FinderSpec == FinderInit /\ [][Find]_finderVars

-----------------------------------------------------------------------------
(* Whatever the order of equal scores: no two of the proposals kept so far *)
(* overlap, and each one dropped overlaps with a kept one that is at least *)
(* as probable, so no face is lost to a suppressed or a weaker proposal.   *)
SuppressionIsSound ==
  /\ \A i, j \in DOMAIN selected :
       i < j => ~Overlaps(selected[j], selected[i])
  /\ \A p \in proposals \ (pending \cup Kept) :
       \E q \in Kept : Overlaps(p, q) /\ q.score >= p.score

InFrame(box) ==
  /\ box.width >= 2 /\ box.height >= 2
  /\ box.x + box.width <= frame.width /\ box.y + box.height <= frame.height
  /\ \A i \in DOMAIN box.marks :
       box.marks[i].x < frame.width /\ box.marks[i].y < frame.height

(* However a proposal lies to the padded input, its box and landmarks are  *)
(* inside the frame, and there is always something to cut out for it: the  *)
(* expanded box lies inside the padded frame.                              *)
FacesInFrame == (\A i \in DOMAIN faces : InFrame(faces[i])) /\ crop # "empty"

(* The chosen box is complete if any is, and no box it was preferred over  *)
(* as one of its kind has a higher rank, or the same and an earlier place. *)
ChoiceIsBest ==
  best # 0 =>
    LET complete == {i \in DOMAIN faces : Complete(faces[i], frame)}
        among    == IF complete = {} THEN DOMAIN faces ELSE complete
    IN  /\ best \in among
        /\ \A i \in among \ {best} :
             IF i < best THEN Rank(faces[i], frame) < Rank(faces[best], frame)
                         ELSE Rank(faces[i], frame) <= Rank(faces[best], frame)
=============================================================================
