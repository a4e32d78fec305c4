------------------------------ MODULE MCVision ------------------------------
(* An instance of Vision for TLC. *)
EXTENDS Vision

At(x, y) == [x |-> x, y |-> y]

Face(x, y, w, h, score, leftEye, rightEye) ==
  [x |-> x, y |-> y, w |-> w, h |-> h, score |-> score,
   marks |-> <<leftEye, rightEye>>]

(* A frame as wide as the input, and one that is scaled down to it. *)
MCFrames == {[width |-> 24, height |-> 16], [width |-> 32, height |-> 16]}

(* A chain of three that overlap in pairs, the most central with an eye    *)
(* outside of its box; boxes that begin and that end outside of the frame, *)
(* a complete one with its eyes in one place, one too small to see, and    *)
(* one below the threshold.                                                *)
MCCandidates ==
  {Face(2, 6, 8, 10, 90, At(4, 8), At(8, 8)),
   Face(4, 6, 8, 10, 90, At(6, 8), At(10, 8)),
   Face(6, 6, 8, 10, 80, At(1, 8), At(12, 8)),
   Face(-3, 5, 8, 9, 70, At(-1, 8), At(3, 8)),
   Face(18, 8, 9, 20, 60, At(20, 9), At(24, 10)),
   Face(14, 8, 7, 7, 90, At(15, 9), At(15, 9)),
   Face(10, 8, 1, 1, 90, At(10, 8), At(11, 8)),
   Face(10, 8, 6, 6, 40, At(10, 8), At(11, 8))}

(* Directions 1 and 3 are opposite. *)
MCCosine(d, e) ==
  IF d = e THEN 100 ELSE IF {d, e} = {1, 3} THEN -100 ELSE 40

Row(name, feature) == [name |-> name, feature |-> feature]

MCFiles ==
  {<<>>,
   <<Row("ann", Raw(1, 1)), Row("bob", Raw(1, 3))>>,
   <<Row("ann", Raw(1, 1)), Row("bob", Unreadable)>>}
=============================================================================
