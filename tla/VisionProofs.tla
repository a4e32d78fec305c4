---------------------------- MODULE VisionProofs ----------------------------
(***************************************************************************)
(* What Vision and its parts promise, for every input size, frame and set  *)
(* of proposals, and every set of people: which proposals are suppressed,  *)
(* that the boxes and the crop are inside the frame, that the best face is *)
(* chosen, that the memory shows the file, that the recogniser answers     *)
(* with the most similar record, and that the models' contexts and outputs *)
(* are all given back.                                                     *)
(***************************************************************************)
EXTENDS Vision, FiniteSetTheorems, SequenceTheorems, WellFoundedInduction, TLAPS

-----------------------------------------------------------------------------
(* Loops.                                                                  *)

(* A set of natural numbers has a least element.                           *)
LEMMA LeastExists ==
  ASSUME NEW S \in SUBSET Nat, S # {}
  PROVE  \E n \in S : \A m \in S : n <= m
<1> DEFINE R == OpToRel(<, Nat)
<1>1. IsWellFoundedOn(R, Nat)
  BY NatLessThanWellFounded
<1>2. \A Q, B, T : IsWellFoundedOn(Q, B) /\ T \subseteq B /\ T # {}
         => \E x \in T : \A y \in T : ~ (<<y, x>> \in Q)
  BY WFMin
<1>3. \A m, n \in Nat : m < n => <<m, n>> \in R
  BY DEF OpToRel
<1>4. \E n \in S : \A m \in S : ~(<<m, n>> \in R)
  <2> HIDE DEF R
  <2> QED BY <1>1, <1>2, Zenon
<1> HIDE DEF R
<1>5. PICK n \in S : \A m \in S : ~(<<m, n>> \in R)
  BY <1>4
<1>6. ASSUME NEW m \in S PROVE n <= m
  <2>1. ~(m < n)
    BY <1>5, <1>3
  <2> QED BY <2>1
<1> QED
  BY <1>6

(* What holds before a loop of N steps, and after each one that it holds   *)
(* before, holds after every one of them.                                  *)
LEMMA LoopStays ==
  ASSUME NEW N \in Nat, NEW S, 0 \in S,
         \A n \in 1..N : n - 1 \in S => n \in S
  PROVE  \A n \in 0..N : n \in S
<1> DEFINE T == {n \in Nat : n <= N /\ n \notin S}
<1> SUFFICES ASSUME T # {} PROVE FALSE
  OBVIOUS
<1>1. PICK n \in T : \A m \in T : n <= m
  BY LeastExists
<1>2. n # 0 /\ n \in 1..N /\ n - 1 \in Nat /\ n - 1 <= N /\ n - 1 \notin T
  BY <1>1
<1> QED
  BY <1>1, <1>2

(* f[n] is what the first n steps of a loop make of its base.              *)
Loops(f, N, V, base, step) ==
  f \in [0..N -> V] /\ f[0] = base /\ \A n \in 1..N : f[n] = step[n][f[n - 1]]

(* The steps of a loop define what it has after each of them.              *)
LEMMA LoopRuns ==
  ASSUME NEW N \in Nat, NEW V, NEW base \in V, NEW step \in [1..N -> [V -> V]]
  PROVE  \E f : Loops(f, N, V, base, step)
<1> DEFINE Runs(f, m) == /\ f \in [0..m -> V] /\ f[0] = base
                         /\ \A n \in 1..m : f[n] = step[n][f[n - 1]]
           S == {m \in Nat : m <= N => \E f : Runs(f, m)}
<1>1. 0 \in S
  <2>1. Runs([i \in 0..0 |-> base], 0)
    OBVIOUS
  <2> QED BY <2>1
<1>2. ASSUME NEW n \in 1..N, n - 1 \in S PROVE n \in S
  <2>1. n \in Nat /\ n - 1 \in Nat /\ n - 1 <= N
    OBVIOUS
  <2>2. PICK g : Runs(g, n - 1)
    BY <1>2, <2>1
  <2>3. /\ g[n - 1] \in V /\ step[n] \in [V -> V]
        /\ \A i \in 0..n - 1 : g[i] \in V
    BY <2>1, <2>2
  <2> DEFINE h == [i \in 0..n |-> IF i = n THEN step[n][g[n - 1]] ELSE g[i]]
  <2>4. h \in [0..n -> V]
    BY <2>1, <2>3
  <2>5. h[0] = base
    BY <2>1, <2>2
  <2>6. ASSUME NEW i \in 1..n PROVE h[i] = step[i][h[i - 1]]
    <3>1. CASE i = n
      <4>1. h[n] = step[n][g[n - 1]] /\ h[n - 1] = g[n - 1]
        BY <2>1
      <4> QED BY <3>1, <4>1
    <3>2. CASE i # n
      <4>1. i \in 1..n - 1 /\ h[i] = g[i] /\ h[i - 1] = g[i - 1]
        BY <2>1, <3>2
      <4> QED BY <2>2, <4>1
    <3> QED BY <3>1, <3>2
  <2>7. Runs(h, n)
    BY <2>4, <2>5, <2>6
  <2> QED BY <2>1, <2>7
<1>3. N \in S
  <2> HIDE DEF S
  <2>1. \A n \in 0..N : n \in S
    BY <1>1, <1>2, LoopStays
  <2> QED BY <2>1
<1> QED
  BY <1>3 DEF Loops

-----------------------------------------------------------------------------
(* The arithmetic of boxes.                                                *)

Size == [width : Nat \ {0}, height : Nat \ {0}]

(* A conversion of a quotient is an integer. *)
LEMMA TruncIsInt ==
  ASSUME NEW a \in Int, NEW b \in Nat \ {0}
  PROVE  Trunc(a, b) \in Int
  BY DEF Trunc

(* Division by 100 rounds down by less than one. *)
LEMMA HundredthBounds ==
  ASSUME NEW a \in Int
  PROVE  /\ a \div 100 \in Int
         /\ 100 * (a \div 100) <= a /\ a < 100 * (a \div 100) + 100
  OBVIOUS

(* Expanding a stretch makes it no shorter. *)
LEMMA ExpandedStretch ==
  ASSUME NEW from \in Nat, NEW length \in Nat, length > 0
  PROVE  LET left  == (100 * from - 15 * length) \div 100
             right == -((-(100 * (from + length) + 15 * length)) \div 100)
         IN  left \in Int /\ right \in Int /\ right - left > 0
<1> DEFINE low  == 100 * from - 15 * length
           high == -(100 * (from + length) + 15 * length)
<1>1. low \in Int /\ high \in Int /\ -high > low
  OBVIOUS
<1> HIDE DEF low, high
<1>2. /\ low \div 100 \in Int /\ 100 * (low \div 100) <= low
      /\ high \div 100 \in Int /\ 100 * (high \div 100) <= high
  BY <1>1, HundredthBounds
<1>3. -(high \div 100) - (low \div 100) > 0
  BY <1>1, <1>2
<1> QED
  BY <1>2, <1>3 DEF low, high

(* Expanding a box makes it no smaller. *)
LEMMA ExpandedIsWider ==
  ASSUME NEW box \in Box, box.width > 0, box.height > 0
  PROVE  /\ Expanded(box).x \in Int /\ Expanded(box).y \in Int
         /\ Expanded(box).width \in Int /\ Expanded(box).height \in Int
         /\ Expanded(box).width > 0 /\ Expanded(box).height > 0
<1>1. box.x \in Nat /\ box.y \in Nat /\ box.width \in Nat /\ box.height \in Nat
  BY DEF Box
<1> DEFINE left   == (100 * box.x - 15 * box.width) \div 100
           right  == -((-(100 * (box.x + box.width) + 15 * box.width)) \div 100)
           top    == (100 * box.y - 15 * box.height) \div 100
           bottom == -((-(100 * (box.y + box.height) + 15 * box.height)) \div 100)
<1>2. left \in Int /\ right \in Int /\ right - left > 0
  BY <1>1, ExpandedStretch
<1>3. top \in Int /\ bottom \in Int /\ bottom - top > 0
  BY <1>1, ExpandedStretch
<1>4. Expanded(box) = [x |-> left, y |-> top,
                       width |-> right - left, height |-> bottom - top]
  BY DEF Expanded, Ceil, ExpandRatio
<1> HIDE DEF left, right, top, bottom
<1> QED
  BY <1>2, <1>3, <1>4

(* The crop: the expanded box is inside the padded frame, so               *)
(* PadFrameForFace never refuses it and there is always something to crop. *)
THEOREM CropIsInside ==
  ASSUME NEW size \in Size, NEW box \in Box, box.width > 0, box.height > 0
  PROVE  Within(Padded(size, box).roi, Padded(size, box).frame)
<1> DEFINE wide == Expanded(box)
<1>1. wide \in [x : Int, y : Int, width : Int, height : Int]
  BY ExpandedIsWider DEF Expanded
<1>2. wide.width > 0 /\ wide.height > 0
  BY ExpandedIsWider
<1>3. size.width \in Nat /\ size.height \in Nat
  BY DEF Size
<1> HIDE DEF wide
<1>4. Padded(size, box) =
        [frame |-> [width |-> Greatest(0, -wide.x) + size.width
                                + Greatest(0, wide.x + wide.width - size.width),
                    height |-> Greatest(0, -wide.y) + size.height
                                + Greatest(0, wide.y + wide.height - size.height)],
         left |-> Greatest(0, -wide.x), top |-> Greatest(0, -wide.y),
         roi |-> [wide EXCEPT !.x = @ + Greatest(0, -wide.x),
                              !.y = @ + Greatest(0, -wide.y)]]
  BY DEF Padded, wide
<1> DEFINE left   == Greatest(0, -wide.x)
           right  == Greatest(0, wide.x + wide.width - size.width)
           top    == Greatest(0, -wide.y)
           bottom == Greatest(0, wide.y + wide.height - size.height)
<1>5. /\ left \in Nat /\ wide.x + left >= 0
      /\ right \in Nat /\ wide.x + wide.width <= size.width + right
      /\ top \in Nat /\ wide.y + top >= 0
      /\ bottom \in Nat /\ wide.y + wide.height <= size.height + bottom
  BY <1>1, <1>3 DEF Greatest
<1> HIDE DEF left, right, top, bottom
<1>6. LET roi == [wide EXCEPT !.x = @ + left, !.y = @ + top]
      IN  /\ roi.x = wide.x + left /\ roi.y = wide.y + top
          /\ roi.width = wide.width /\ roi.height = wide.height
  BY <1>1
<1>7. /\ Padded(size, box).roi = [wide EXCEPT !.x = @ + left, !.y = @ + top]
      /\ Padded(size, box).frame = [width |-> left + size.width + right,
                                    height |-> top + size.height + bottom]
  BY <1>4 DEF left, right, top, bottom
<1> QED
  BY <1>1, <1>2, <1>3, <1>5, <1>6, <1>7 DEF Within

-----------------------------------------------------------------------------
(* The scale of a frame is a positive fraction. *)
LEMMA ScaleIsPositive ==
  ASSUME NEW size \in Size
  PROVE  Scale(size).num \in Nat \ {0} /\ Scale(size).den \in Nat \ {0}
  BY BoxAssumption DEF Scale, Size

(* A padding is an integer. *)
LEMMA PadIsInt ==
  ASSUME NEW size \in Size, NEW input \in Nat, NEW length \in Nat
  PROVE  Pad(input, length, Scale(size)) \in Int
  BY ScaleIsPositive DEF Pad, Round, Greatest

(* An element of a sequence of landmarks is a landmark. *)
LEMMA LandmarkIsInt ==
  ASSUME NEW points \in Seq([x : Int, y : Int]), NEW i \in DOMAIN points
  PROVE  points[i].x \in Int /\ points[i].y \in Int
<1> DEFINE Point == [x : Int, y : Int]
<1>1. points \in Seq(Point) /\ DOMAIN points = 1..Len(points)
  OBVIOUS
<1> HIDE DEF Point
<1>2. points[i] \in Point
  BY <1>1, ElementOfSeq
<1> QED
  BY <1>2 DEF Point

(* Decoding: wherever a proposal lies, and whatever its landmarks, its box *)
(* and they are inside the frame.                                          *)
THEOREM ToFrameInFrame ==
  ASSUME NEW size \in Size, NEW p \in Proposal
  PROVE  LET box == ToFrame(p, size)
         IN  /\ box \in Box
             /\ box.x + box.width <= size.width
             /\ box.y + box.height <= size.height
             /\ \A i \in DOMAIN box.marks :
                  box.marks[i].x < size.width /\ box.marks[i].y < size.height
<1> DEFINE scale == Scale(size)
           In(length) == Trunc(length * scale.den, scale.num)
           xPad == Pad(InputWidth, size.width, scale)
           yPad == Pad(InputHeight, size.height, scale)
           x == Clamp(In(p.x - xPad), size.width - 1)
           y == Clamp(In(p.y - yPad), size.height - 1)
           width  == Clamp(In(p.w), size.width - x)
           height == Clamp(In(p.h), size.height - y)
           Mark(i) == [x |-> Clamp(In(p.marks[i].x - xPad), size.width - 1),
                       y |-> Clamp(In(p.marks[i].y - yPad), size.height - 1)]
           marks == [i \in DOMAIN p.marks |-> Mark(i)]
<1>1. size.width \in Nat \ {0} /\ size.height \in Nat \ {0}
  BY DEF Size
<1>2. xPad \in Int /\ yPad \in Int
  BY <1>1, PadIsInt, BoxAssumption
<1>3. ASSUME NEW length \in Int PROVE In(length) \in Int
  BY ScaleIsPositive, TruncIsInt
<1>4. /\ p.x \in Int /\ p.y \in Int /\ p.w \in Int /\ p.h \in Int /\ p.score \in Nat
      /\ p.marks \in Seq([x : Int, y : Int])
  BY DEF Proposal
<1>5. ToFrame(p, size) = [x |-> x, y |-> y, width |-> width, height |-> height,
                          score |-> p.score, marks |-> marks]
  BY DEF ToFrame
<1> HIDE DEF In, scale, xPad, yPad
<1>6. /\ In(p.x - xPad) \in Int /\ In(p.y - yPad) \in Int
      /\ In(p.w) \in Int /\ In(p.h) \in Int
  <2>1. p.x - xPad \in Int /\ p.y - yPad \in Int
    BY <1>2, <1>4
  <2> QED
    BY <1>3, <1>4, <2>1
<1>7. /\ x \in Nat /\ x <= size.width - 1
      /\ y \in Nat /\ y <= size.height - 1
      /\ width \in Nat /\ width <= size.width - x
      /\ height \in Nat /\ height <= size.height - y
  <2>1. x \in Nat /\ x <= size.width - 1
    BY <1>1, <1>6 DEF Clamp, Greatest, Least
  <2>2. y \in Nat /\ y <= size.height - 1
    BY <1>1, <1>6 DEF Clamp, Greatest, Least
  <2> HIDE DEF x, y
  <2>3. width \in Nat /\ width <= size.width - x
    BY <1>1, <1>6, <2>1 DEF Clamp, Greatest, Least
  <2>4. height \in Nat /\ height <= size.height - y
    BY <1>1, <1>6, <2>2 DEF Clamp, Greatest, Least
  <2> QED
    BY <2>1, <2>2, <2>3, <2>4
<1>8. ASSUME NEW i \in DOMAIN p.marks
      PROVE  /\ Mark(i) \in [x : Nat, y : Nat]
             /\ Mark(i).x < size.width /\ Mark(i).y < size.height
  <2>1. p.marks[i].x \in Int /\ p.marks[i].y \in Int
    BY <1>4, LandmarkIsInt
  <2>2. In(p.marks[i].x - xPad) \in Int /\ In(p.marks[i].y - yPad) \in Int
    BY <1>2, <1>3, <2>1
  <2> QED
    BY <1>1, <2>2 DEF Clamp, Greatest, Least
<1>9. marks \in Seq([x : Nat, y : Nat])
  <2>1. DOMAIN p.marks = 1..Len(p.marks) /\ Len(p.marks) \in Nat
    BY <1>4
  <2> HIDE DEF Mark
  <2> QED
    BY <1>8, <2>1
<1> HIDE DEF x, y, width, height, Mark
<1>10. ToFrame(p, size) \in Box
  BY <1>4, <1>5, <1>7, <1>9 DEF Box
<1>11. \A i \in DOMAIN marks : marks[i].x < size.width /\ marks[i].y < size.height
  BY <1>8
<1> HIDE DEF marks
<1> QED
  BY <1>1, <1>5, <1>7, <1>10, <1>11


-----------------------------------------------------------------------------
(* The loops over the proposals and over the boxes.                        *)

(* The boxes that can be seen and are inside a frame of that size.         *)
BoxesIn(size) ==
  {b \in Box : /\ b.width >= 2 /\ b.height >= 2
               /\ b.x + b.width <= size.width /\ b.y + b.height <= size.height
               /\ \A i \in DOMAIN b.marks :
                    b.marks[i].x < size.width /\ b.marks[i].y < size.height}

(* What is not too small to see of a proposal.                             *)
LEMMA VisibleIsInFrame ==
  ASSUME NEW size \in Size, NEW p \in Proposal, Visible(ToFrame(p, size))
  PROVE  ToFrame(p, size) \in BoxesIn(size)
<1> DEFINE b == ToFrame(p, size)
<1>1. /\ b \in Box
      /\ b.x + b.width <= size.width /\ b.y + b.height <= size.height
      /\ \A i \in DOMAIN b.marks :
           b.marks[i].x < size.width /\ b.marks[i].y < size.height
  BY ToFrameInFrame
<1>2. b.width > 1 /\ b.height > 1
  BY DEF Visible
<1> HIDE DEF b
<1>3. b.width \in Nat /\ b.height \in Nat
  BY <1>1 DEF Box
<1>4. b \in BoxesIn(size)
  BY <1>1, <1>2, <1>3 DEF BoxesIn
<1> QED
  BY <1>4 DEF b

(* Whatever is kept, the boxes are inside the frame.                       *)
LEMMA BoxesFound ==
  ASSUME frame \in Size, selected \in Seq(Proposal)
  PROVE  BoxesOfFirst[Len(selected)] \in Seq(BoxesIn(frame))
<1> DEFINE N == Len(selected)
           V == Seq(BoxesIn(frame))
           At(n) == ToFrame(selected[n], frame)
           Next1(n, s) == IF Visible(At(n)) THEN Append(s, At(n)) ELSE s
           step == [n \in 1..N |-> [s \in V |-> Next1(n, s)]]
           Is(g) == g = [n \in 0..N |->
                          IF n = 0 THEN <<>>
                          ELSE IF Visible(At(n)) THEN Append(g[n - 1], At(n))
                          ELSE g[n - 1]]
<1>0. N \in Nat
  OBVIOUS
<1>1. N \in Nat /\ \A n \in 1..N : selected[n] \in Proposal
  OBVIOUS
<1>2. ASSUME NEW n \in 1..N, NEW s \in V PROVE Next1(n, s) \in V
  <2>1. CASE Visible(At(n))
    <3>1. At(n) \in BoxesIn(frame)
      BY <1>1, <2>1, VisibleIsInFrame
    <3> QED BY <2>1, <3>1, AppendProperties
  <2> QED BY <2>1
<1>3. <<>> \in V
  OBVIOUS
<1>4. step \in [1..N -> [V -> V]]
  <2> HIDE DEF Next1, V, N
  <2> QED BY <1>2
<1>5. \E f : Is(f)
  <2>1. <<>> \in V
    BY <1>0
  <2>2. PICK f : Loops(f, N, V, <<>>, step)
    <3> HIDE DEF step, V, N
    <3> QED BY <1>0, <1>4, <2>1, LoopRuns
  <2>3. ASSUME NEW n \in 1..N PROVE f[n] = Next1(n, f[n - 1])
    <3>1. n - 1 \in 0..N
      BY <1>0
    <3>2. f[n - 1] \in V /\ f[n] = step[n][f[n - 1]]
      <4> HIDE DEF step, V, N
      <4> QED BY <2>2, <3>1 DEF Loops
    <3> QED BY <3>2
  <2>4. f = [n \in 0..N |-> f[n]] /\ f[0] = <<>>
    BY <2>2 DEF Loops
  <2> HIDE DEF V, N, Next1
  <2>5. \A n \in 0..N : n # 0 => n \in 1..N
    BY <1>0
  <2> QED BY <2>3, <2>4, <2>5 DEF Next1
<1>7. Is(BoxesOfFirst)
  <2>1. BoxesOfFirst = CHOOSE g : Is(g)
    BY DEF BoxesOfFirst
  <2> HIDE DEF Is
  <2> QED BY <1>5, <2>1
<1> DEFINE B == BoxesOfFirst
           S == {n \in Nat : n <= N => B[n] \in V}
<1>8. B[0] = <<>> /\ \A n \in 1..N : B[n] = Next1(n, B[n - 1])
  <2> HIDE DEF B, At, N
  <2>1. Is(B)
    BY <1>7 DEF B
  <2>2. B[0] = <<>>
    BY <1>0, <2>1
  <2>3. ASSUME NEW n \in 1..N PROVE B[n] = Next1(n, B[n - 1])
    <3>1. n \in 0..N /\ n # 0
      BY <1>0
    <3> QED BY <2>1, <3>1
  <2> QED BY <2>2, <2>3
<1> HIDE DEF B, V, N, Next1
<1>9. 0 \in S
  BY <1>3, <1>8
<1>10. ASSUME NEW n \in 1..N, n - 1 \in S PROVE n \in S
  BY <1>1, <1>2, <1>8, <1>10
<1>11. N \in S
  <2> HIDE DEF S
  <2>1. \A n \in 0..N : n \in S
    BY <1>1, <1>9, <1>10, LoopStays
  <2> QED BY <1>1, <2>1
<1>12. B[N] \in V
  BY <1>1, <1>11
<1> QED
  BY <1>12 DEF B, V, N

(* A rank is an integer, so any two can be compared.                       *)
LEMMA RankIsInt ==
  ASSUME NEW size \in Size, NEW b \in Box
  PROVE  Rank(b, size) \in Int
<1> DEFINE W == size.width
           H == size.height
           part == Least(12 * W * H, 100 * b.width * b.height)
           dx == (2 * b.x + b.width - W) * H
           dy == (2 * b.y + b.height - H) * W
           central == Greatest(0, W * H * W * H - dx * dx - dy * dy)
           sure == Clamp(b.score, 100)
<1>1. W \in Int /\ H \in Int /\ b.x \in Int /\ b.y \in Int
      /\ b.width \in Int /\ b.height \in Int /\ b.score \in Int
  BY DEF Box, Size
<1>2. Rank(b, size) = 325 * part * W * H + 1500 * central
                        + 6 * sure * W * H * W * H
  BY DEF Rank
<1>3. dx \in Int /\ dy \in Int
  BY <1>1
<1>4. part \in Int /\ sure \in Int
  BY <1>1 DEF Least, Clamp, Greatest
<1> HIDE DEF dx, dy
<1>5. central \in Int
  BY <1>1, <1>3 DEF Greatest
<1> HIDE DEF part, central, sure, W, H
<1>6. part * W * H \in Int /\ sure * W * H * W * H \in Int
  BY <1>1, <1>4
<1>7. 325 * part * W * H \in Int /\ 1500 * central \in Int
      /\ 6 * sure * W * H * W * H \in Int
  BY <1>1, <1>4, <1>5
<1> QED
  BY <1>2, <1>7

(* What the scan for the best box has after the first n: none of them is   *)
(* ahead of it.                                                            *)
BestSoFar(n, b) ==
  /\ b \in Nat /\ b <= n
  /\ b = 0 => \A i \in 1..n : i \notin Preferred
  /\ b # 0 => /\ b \in Preferred
              /\ \A i \in 1..n : i \in Preferred =>
                   /\ i < b => Rank(faces[i], frame) < Rank(faces[b], frame)
                   /\ Rank(faces[i], frame) <= Rank(faces[b], frame)

(* After the whole scan of pick_best_face the best box so far is the best of
   all the frame's boxes. *)
LEMMA BestFound ==
  ASSUME frame \in Size, faces \in Seq(Box)
  PROVE  BestSoFar(Len(faces), BestOfFirst[Len(faces)])
<1> DEFINE N == Len(faces)
           R(i) == Rank(faces[i], frame)
           Next1(n, b) == IF n \in Preferred /\ Ahead(n, b) THEN n ELSE b
           step == [n \in 1..N |-> [b \in 0..N |-> Next1(n, b)]]
           Is(g) == g = [n \in 0..N |->
                          IF n = 0 THEN 0
                          ELSE IF n \in Preferred /\ Ahead(n, g[n - 1]) THEN n
                          ELSE g[n - 1]]
<1>0. N \in Nat
  OBVIOUS
<1>1. N \in Nat /\ \A n \in 1..N : faces[n] \in Box
  OBVIOUS
<1>2. \A n \in 1..N : R(n) \in Int
  BY <1>1, RankIsInt
<1>3. step \in [1..N -> [0..N -> 0..N]]
  <2> HIDE DEF N
  <2> QED BY <1>1
<1>4. \E f : Is(f)
  <2>1. 0 \in 0..N
    BY <1>0
  <2>2. PICK f : Loops(f, N, 0..N, 0, step)
    <3> HIDE DEF step, N
    <3> QED BY <1>0, <1>3, <2>1, LoopRuns
  <2>3. ASSUME NEW n \in 1..N PROVE f[n] = Next1(n, f[n - 1])
    <3>1. n - 1 \in 0..N
      BY <1>0
    <3>2. f[n - 1] \in 0..N /\ f[n] = step[n][f[n - 1]]
      <4> HIDE DEF step, N
      <4> QED BY <2>2, <3>1 DEF Loops
    <3> QED BY <3>2
  <2>4. f = [n \in 0..N |-> f[n]] /\ f[0] = 0
    BY <2>2 DEF Loops
  <2> HIDE DEF N, Next1
  <2>5. \A n \in 0..N : n # 0 => n \in 1..N
    BY <1>0
  <2> QED BY <2>3, <2>4, <2>5 DEF Next1
<1>6. Is(BestOfFirst)
  <2>1. BestOfFirst = CHOOSE g : Is(g)
    BY DEF BestOfFirst
  <2> HIDE DEF Is
  <2> QED BY <1>4, <2>1
<1> DEFINE B == BestOfFirst
           S == {n \in Nat : n <= N => BestSoFar(n, B[n])}
<1>7. B[0] = 0 /\ \A n \in 1..N : B[n] = Next1(n, B[n - 1])
  <2> HIDE DEF B, N
  <2>1. Is(B)
    BY <1>6 DEF B
  <2> QED BY <1>0, <2>1
<1> HIDE DEF B, N
<1>8. 0 \in S
  BY <1>7 DEF BestSoFar
<1>9. ASSUME NEW n \in 1..N, n - 1 \in S PROVE n \in S
  <2>1. n \in Nat /\ n - 1 \in Nat /\ n <= N /\ n - 1 <= N
    BY <1>1
  <2> DEFINE b == B[n - 1]
  <2>2. BestSoFar(n - 1, b) /\ B[n] = Next1(n, b)
    BY <1>7, <1>9, <2>1
  <2> HIDE DEF b
  <2>3. /\ b \in Nat /\ b <= n - 1
        /\ b = 0 => \A i \in 1..n - 1 : i \notin Preferred
        /\ b # 0 => /\ b \in Preferred
                    /\ \A i \in 1..n - 1 : i \in Preferred =>
                         (i < b => R(i) < R(b)) /\ R(i) <= R(b)
    BY <2>2 DEF BestSoFar
  <2>4. \A i \in 1..n : (i \in 1..n - 1 \/ i = n) /\ i \in 1..N /\ R(i) \in Int
    BY <1>1, <1>2, <2>1
  <2>5. b # 0 => b \in 1..n - 1 /\ R(b) \in Int
    BY <2>3, <2>4
  <2>6. Ahead(n, b) <=> b = 0 \/ R(n) > R(b)
    BY DEF Ahead
  <2> HIDE DEF R
  <2>7. CASE n \in Preferred /\ Ahead(n, b)
    <3>1. B[n] = n
      BY <2>2, <2>7
    <3>2. ASSUME NEW i \in 1..n, i \in Preferred
          PROVE  (i < n => R(i) < R(n)) /\ R(i) <= R(n)
      <4>1. CASE i = n
        BY <4>1, <2>4
      <4>2. CASE i \in 1..n - 1
        <5>1. b # 0
          BY <2>3, <3>2, <4>2
        <5>2. R(i) <= R(b) /\ R(n) > R(b)
          BY <2>3, <2>6, <2>7, <3>2, <4>2, <5>1
        <5>3. R(i) \in Int /\ R(n) \in Int /\ R(b) \in Int
          BY <2>1, <2>4, <2>5, <5>1
        <5> QED BY <5>2, <5>3
      <4> QED BY <2>4, <4>1, <4>2
    <3>3. BestSoFar(n, n)
      BY <2>1, <2>7, <3>2 DEF BestSoFar, R
    <3> QED BY <3>1, <3>3
  <2>8. CASE ~(n \in Preferred /\ Ahead(n, b))
    <3>1. B[n] = b
      BY <2>2, <2>8
    <3>2. CASE b = 0
      <4>1. \A i \in 1..n : i \notin Preferred
        BY <2>3, <2>4, <2>6, <2>8, <3>2
      <4> QED BY <2>1, <3>1, <3>2, <4>1 DEF BestSoFar
    <3>3. CASE b # 0
      <4>1. ASSUME NEW i \in 1..n, i \in Preferred
            PROVE  (i < b => R(i) < R(b)) /\ R(i) <= R(b)
        <5>1. CASE i = n
          <6>1. ~(R(n) > R(b)) /\ R(n) \in Int /\ R(b) \in Int
            BY <2>1, <2>4, <2>5, <2>6, <2>8, <3>3, <4>1, <5>1
          <6> QED BY <2>3, <5>1, <6>1
        <5>2. CASE i \in 1..n - 1
          BY <2>3, <3>3, <4>1, <5>2
        <5> QED BY <2>4, <5>1, <5>2
      <4>2. b \in Nat /\ b <= n /\ b \in Preferred
        BY <2>1, <2>3, <3>3
      <4> QED BY <3>1, <3>3, <4>1, <4>2 DEF BestSoFar, R
    <3> QED BY <3>2, <3>3
  <2> QED BY <2>1, <2>7, <2>8
<1>10. N \in S
  <2> HIDE DEF S
  <2>1. \A n \in 0..N : n \in S
    BY <1>1, <1>8, <1>9, LoopStays
  <2> QED BY <1>1, <2>1
<1>11. BestSoFar(N, B[N])
  BY <1>1, <1>10
<1> QED
  BY <1>11 DEF B, N
(* The parts of the type invariant that the properties rest on. *)
Typed ==
  /\ pc \in Stages
  /\ frame \in Frames
  /\ proposals \subseteq Candidates /\ pending \subseteq proposals
  /\ selected \in Seq(proposals)

(* Everything is empty before the outputs are there. *)
NothingYet ==
  pc \in {"idle", "infer"} => proposals = {} /\ pending = {} /\ selected = <<>>

(* What has been kept is at least as probable as what is still to come. *)
KeptFirst == \A q \in Kept : \A p \in pending : p.score <= q.score

SuppressInv == Typed /\ NothingYet /\ KeptFirst /\ SuppressionIsSound

-----------------------------------------------------------------------------
(* The invariant holds when the first frame is awaited, ... *)
LEMMA SuppressStarts == FinderInit => SuppressInv
  BY DEF FinderInit, Nothing, SuppressInv, Typed, Stages, NothingYet, KeptFirst,
         Kept, SuppressionIsSound

(* ... and every step preserves it. *)
LEMMA SuppressSteps == SuppressInv /\ [Find]_finderVars => SuppressInv'
<1> SUFFICES ASSUME SuppressInv, [Find]_finderVars
             PROVE  SuppressInv'
  OBVIOUS
<1> USE DEF SuppressInv, Typed, Stages, NothingYet, KeptFirst, Kept, SuppressionIsSound
<1>1. ASSUME NEW next \in Frames, Grab(next) PROVE SuppressInv'
  BY <1>1 DEF Grab
<1>2. ASSUME Over PROVE SuppressInv'
  BY <1>2 DEF Over
<1>3. ASSUME NEW some \in SUBSET Candidates, Infer(some) PROVE SuppressInv'
  BY <1>3 DEF Infer
<1>4. ASSUME NEW p \in pending, Suppress(p) PROVE SuppressInv'
  <2>1. /\ pending' = pending \ {p}
        /\ pc = "suppress" /\ UNCHANGED <<pc, frame, proposals>>
        /\ \A q \in pending : q.score <= p.score
    BY <1>4 DEF Suppress
  <2>2. \A q \in proposals : q.score \in Nat
    BY FinderAssumption DEF Proposal
  <2>3. CASE \E q \in Kept : Overlaps(p, q)
    <3>1. selected' = selected
      BY <1>4, <2>3 DEF Suppress
    <3>2. PICK q \in Kept : Overlaps(p, q)
      BY <2>3
    <3>3. q.score >= p.score
      BY <2>2, <3>2
    <3> QED
      BY <2>1, <3>1, <3>2, <3>3
  <2>4. CASE ~ \E q \in Kept : Overlaps(p, q)
    <3> DEFINE n == Len(selected)
    <3>1. selected' = Append(selected, p)
      BY <1>4, <2>4 DEF Suppress
    <3>2. /\ selected' \in Seq(proposals) /\ n \in Nat
          /\ DOMAIN selected = 1..n /\ DOMAIN selected' = 1..n+1
          /\ \A i \in 1..n : selected'[i] = selected[i]
          /\ selected'[n+1] = p
      BY <3>1, AppendProperties
    <3> HIDE DEF n
    <3>3. Kept' = Kept \cup {p}
      <4>1. Kept' \subseteq Kept \cup {p}
        BY <3>2
      <4>2. \A q \in Kept : q \in Kept'
        <5> TAKE q \in Kept
        <5>1. PICK i \in 1..n : q = selected[i]
          BY <3>2
        <5> QED
          BY <3>2, <5>1
      <4>3. p \in Kept'
        BY <3>2
      <4> QED
        BY <4>1, <4>2, <4>3
    <3>4. KeptFirst'
      <4>1. \A q \in pending' : q.score <= p.score
        BY <2>1
      <4> QED
        BY <2>1, <3>3, <4>1
    <3>5. \A i, j \in DOMAIN selected' :
            i < j => ~Overlaps(selected'[j], selected'[i])
      <4> TAKE i, j \in DOMAIN selected'
      <4> HAVE i < j
      <4>1. CASE j = n + 1
        <5>1. i \in 1..n /\ selected'[i] \in Kept /\ selected'[j] = p
          BY <3>2, <4>1
        <5> QED
          BY <2>4, <5>1
      <4>2. CASE j # n + 1
        <5>1. i \in 1..n /\ j \in 1..n
          BY <3>2, <4>2
        <5> QED
          BY <3>2, <5>1
      <4> QED
        BY <4>1, <4>2
    <3>6. SuppressionIsSound'
      BY <2>1, <3>3, <3>5
    <3> QED
      BY <2>1, <3>2, <3>4, <3>6
  <2> QED
    BY <2>3, <2>4
<1>5. ASSUME Decode PROVE SuppressInv'
  <2>1. /\ pc' = "choose" /\ UNCHANGED <<frame, proposals, pending, selected>>
    BY <1>5 DEF Decode
  <2> QED
    BY <2>1
<1>6. ASSUME Choose \/ Cut PROVE SuppressInv'
  BY <1>6 DEF Choose, Cut
<1>7. ASSUME UNCHANGED finderVars PROVE SuppressInv'
  BY <1>7 DEF finderVars
<1>8. QED
  BY <1>1, <1>2, <1>3, <1>4, <1>5, <1>6, <1>7
     DEF Find, kSubset, DetectFails, NoFace, Incomplete, Extracted

-----------------------------------------------------------------------------
(* The boxes, the choice and the crop.                                     *)

(* Where there are boxes, where one is chosen, and what they are.          *)
FacesInv ==
  /\ faces \in Seq(BoxesIn(frame))
  /\ faces # <<>> => pc \in {"choose", "crop", "extract"}
  /\ best \in Nat /\ best <= Len(faces)
  /\ best # 0 <=> pc \in {"crop", "extract"}
  /\ crop \in {"none", "aligned", "cut"}

(* Boxes that lie in a frame are boxes. *)
LEMMA BoxesAreBoxes ==
  ASSUME NEW size, NEW s \in Seq(BoxesIn(size))
  PROVE  s \in Seq(Box) /\ \A i \in DOMAIN s : s[i] \in BoxesIn(size)
<1>1. BoxesIn(size) \subseteq Box
  BY DEF BoxesIn
<1>2. \A i \in 1..Len(s) : s[i] \in BoxesIn(size)
  OBVIOUS
<1>3. DOMAIN s = 1..Len(s) /\ s \in [1..Len(s) -> Box] /\ Len(s) \in Nat
  BY <1>1
<1>4. s \in Seq(Box)
  BY <1>3
<1> QED
  BY <1>2, <1>3, <1>4

(* The frames and proposals of the constants have the shapes of the model. *)
LEMMA FramesHaveSizes == Frames \subseteq Size /\ Candidates \subseteq Proposal
  BY FinderAssumption DEF Size

(* The scan chooses one, if there is any box.                              *)
LEMMA ChoosesOne ==
  ASSUME frame \in Size, faces \in Seq(Box), faces # <<>>,
         NEW b, BestSoFar(Len(faces), b)
  PROVE  b \in Nat /\ b # 0 /\ b <= Len(faces)
<1>1. Len(faces) \in Nat /\ 1 \in DOMAIN faces /\ DOMAIN faces = 1..Len(faces)
  OBVIOUS
<1>2. Preferred # {} /\ Preferred \subseteq 1..Len(faces)
  BY <1>1 DEF Preferred
<1>3. b \in Nat /\ b <= Len(faces) /\ (b = 0 => \A i \in 1..Len(faces) : i \notin Preferred)
  BY DEF BestSoFar
<1> QED
  BY <1>2, <1>3

(* What is chosen is the best.                                             *)
ChosenBest == best # 0 => BestSoFar(Len(faces), best)

(* Before the first frame there are no faces and no choice. *)
LEMMA FindsStart == FinderInit => FacesInv /\ ChosenBest
<1> SUFFICES ASSUME FinderInit PROVE FacesInv /\ ChosenBest
  OBVIOUS
<1>1. /\ pc = "idle" /\ faces = <<>> /\ best = 0 /\ crop = "none"
  BY DEF FinderInit, Nothing
<1>2. faces \in Seq(BoxesIn(frame)) /\ Len(faces) = 0
  BY <1>1
<1> QED
  BY <1>1, <1>2 DEF FacesInv, ChosenBest

(* Every step of the finder keeps its faces in the frame and its choice the
   best of them. *)
LEMMA FindsSteps ==
  FacesInv /\ ChosenBest /\ SuppressInv /\ [Find]_finderVars
    => FacesInv' /\ ChosenBest'
<1> SUFFICES ASSUME FacesInv, ChosenBest, SuppressInv, [Find]_finderVars
             PROVE  FacesInv' /\ ChosenBest'
  OBVIOUS
<1>1. frame \in Size /\ selected \in Seq(Proposal)
  <2>1. proposals \subseteq Proposal /\ selected \in Seq(proposals) /\ frame \in Frames
    BY FramesHaveSizes DEF SuppressInv, Typed
  <2>2. \A i \in 1..Len(selected) : selected[i] \in Proposal
    BY <2>1
  <2> QED
    BY <2>1, <2>2, FramesHaveSizes
<1>2. /\ faces \in Seq(Box) /\ Len(faces) \in Nat
      /\ \A i \in DOMAIN faces : faces[i] \in BoxesIn(frame)
  BY BoxesAreBoxes DEF FacesInv
<1>3. ASSUME pc' \in {"idle", "infer", "suppress"}, faces' = <<>>, best' = 0,
             crop' \in {"none", "aligned", "cut"}
      PROVE  FacesInv' /\ ChosenBest'
  <2>1. faces' \in Seq(BoxesIn(frame')) /\ Len(faces') = 0
    BY <1>3
  <2> QED
    BY <1>3, <2>1 DEF FacesInv, ChosenBest
<1>4. ASSUME Over PROVE FacesInv' /\ ChosenBest'
  BY <1>3, <1>4 DEF Over
<1>5. ASSUME pc \in {"idle", "infer", "suppress"}
      PROVE  faces = <<>> /\ best = 0
  BY <1>5 DEF FacesInv
<1>6. ASSUME NEW next \in Frames, Grab(next) PROVE FacesInv' /\ ChosenBest'
  BY <1>3, <1>5, <1>6 DEF Grab, FacesInv
<1>7. ASSUME NEW some, Infer(some) PROVE FacesInv' /\ ChosenBest'
  BY <1>3, <1>5, <1>7 DEF Infer, FacesInv
<1>8. ASSUME NEW p \in pending, Suppress(p) PROVE FacesInv' /\ ChosenBest'
  <2>1. pc = "suppress" /\ UNCHANGED <<pc, frame, proposals, faces, best, crop>>
    BY <1>8 DEF Suppress
  <2> QED
    BY <1>3, <1>5, <2>1 DEF FacesInv
<1>9. ASSUME Decode PROVE FacesInv' /\ ChosenBest'
  <2>1. /\ pc = "suppress" /\ pc' = "choose" /\ faces' = BoxesOfFirst[Len(selected)]
        /\ frame' = frame /\ best' = best /\ crop' = crop
    BY <1>9 DEF Decode
  <2>2. faces' \in Seq(BoxesIn(frame')) /\ best' = 0
    BY <1>1, <1>5, <2>1, BoxesFound
  <2>3. Len(faces') \in Nat
    BY <2>2
  <2> QED
    BY <2>1, <2>2, <2>3 DEF FacesInv, ChosenBest
<1>10. ASSUME Choose PROVE FacesInv' /\ ChosenBest'
  <2>1. /\ faces # <<>> /\ best' = BestOfFirst[Len(faces)] /\ pc' = "crop"
        /\ frame' = frame /\ faces' = faces /\ crop' = crop
    BY <1>10 DEF Choose
  <2>2. BestSoFar(Len(faces), best')
    BY <1>1, <1>2, <2>1, BestFound
  <2>3. BestSoFar(Len(faces), best)'
    BY <2>1, <2>2 DEF BestSoFar, Preferred
  <2>4. best' \in Nat /\ best' # 0 /\ best' <= Len(faces)
    BY <1>1, <1>2, <2>1, <2>2, ChoosesOne
  <2> QED
    BY <2>1, <2>3, <2>4 DEF FacesInv, ChosenBest
<1>11. ASSUME Cut PROVE FacesInv' /\ ChosenBest'
  <2>1. /\ pc = "crop" /\ pc' = "extract" /\ crop' = Crop(frame, faces[best])
        /\ UNCHANGED <<frame, faces, best>>
    BY <1>11 DEF Cut
  <2>2. best \in DOMAIN faces
    BY <1>2, <2>1 DEF FacesInv
  <2>3. /\ faces[best] \in Box
        /\ faces[best].width > 0 /\ faces[best].height > 0
    <3>1. faces[best] \in BoxesIn(frame)
      BY <1>2, <2>2
    <3>2. faces[best].width \in Nat /\ faces[best].height \in Nat
      BY <3>1 DEF BoxesIn, Box
    <3> QED
      BY <3>1, <3>2 DEF BoxesIn
  <2>4. Within(Padded(frame, faces[best]).roi, Padded(frame, faces[best]).frame)
    BY <1>1, <2>3, CropIsInside
  <2>5. crop' \in {"aligned", "cut"}
    BY <2>1, <2>4 DEF Crop
  <2>6. ChosenBest'
    BY <2>1 DEF ChosenBest, BestSoFar, Preferred
  <2> QED
    BY <2>1, <2>5, <2>6 DEF FacesInv
<1>12. ASSUME UNCHANGED finderVars PROVE FacesInv' /\ ChosenBest'
  BY <1>12 DEF finderVars, FacesInv, ChosenBest, BestSoFar, Preferred
<1> QED
  BY <1>4, <1>6, <1>7, <1>8, <1>9, <1>10, <1>11, <1>12
     DEF Find, DetectFails, NoFace, Incomplete, Extracted

(* What these say: the type invariant, the boxes in the frame, the choice. *)
LEMMA FindsWell ==
  FacesInv /\ ChosenBest /\ SuppressInv
    => FinderTypeOK /\ FacesInFrame /\ ChoiceIsBest
<1> SUFFICES ASSUME FacesInv, ChosenBest, SuppressInv
             PROVE  FinderTypeOK /\ FacesInFrame /\ ChoiceIsBest
  OBVIOUS
<1>1. /\ faces \in Seq(Box) /\ Len(faces) \in Nat /\ DOMAIN faces = 1..Len(faces)
      /\ \A i \in DOMAIN faces : faces[i] \in BoxesIn(frame)
  BY BoxesAreBoxes DEF FacesInv
<1>2. frame \in Size
  BY FramesHaveSizes DEF SuppressInv, Typed
<1>3. FinderTypeOK
  <2>1. proposals \subseteq Candidates /\ selected \in Seq(proposals)
    BY DEF SuppressInv, Typed
  <2>2. selected \in Seq(Candidates)
    BY <2>1
  <2> QED
    BY <1>1, <2>2 DEF FinderTypeOK, FacesInv, SuppressInv, Typed
<1>4. FacesInFrame
  BY <1>1 DEF FacesInFrame, InFrame, BoxesIn, FacesInv
<1>5. ChoiceIsBest
  <2> SUFFICES ASSUME best # 0
               PROVE  /\ best \in Preferred
                      /\ \A i \in Preferred \ {best} :
                           IF i < best
                           THEN Rank(faces[i], frame) < Rank(faces[best], frame)
                           ELSE Rank(faces[i], frame) <= Rank(faces[best], frame)
    BY DEF ChoiceIsBest, Preferred
  <2>1. Preferred \subseteq 1..Len(faces)
    BY <1>1 DEF Preferred
  <2> QED
    BY <2>1 DEF ChosenBest, BestSoFar
<1> QED
  BY <1>3, <1>4, <1>5

-----------------------------------------------------------------------------
(* The file and the memory.                                                *)

Records == [name : People, feature : Features]

(* A feature, and what normalising makes of it.                            *)
LEMMA UnitIsSet ==
  ASSUME NEW l, NEW d, NEW u, NEW t
  PROVE  [[length |-> l, direction |-> d, unit |-> u] EXCEPT !.unit = t]
           = [length |-> l, direction |-> d, unit |-> t]
  OBVIOUS

(* A feature, raw or normalised, is a record of its three parts. *)
LEMMA FeatureIs ==
  ASSUME NEW f \in RawFeatures \cup Features
  PROVE  \E l \in Lengths, d \in Directions \cup {0}, u \in BOOLEAN :
           f = [length |-> l, direction |-> d, unit |-> u]
<1>1. CASE f \in RawFeatures
  <2>1. PICK l \in Lengths, d \in Directions \cup {0} : f = Raw(l, d)
    BY <1>1 DEF RawFeatures
  <2> QED
    BY <2>1, Zenon DEF Raw
<1>2. CASE f \in Features
  <2>1. /\ f = [length |-> f.length, direction |-> f.direction, unit |-> f.unit]
        /\ f.length \in Lengths /\ f.direction \in Directions
    BY <1>2 DEF Features
  <2>2. f.unit \in BOOLEAN
    BY <1>2 DEF Features
  <2> QED
    BY <2>1, <2>2, Zenon
<1> QED
  BY <1>1, <1>2

(* normalize makes a feature that normalising again does not change, and that
   the loader can read. *)
LEMMA NormalizedIs ==
  ASSUME NEW f \in RawFeatures \cup Features, Normalizable(f)
  PROVE  /\ Normalized(f) \in Features /\ Normalized(f) # Unreadable
         /\ Normalizable(Normalized(f))
         /\ Normalized(Normalized(f)) = Normalized(f)
         /\ Normalized(f).length = f.length /\ f.length \in Lengths
<1>1. PICK l \in Lengths, d \in Directions \cup {0}, u \in BOOLEAN :
        f = [length |-> l, direction |-> d, unit |-> u]
  BY FeatureIs
<1>2. f.length = l /\ f.direction = d
  BY <1>1
<1>3. d \in Directions
  BY <1>2 DEF Normalizable
<1> DEFINE g == [length |-> l, direction |-> d, unit |-> TRUE]
<1>4. Normalized(f) = g /\ Normalized(g) = g
  BY <1>1, UnitIsSet, Zenon DEF Normalized
<1>5. g \in Features
  BY <1>3 DEF Features
<1>6. g.length = l /\ g.direction = d
  OBVIOUS
<1>7. g # Unreadable
  <2>1. DOMAIN g = {"length", "direction", "unit"}
    OBVIOUS
  <2>2. DOMAIN Unreadable = {"unreadable"}
    BY DEF Unreadable
  <2>3. "length" \notin {"unreadable"}
    OBVIOUS
  <2> HIDE DEF g
  <2> QED
    BY <2>1, <2>2, <2>3
<1> HIDE DEF g
<1>8. Normalizable(g)
  BY <1>2, <1>6 DEF Normalizable
<1> QED
  BY <1>2, <1>4, <1>5, <1>6, <1>7, <1>8

(* A row the loader accepts has a name and a feature that can be normalised. *)
LEMMA ReadableIs ==
  ASSUME NEW row \in Rows, Readable(row)
  PROVE  /\ row.name \in People /\ row.feature \in RawFeatures \cup Features
         /\ Normalizable(row.feature) /\ row.feature # Unreadable
  BY DEF Readable, Rows

(* The memory of rows that can be read.                                    *)
LEMMA AsRecordsIs ==
  ASSUME NEW some \in Seq(Rows), \A i \in DOMAIN some : Readable(some[i])
  PROVE  /\ AsRecords(some) \in Seq(Records)
         /\ DOMAIN AsRecords(some) = DOMAIN some
         /\ Len(AsRecords(some)) = Len(some)
         /\ \A i \in DOMAIN some :
              /\ AsRecords(some)[i].name = some[i].name
              /\ AsRecords(some)[i].feature = Normalized(some[i].feature)
              /\ AsRecords(some)[i] = [name |-> some[i].name,
                                       feature |-> Normalized(some[i].feature)]
<1> DEFINE t == AsRecords(some)
<1>1. /\ Len(some) \in Nat /\ DOMAIN some = 1..Len(some)
      /\ \A i \in 1..Len(some) : some[i] \in Rows
  OBVIOUS
<1>2. ASSUME NEW i \in 1..Len(some)
      PROVE  t[i] = [name |-> some[i].name, feature |-> Normalized(some[i].feature)]
  <2>1. some[i] = [name |-> some[i].name, feature |-> some[i].feature]
    BY <1>1 DEF Rows
  <2>2. t[i] = [some[i] EXCEPT !.feature = Normalized(some[i].feature)]
    BY <1>1 DEF AsRecords
  <2> QED
    BY <2>1, <2>2
<1>3. DOMAIN t = 1..Len(some) /\ t = [i \in 1..Len(some) |-> t[i]]
  BY <1>1 DEF AsRecords
<1> HIDE DEF t
<1>4. ASSUME NEW i \in 1..Len(some) PROVE t[i] \in Records
  <2>1. some[i].name \in People /\ Normalized(some[i].feature) \in Features
    BY <1>1, ReadableIs, NormalizedIs
  <2>2. \A x \in People, y \in Features : [name |-> x, feature |-> y] \in Records
    BY DEF Records
  <2> QED
    BY <1>2, <2>1, <2>2
<1>5. t \in Seq(Records) /\ Len(t) = Len(some)
  BY <1>1, <1>3, <1>4
<1>6. \A i \in DOMAIN some :
        /\ t[i].name = some[i].name /\ t[i].feature = Normalized(some[i].feature)
        /\ t[i] = [name |-> some[i].name, feature |-> Normalized(some[i].feature)]
  BY <1>1, <1>2
<1> QED
  BY <1>1, <1>3, <1>5, <1>6 DEF t

(* Where an entry is placed: instead of the one of that name, or behind.   *)
LEMMA PlacedAt ==
  ASSUME NEW R, NEW s \in Seq(R), NEW name, NEW feature
  PROVE  LET entry == [name |-> name, feature |-> feature]
         IN  \/ /\ \A i \in 1..Len(s) : s[i].name # name
                /\ Placed(s, name, feature) = Append(s, entry)
             \/ \E i \in 1..Len(s) :
                  /\ s[i].name = name
                  /\ Placed(s, name, feature) = [s EXCEPT ![i] = entry]
<1> DEFINE entry == [name |-> name, feature |-> feature]
           I == {i \in 1..Len(s) : s[i].name = name}
           k == IF I # {} THEN Min(I) ELSE 0
<1>1. Placed(s, name, feature) =
        IF k = 0 THEN Append(s, entry) ELSE [s EXCEPT ![k] = entry]
  BY DEF Placed, SelectInSeq
<1>2. CASE I = {}
  <2>1. k = 0 /\ \A i \in 1..Len(s) : s[i].name # name
    BY <1>2
  <2> QED
    BY <1>1, <2>1
<1>3. CASE I # {}
  <2>1. I \subseteq Nat
    OBVIOUS
  <2>2. \E x \in I : \A y \in I : x <= y
    <3> HIDE DEF I
    <3> QED BY <1>3, <2>1, LeastExists
  <2>3. Min(I) \in I
    <3> HIDE DEF I
    <3> QED BY <2>2 DEF Min
  <2>4. k \in I /\ k # 0
    <3> HIDE DEF I
    <3>1. k = Min(I)
      BY <1>3
    <3>2. Min(I) # 0
      BY <2>3 DEF I
    <3> QED BY <2>3, <3>1, <3>2
  <2>5. Placed(s, name, feature) = [s EXCEPT ![k] = entry]
    <3> HIDE DEF k
    <3> QED BY <1>1, <2>4
  <2>6. k \in 1..Len(s) /\ s[k].name = name
    <3> HIDE DEF k
    <3> QED BY <2>4
  <2> HIDE DEF k, entry
  <2>7. \E i \in 1..Len(s) :
          s[i].name = name /\ Placed(s, name, feature) = [s EXCEPT ![i] = entry]
    BY <2>5, <2>6
  <2> QED
    BY <2>7 DEF entry
<1> QED
  BY <1>2, <1>3

(* Placing an entry changes that one place, and no name comes twice.       *)
PlacedInto(s, t, name, feature) ==
  LET entry == [name |-> name, feature |-> feature]
  IN  /\ t # <<>> /\ OnceEach(t)
      /\ DOMAIN s \subseteq DOMAIN t
      /\ DOMAIN t = IF \E i \in DOMAIN s : s[i].name = name
                    THEN 1..Len(s) ELSE 1..Len(s) + 1
      /\ \E j \in DOMAIN t : t[j] = entry
      /\ \A j \in DOMAIN t :
           \/ t[j] = entry /\ (j \in DOMAIN s => s[j].name = name)
           \/ j \in DOMAIN s /\ t[j] = s[j] /\ s[j].name # name

(* A registered name is replaced in place or appended: the person is there
   once, with the new feature, and nobody else has changed. *)
LEMMA PlacedIs ==
  ASSUME NEW R, NEW s \in Seq(R), OnceEach(s), NEW name, NEW feature,
         [name |-> name, feature |-> feature] \in R
  PROVE  /\ Placed(s, name, feature) \in Seq(R)
         /\ PlacedInto(s, Placed(s, name, feature), name, feature)
<1> DEFINE entry == [name |-> name, feature |-> feature]
           t == Placed(s, name, feature)
           Stays(j) == j \in DOMAIN s /\ t[j] = s[j] /\ s[j].name # name
<1>1. Len(s) \in Nat /\ DOMAIN s = 1..Len(s) /\ \A i \in 1..Len(s) : s[i] \in R
  OBVIOUS
<1>2. \A i, j \in 1..Len(s) : s[i].name = s[j].name => i = j
  BY <1>1 DEF OnceEach
<1>3. \E p \in 1..Len(s) + 1 :
        /\ t \in Seq(R) /\ p \in DOMAIN t /\ t[p] = entry
        /\ p \in DOMAIN s => s[p].name = name
        /\ DOMAIN t = IF \E i \in DOMAIN s : s[i].name = name
                      THEN 1..Len(s) ELSE 1..Len(s) + 1
        /\ \A j \in DOMAIN t : j # p => Stays(j)
  <2>1. CASE /\ \A i \in 1..Len(s) : s[i].name # name
             /\ t = Append(s, entry)
    <3>1. /\ t \in Seq(R) /\ Len(t) = Len(s) + 1 /\ DOMAIN t = 1..Len(s) + 1
          /\ t[Len(s) + 1] = entry /\ \A i \in 1..Len(s) : t[i] = s[i]
      BY <2>1, AppendProperties
    <3> HIDE DEF t, entry
    <3>2. \A j \in DOMAIN t : j # Len(s) + 1 => Stays(j)
      BY <1>1, <2>1, <3>1
    <3>3. Len(s) + 1 \in 1..Len(s) + 1 /\ Len(s) + 1 \notin DOMAIN s
          /\ ~ \E i \in DOMAIN s : s[i].name = name
      BY <1>1, <2>1
    <3> HIDE DEF Stays
    <3> QED BY <3>1, <3>2, <3>3
  <2>2. CASE \E i \in 1..Len(s) : s[i].name = name /\ t = [s EXCEPT ![i] = entry]
    <3>1. PICK p \in 1..Len(s) : s[p].name = name /\ t = [s EXCEPT ![p] = entry]
      BY <2>2
    <3> HIDE DEF t
    <3>2. /\ DOMAIN t = 1..Len(s) /\ t[p] = entry
          /\ \A j \in 1..Len(s) : j # p => t[j] = s[j]
      BY <1>1, <3>1
    <3>3. t \in Seq(R)
      <4>1. \A j \in 1..Len(s) : t[j] \in R
        BY <1>1, <3>2
      <4>2. t = [j \in 1..Len(s) |-> t[j]]
        BY <1>1, <3>1
      <4> HIDE DEF entry
      <4> QED BY <1>1, <4>1, <4>2
    <3> HIDE DEF entry
    <3>4. \A j \in DOMAIN t : j # p => Stays(j)
      BY <1>1, <1>2, <3>1, <3>2
    <3>5. \E i \in DOMAIN s : s[i].name = name
      BY <1>1, <3>1
    <3> HIDE DEF Stays
    <3> QED BY <1>1, <3>1, <3>2, <3>3, <3>4, <3>5
  <2> QED
    BY <2>1, <2>2, PlacedAt
<1>4. PICK p \in 1..Len(s) + 1 :
        /\ t \in Seq(R) /\ p \in DOMAIN t /\ t[p] = entry
        /\ p \in DOMAIN s => s[p].name = name
        /\ DOMAIN t = IF \E i \in DOMAIN s : s[i].name = name
                      THEN 1..Len(s) ELSE 1..Len(s) + 1
        /\ \A j \in DOMAIN t : j # p => Stays(j)
  BY <1>3
<1>5. entry.name = name
  OBVIOUS
<1> HIDE DEF t, entry
<1>6. OnceEach(t)
  <2> SUFFICES ASSUME NEW i \in DOMAIN t, NEW j \in DOMAIN t, t[i].name = t[j].name
               PROVE  i = j
    BY DEF OnceEach
  <2>1. CASE i = p /\ j = p
    BY <2>1
  <2>2. CASE i = p /\ j # p
    BY <1>4, <1>5, <2>2
  <2>3. CASE i # p /\ j = p
    BY <1>4, <1>5, <2>3
  <2>4. CASE i # p /\ j # p
    BY <1>1, <1>2, <1>4, <2>4
  <2> QED
    BY <2>1, <2>2, <2>3, <2>4
<1>7. t # <<>>
  <2>1. DOMAIN t # {}
    BY <1>4
  <2> QED BY <2>1
<1>8. DOMAIN s \subseteq DOMAIN t
  BY <1>1, <1>4
<1>9. \A j \in DOMAIN t :
        \/ t[j] = entry /\ (j \in DOMAIN s => s[j].name = name)
        \/ j \in DOMAIN s /\ t[j] = s[j] /\ s[j].name # name
  BY <1>4
<1> QED
  BY <1>4, <1>6, <1>7, <1>8, <1>9 DEF t, entry, PlacedInto

(* What the memory knows of the file: nothing that is not in the file, and *)
(* all of it, in its order, when the view is whole; and of what length the *)
(* features are.                                                           *)
HeldInFile(mem, file) ==
  \A i \in DOMAIN mem : \E j \in DOMAIN file :
    /\ file[j].name = mem[i].name /\ file[j].feature # Unreadable
    /\ Normalized(file[j].feature) = mem[i].feature

AllReadable(file) == \A i \in DOMAIN file : Readable(file[i])
AllOfLength(file, length) == \A i \in DOMAIN file : file[i].feature.length = length

MemoryInv ==
  /\ rows \in Seq(Rows) /\ OnceEach(rows)
  /\ records \in Seq(Records) /\ OnceEach(records)
  /\ featureSize \in {0} \cup Lengths /\ view \in {"none", "part", "whole"}
  /\ featureSize = 0 <=> records = <<>>
  /\ HeldInFile(records, rows)
  /\ view = "whole" => /\ records = AsRecords(rows) /\ AllReadable(rows)
                       /\ ~mixed => AllOfLength(rows, featureSize)

FlagsInv == table \in BOOLEAN /\ hasPath \in BOOLEAN /\ mixed \in BOOLEAN

KnownInv == known \in Seq(Records) /\ answer.name \in People \cup {"unknown"}

(* Reading a file whose rows can be read gives a memory that holds it.     *)
LEMMA AsRecordsHolds ==
  ASSUME NEW file \in Seq(Rows), OnceEach(file),
         NEW some \in Seq(Rows), AllReadable(some),
         DOMAIN some \subseteq DOMAIN file,
         \A i \in DOMAIN some : some[i] = file[i]
  PROVE  /\ AsRecords(some) \in Seq(Records) /\ OnceEach(AsRecords(some))
         /\ HeldInFile(AsRecords(some), file)
<1> DEFINE t == AsRecords(some)
<1>1. /\ t \in Seq(Records) /\ DOMAIN t = DOMAIN some
      /\ \A i \in DOMAIN some : /\ t[i].name = some[i].name
                                /\ t[i].feature = Normalized(some[i].feature)
  BY AsRecordsIs DEF AllReadable
<1> HIDE DEF t
<1>2. OnceEach(t)
  BY <1>1 DEF OnceEach
<1>3. HeldInFile(t, file)
  <2> SUFFICES ASSUME NEW i \in DOMAIN t
               PROVE  \E j \in DOMAIN file :
                        /\ file[j].name = t[i].name /\ file[j].feature # Unreadable
                        /\ Normalized(file[j].feature) = t[i].feature
    BY DEF HeldInFile
  <2>1. i \in DOMAIN some /\ Readable(some[i])
    BY <1>1 DEF AllReadable
  <2>2. some[i].feature # Unreadable
    BY <2>1 DEF Readable
  <2> QED
    BY <1>1, <2>1, <2>2
<1> QED
  BY <1>1, <1>2, <1>3 DEF t

(* A new entry in the file and in the memory.                              *)
LEMMA BothPlaced ==
  ASSUME NEW file \in Seq(Rows), OnceEach(file),
         NEW mem \in Seq(Records), OnceEach(mem), HeldInFile(mem, file),
         NEW name \in People, NEW feature \in Features, feature # Unreadable,
         Normalizable(feature), Normalized(feature) = feature
  PROVE  LET newFile == Placed(file, name, feature)
             newMem  == Placed(mem, name, feature)
         IN  /\ newFile \in Seq(Rows) /\ OnceEach(newFile) /\ newFile # <<>>
             /\ newMem \in Seq(Records) /\ OnceEach(newMem) /\ newMem # <<>>
             /\ HeldInFile(newMem, newFile)
<1> DEFINE newFile == Placed(file, name, feature)
           newMem  == Placed(mem, name, feature)
           entry   == [name |-> name, feature |-> feature]
<1>1. entry \in Rows /\ entry \in Records
  BY DEF Rows, Records
<1>2. /\ newFile \in Seq(Rows) /\ OnceEach(newFile) /\ newFile # <<>>
      /\ DOMAIN file \subseteq DOMAIN newFile
      /\ \E j \in DOMAIN newFile : newFile[j] = entry
      /\ \A j \in DOMAIN newFile :
           \/ newFile[j] = entry /\ (j \in DOMAIN file => file[j].name = name)
           \/ j \in DOMAIN file /\ newFile[j] = file[j] /\ file[j].name # name
  <2>1. entry \in Rows /\ OnceEach(file) /\ file \in Seq(Rows)
    BY <1>1
  <2>2. newFile \in Seq(Rows) /\ PlacedInto(file, newFile, name, feature)
    BY <2>1, PlacedIs
  <2> HIDE DEF newFile
  <2> QED
    BY <2>2 DEF PlacedInto
<1>3. /\ newMem \in Seq(Records) /\ OnceEach(newMem) /\ newMem # <<>>
      /\ \A j \in DOMAIN newMem :
           \/ newMem[j] = entry /\ (j \in DOMAIN mem => mem[j].name = name)
           \/ j \in DOMAIN mem /\ newMem[j] = mem[j] /\ mem[j].name # name
  <2>1. entry \in Records /\ OnceEach(mem) /\ mem \in Seq(Records)
    BY <1>1
  <2>2. newMem \in Seq(Records) /\ PlacedInto(mem, newMem, name, feature)
    BY <2>1, PlacedIs
  <2> HIDE DEF newMem
  <2> QED
    BY <2>2 DEF PlacedInto
<1>4. entry.name = name /\ entry.feature = feature
  OBVIOUS
<1> HIDE DEF newFile, newMem, entry
<1>5. ASSUME NEW i \in DOMAIN newMem
      PROVE  \E j \in DOMAIN newFile :
               /\ newFile[j].name = newMem[i].name /\ newFile[j].feature # Unreadable
               /\ Normalized(newFile[j].feature) = newMem[i].feature
  <2>1. CASE newMem[i] = entry
    <3>1. PICK j \in DOMAIN newFile : newFile[j] = entry
      BY <1>2
    <3> QED BY <1>4, <2>1, <3>1
  <2>2. CASE i \in DOMAIN mem /\ newMem[i] = mem[i] /\ mem[i].name # name
    <3>1. PICK j \in DOMAIN file :
            /\ file[j].name = mem[i].name /\ file[j].feature # Unreadable
            /\ Normalized(file[j].feature) = mem[i].feature
      BY <2>2 DEF HeldInFile
    <3>2. j \in DOMAIN newFile /\ newFile[j] = file[j]
      BY <1>2, <2>2, <3>1
    <3> QED BY <2>2, <3>1, <3>2
  <2> QED
    BY <1>3, <2>1, <2>2
<1>6. HeldInFile(newMem, newFile)
  BY <1>5 DEF HeldInFile
<1> QED
  BY <1>2, <1>3, <1>6 DEF newFile, newMem

(* The memory that shows the whole file still does.                        *)
LEMMA WholePlaced ==
  ASSUME NEW file \in Seq(Rows), OnceEach(file), AllReadable(file),
         NEW name \in People, NEW feature \in Features, feature # Unreadable,
         Normalizable(feature), Normalized(feature) = feature
  PROVE  /\ Placed(AsRecords(file), name, feature)
              = AsRecords(Placed(file, name, feature))
         /\ AllReadable(Placed(file, name, feature))
         /\ \A size : AllOfLength(file, size) /\ feature.length = size
                        => AllOfLength(Placed(file, name, feature), size)
<1> DEFINE mem     == AsRecords(file)
           newFile == Placed(file, name, feature)
           newMem  == Placed(mem, name, feature)
           entry   == [name |-> name, feature |-> feature]
<1>1. entry \in Rows /\ entry \in Records
  BY DEF Rows, Records
<1>2. /\ mem \in Seq(Records) /\ DOMAIN mem = DOMAIN file /\ Len(mem) = Len(file)
      /\ \A i \in DOMAIN file :
           /\ mem[i].name = file[i].name
           /\ mem[i] = [name |-> file[i].name,
                        feature |-> Normalized(file[i].feature)]
  BY AsRecordsIs DEF AllReadable
<1> HIDE DEF mem
<1>3. OnceEach(mem)
  BY <1>2 DEF OnceEach
<1>4. /\ newFile \in Seq(Rows)
      /\ DOMAIN newFile = IF \E i \in DOMAIN file : file[i].name = name
                          THEN 1..Len(file) ELSE 1..Len(file) + 1
      /\ \A j \in DOMAIN newFile :
           \/ newFile[j] = entry /\ (j \in DOMAIN file => file[j].name = name)
           \/ j \in DOMAIN file /\ newFile[j] = file[j] /\ file[j].name # name
  <2>1. entry \in Rows /\ OnceEach(file) /\ file \in Seq(Rows)
    BY <1>1
  <2>2. newFile \in Seq(Rows) /\ PlacedInto(file, newFile, name, feature)
    BY <2>1, PlacedIs
  <2> HIDE DEF newFile
  <2> QED
    BY <2>2 DEF PlacedInto
<1>5. /\ newMem \in Seq(Records)
      /\ DOMAIN newMem = IF \E i \in DOMAIN mem : mem[i].name = name
                         THEN 1..Len(mem) ELSE 1..Len(mem) + 1
      /\ \A j \in DOMAIN newMem :
           \/ newMem[j] = entry /\ (j \in DOMAIN mem => mem[j].name = name)
           \/ j \in DOMAIN mem /\ newMem[j] = mem[j] /\ mem[j].name # name
  <2>1. entry \in Records /\ OnceEach(mem) /\ mem \in Seq(Records)
    BY <1>1, <1>2, <1>3
  <2>2. newMem \in Seq(Records) /\ PlacedInto(mem, newMem, name, feature)
    BY <2>1, PlacedIs
  <2> HIDE DEF newMem
  <2> QED
    BY <2>2 DEF PlacedInto
<1>6. entry.name = name /\ entry.feature = feature
  OBVIOUS
<1>7. Readable(entry)
  BY <1>6 DEF Readable
<1>e. entry = [name |-> entry.name, feature |-> Normalized(entry.feature)]
  BY <1>6
<1> HIDE DEF newFile, newMem, entry
<1>8. AllReadable(newFile)
  BY <1>4, <1>7 DEF AllReadable
<1>9. \A size : AllOfLength(file, size) /\ feature.length = size
                  => AllOfLength(newFile, size)
  BY <1>4, <1>6 DEF AllOfLength
<1>10. newMem = AsRecords(newFile)
  <2> DEFINE t == AsRecords(newFile)
  <2>1. /\ t \in Seq(Records) /\ DOMAIN t = DOMAIN newFile
        /\ \A i \in DOMAIN newFile :
             t[i] = [name |-> newFile[i].name,
                     feature |-> Normalized(newFile[i].feature)]
    BY <1>4, <1>8, AsRecordsIs DEF AllReadable
  <2> HIDE DEF t
  <2>2. DOMAIN newMem = DOMAIN newFile
    BY <1>2, <1>4, <1>5
  <2>3. ASSUME NEW i \in DOMAIN newFile PROVE newMem[i] = t[i]
    <3>1. CASE newFile[i] = entry
      <4>1. t[i] = entry
        BY <1>e, <2>1, <3>1
      <4>2. i \in DOMAIN mem => mem[i].name = name
        BY <1>2, <1>4, <1>6, <3>1
      <4>3. newMem[i] = entry
        BY <1>5, <2>2, <4>2
      <4> QED BY <4>1, <4>3
    <3>2. CASE i \in DOMAIN file /\ newFile[i] = file[i] /\ file[i].name # name
      <4>1. newMem[i] = mem[i]
        BY <1>2, <1>5, <2>2, <3>2
      <4>2. mem[i] = [name |-> file[i].name, feature |-> Normalized(file[i].feature)]
        BY <1>2, <3>2
      <4> QED BY <2>1, <3>2, <4>1, <4>2
    <3> QED
      BY <1>4, <3>1, <3>2
  <2>4. newMem = [i \in DOMAIN newMem |-> newMem[i]] /\ t = [i \in DOMAIN t |-> t[i]]
    BY <1>5, <2>1
  <2>5. newMem = t
    BY <2>1, <2>2, <2>3, <2>4
  <2> QED
    BY <2>5 DEF t
<1> QED
  BY <1>8, <1>9, <1>10 DEF newFile, newMem, mem

(* Between two frames the pipe forgets the answer.                         *)
Forget ==
  /\ answer' = Unknown
  /\ UNCHANGED <<table, rows, hasPath, records, featureSize, known, view, mixed>>

(* A fresh process has no records, whatever file it finds. *)
LEMMA MemoryStarts == DbInit => MemoryInv /\ FlagsInv
<1> SUFFICES ASSUME DbInit PROVE MemoryInv /\ FlagsInv
  OBVIOUS
<1>1. /\ records = <<>> /\ featureSize = 0 /\ view = "none" /\ mixed = FALSE
      /\ hasPath = FALSE /\ table \in BOOLEAN
      /\ rows \in IF table THEN FirstFiles ELSE {<<>>}
  BY DEF DbInit, NoMemory
<1>2. rows \in Seq(Rows) /\ OnceEach(rows)
  <2>1. CASE table
    BY <1>1, <2>1, DbAssumption
  <2>2. CASE ~table
    BY <1>1, <2>2 DEF OnceEach
  <2> QED
    BY <2>1, <2>2
<1>3. records \in Seq(Records) /\ OnceEach(records) /\ HeldInFile(records, rows)
  BY <1>1 DEF OnceEach, HeldInFile
<1> QED
  BY <1>1, <1>2, <1>3 DEF MemoryInv, FlagsInv

(* A step that leaves the memory empty.                                    *)
LEMMA EmptyMemory ==
  ASSUME rows' \in Seq(Rows), OnceEach(rows'), records' = <<>>, featureSize' = 0,
         view' \in {"none", "part", "whole"}, view' = "whole" => rows' = <<>>
  PROVE  MemoryInv'
<1>1. /\ records' \in Seq(Records) /\ OnceEach(records')
      /\ HeldInFile(records', rows')
  BY DEF OnceEach, HeldInFile
<1>2. ASSUME rows' = <<>>
      PROVE  /\ records' = AsRecords(rows') /\ AllReadable(rows')
             /\ AllOfLength(rows', featureSize')
  <2>1. AsRecords(<<>>) \in Seq(Records) /\ Len(AsRecords(<<>>)) = 0
    <3>1. <<>> \in Seq(Rows) /\ \A i \in DOMAIN <<>> : Readable(<<>>[i])
      OBVIOUS
    <3>2. Len(<<>>) = 0
      OBVIOUS
    <3> QED BY <3>1, <3>2, AsRecordsIs
  <2>2. AsRecords(<<>>) = <<>>
    <3> DEFINE t == AsRecords(<<>>)
    <3> HIDE DEF t
    <3>1. t \in Seq(Records) /\ Len(t) = 0
      BY <2>1 DEF t
    <3>2. t = <<>>
      BY <3>1
    <3> QED BY <3>2 DEF t
  <2>3. DOMAIN rows' = {}
    BY <1>2
  <2> QED
    BY <1>2, <2>2, <2>3 DEF AllReadable, AllOfLength
<1> QED
  BY <1>1, <1>2 DEF MemoryInv

(* A step that leaves all of it alone.                                     *)
LEMMA SameMemory ==
  MemoryInv /\ UNCHANGED <<rows, records, featureSize, view, mixed>> => MemoryInv'
  BY DEF MemoryInv

(* A new memory reads the file; any number of rows of it.                  *)
LEMMA LoadKeepsMemory ==
  ASSUME MemoryInv, NEW count \in 1..Len(rows), Load(count)
  PROVE  MemoryInv' /\ records' # <<>>
<1> DEFINE some == SubSeq(rows, 1, count)
<1>1. rows \in Seq(Rows) /\ Len(rows) \in Nat /\ DOMAIN rows = 1..Len(rows)
      /\ \A i \in DOMAIN rows : rows[i] \in Rows
  BY DEF MemoryInv
<1>2. /\ some \in Seq(Rows) /\ Len(some) = count /\ DOMAIN some = 1..count
      /\ \A i \in 1..count : some[i] = rows[i]
  <2>1. count \in Nat /\ count <= Len(rows) /\ count >= 1
    BY <1>1
  <2>2. \A i \in 1..count : i \in 1..Len(rows)
    BY <1>1, <2>1
  <2>3. \A i \in 1..count : rows[i] \in Rows
    BY <1>1, <2>2
  <2>4. some = [i \in 1..count |-> rows[i]]
    BY <1>1, <2>1
  <2> HIDE DEF some
  <2> QED
    BY <2>1, <2>3, <2>4
<1>3. /\ Loadable(some) /\ records' = AsRecords(some)
      /\ featureSize' = some[1].feature.length
      /\ view' = IF some = rows THEN "whole" ELSE "part"
      /\ mixed' = FALSE /\ rows' = rows
  BY DEF Load
<1> HIDE DEF some
<1>4. /\ AllReadable(some) /\ 1 \in DOMAIN some
      /\ AllOfLength(some, featureSize')
  BY <1>2, <1>3 DEF Loadable, AllReadable, AllOfLength
<1>5. featureSize' \in Lengths /\ featureSize' # 0
  <2>1. some[1] \in Rows /\ Readable(some[1])
    BY <1>2, <1>4 DEF AllReadable
  <2>2. some[1].feature.length \in Lengths
    BY <2>1, ReadableIs, NormalizedIs
  <2> QED
    BY <1>3, <2>2, DbAssumption
<1>6. /\ records' \in Seq(Records) /\ OnceEach(records')
      /\ HeldInFile(records', rows')
  <2>1. OnceEach(rows) /\ DOMAIN some \subseteq DOMAIN rows
    BY <1>1, <1>2 DEF MemoryInv
  <2>2. \A i \in DOMAIN some : some[i] = rows[i]
    BY <1>2
  <2> QED
    BY <1>1, <1>2, <1>3, <1>4, <2>1, <2>2, AsRecordsHolds
<1>7. records' # <<>>
  <2>1. DOMAIN records' = DOMAIN some
    BY <1>2, <1>3, <1>4, AsRecordsIs DEF AllReadable
  <2>2. DOMAIN records' # {}
    BY <1>4, <2>1
  <2> QED BY <2>2
<1>8. view' = "whole" => some = rows'
  BY <1>3
<1>9. view' \in {"none", "part", "whole"}
  BY <1>3
<1> QED
  BY <1>1, <1>3, <1>4, <1>5, <1>6, <1>7, <1>8, <1>9 DEF MemoryInv

(* Enrolling someone changes the file and the memory alike.                *)
LEMMA UpsertKeepsMemory ==
  ASSUME MemoryInv, FlagsInv, NEW name \in People, NEW feature \in RawFeatures,
         Upsert(name, feature)
  PROVE  MemoryInv'
<1> DEFINE entry == Normalized(feature)
<1>1. /\ Normalizable(feature)
      /\ rows' = Placed(rows, name, entry) /\ records' = Placed(records, name, entry)
      /\ featureSize' = IF featureSize = 0 THEN feature.length ELSE featureSize
      /\ mixed' = (mixed \/ featureSize \notin {0, feature.length})
      /\ view' = view
  BY DEF Upsert
<1>2. /\ entry \in Features /\ entry # Unreadable /\ Normalizable(entry)
      /\ Normalized(entry) = entry /\ entry.length = feature.length
      /\ feature.length \in Lengths
  BY <1>1, NormalizedIs
<1> HIDE DEF entry
<1>3. /\ rows' \in Seq(Rows) /\ OnceEach(rows') /\ rows' # <<>>
      /\ records' \in Seq(Records) /\ OnceEach(records') /\ records' # <<>>
      /\ HeldInFile(records', rows')
  <2>1. /\ rows \in Seq(Rows) /\ OnceEach(rows)
        /\ records \in Seq(Records) /\ OnceEach(records) /\ HeldInFile(records, rows)
    BY DEF MemoryInv
  <2> QED
    BY <1>1, <1>2, <2>1, BothPlaced
<1>4. featureSize' \in Lengths /\ featureSize' # 0
  BY <1>1, <1>2, DbAssumption DEF MemoryInv
<1>5. ASSUME view = "whole"
      PROVE  /\ records' = AsRecords(rows') /\ AllReadable(rows')
             /\ ~mixed' => AllOfLength(rows', featureSize')
  <2>1. /\ rows \in Seq(Rows) /\ OnceEach(rows) /\ AllReadable(rows)
        /\ records = AsRecords(rows)
        /\ ~mixed => AllOfLength(rows, featureSize)
        /\ featureSize = 0 <=> records = <<>>
    BY <1>5 DEF MemoryInv
  <2>2. /\ Placed(AsRecords(rows), name, entry) = AsRecords(Placed(rows, name, entry))
        /\ AllReadable(Placed(rows, name, entry))
        /\ \A size : AllOfLength(rows, size) /\ entry.length = size
                       => AllOfLength(Placed(rows, name, entry), size)
    BY <1>2, <2>1, WholePlaced
  <2>3. ASSUME ~mixed' PROVE AllOfLength(rows, featureSize') /\ entry.length = featureSize'
    <3>1. ~mixed /\ (featureSize = 0 \/ featureSize = feature.length)
      BY <1>1, <2>3
    <3>2. featureSize' = entry.length
      BY <1>1, <1>2, <3>1
    <3>3. CASE featureSize = 0
      <4>1. Len(AsRecords(rows)) = 0 /\ Len(AsRecords(rows)) = Len(rows)
        BY <2>1, <3>3, AsRecordsIs DEF AllReadable
      <4>2. DOMAIN rows = {}
        BY <2>1, <4>1
      <4> QED
        BY <3>2, <4>2 DEF AllOfLength
    <3>4. CASE featureSize = feature.length
      BY <1>2, <2>1, <3>1, <3>2, <3>4
    <3> QED
      BY <3>1, <3>3, <3>4
  <2> QED
    BY <1>1, <2>1, <2>2, <2>3
<1> QED
  BY <1>1, <1>3, <1>4, <1>5 DEF MemoryInv

(* Every step keeps the memory.                                            *)
LEMMA MemorySteps ==
  MemoryInv /\ FlagsInv /\ (DbNext \/ Forget \/ UNCHANGED dbVars)
    => MemoryInv' /\ FlagsInv'
<1> SUFFICES ASSUME MemoryInv, FlagsInv, DbNext \/ Forget \/ UNCHANGED dbVars
             PROVE  MemoryInv' /\ FlagsInv'
  OBVIOUS
<1>1. rows \in Seq(Rows) /\ OnceEach(rows) /\ view \in {"none", "part", "whole"}
  BY DEF MemoryInv
<1>2. ASSUME Restart PROVE MemoryInv' /\ FlagsInv'
  <2>1. /\ rows' = rows /\ records' = <<>> /\ featureSize' = 0 /\ view' = "none"
        /\ mixed' = FALSE /\ hasPath' = FALSE /\ table' = table
    BY <1>2 DEF Restart
  <2> QED BY <1>1, <2>1, EmptyMemory DEF FlagsInv
<1>3. ASSUME NEW count \in 1..Len(rows), Load(count) PROVE MemoryInv' /\ FlagsInv'
  BY <1>3, LoadKeepsMemory DEF Load, FlagsInv
<1>4. ASSUME LoadFails PROVE MemoryInv' /\ FlagsInv'
  <2>1. /\ rows' = rows /\ records' = <<>> /\ featureSize' = 0 /\ view' = "part"
        /\ mixed' = FALSE /\ hasPath' = TRUE /\ table' = table
    BY <1>4 DEF LoadFails
  <2> QED BY <1>1, <2>1, EmptyMemory DEF FlagsInv
<1>5. ASSUME Initialise PROVE MemoryInv' /\ FlagsInv'
  <2>1. /\ rows' = rows /\ records' = <<>> /\ featureSize' = 0
        /\ view' = IF rows = <<>> THEN "whole" ELSE "part"
        /\ mixed' = FALSE /\ hasPath' = TRUE /\ table' = TRUE
    BY <1>5 DEF Initialise
  <2> QED BY <1>1, <2>1, EmptyMemory DEF FlagsInv
<1>6. ASSUME Clear PROVE MemoryInv' /\ FlagsInv'
  <2>1. /\ rows' = <<>> /\ records' = <<>> /\ featureSize' = 0 /\ view' = "whole"
        /\ mixed' = FALSE /\ hasPath' = hasPath /\ table' = table
    BY <1>6 DEF Clear
  <2>2. rows' \in Seq(Rows) /\ OnceEach(rows')
    BY <2>1 DEF OnceEach
  <2> QED BY <2>1, <2>2, EmptyMemory DEF FlagsInv
<1>7. ASSUME NEW name \in People, NEW feature \in RawFeatures, Upsert(name, feature)
      PROVE  MemoryInv' /\ FlagsInv'
  <2>1. MemoryInv'
    BY <1>7, UpsertKeepsMemory
  <2>2. FlagsInv'
    BY <1>7 DEF Upsert, FlagsInv
  <2> QED BY <2>1, <2>2
<1>8. ASSUME UpsertFails PROVE MemoryInv' /\ FlagsInv'
  BY <1>8, SameMemory DEF UpsertFails, FlagsInv
<1>9. ASSUME Reset PROVE MemoryInv' /\ FlagsInv'
  BY <1>9, SameMemory DEF Reset, FlagsInv
<1>10. ASSUME NEW feature, Recognise(feature) PROVE MemoryInv' /\ FlagsInv'
  BY <1>10, SameMemory DEF Recognise, FlagsInv
<1>11. ASSUME Forget \/ UNCHANGED dbVars PROVE MemoryInv' /\ FlagsInv'
  BY <1>11, SameMemory DEF Forget, dbVars, FlagsInv
<1> QED
  BY <1>2, <1>3, <1>4, <1>5, <1>6, <1>7, <1>8, <1>9, <1>10, <1>11 DEF DbNext, Enrol

(* What the invariant says of the memory.                                  *)
LEMMA MemoryIsRight == MemoryInv => MemoryMatchesFile
<1> SUFFICES ASSUME MemoryInv PROVE MemoryMatchesFile
  OBVIOUS
<1>1. ASSUME view = "whole", ~mixed, rows # <<>> PROVE Loadable(rows)
  <2>1. rows \in Seq(Rows) /\ AllReadable(rows) /\ AllOfLength(rows, featureSize)
    BY <1>1 DEF MemoryInv
  <2>2. 1 \in DOMAIN rows
    BY <1>1, <2>1
  <2> QED
    BY <1>1, <2>1, <2>2 DEF AllReadable, AllOfLength, Loadable
<1> QED
  BY <1>1 DEF MemoryMatchesFile, MemoryInv, HeldInFile

-----------------------------------------------------------------------------
(* The recogniser.                                                         *)

(* How alike two directions are.                                           *)
LEMMA LikeIsPercent ==
  ASSUME known \in Seq(Records), NEW feature \in RawFeatures,
         Normalizable(feature), NEW i \in 1..Len(known)
  PROVE  Like(feature, i) \in Int /\ Like(feature, i) >= -100
<1>1. feature.direction \in Directions
  <2>1. PICK l \in Lengths, d \in Directions \cup {0}, u \in BOOLEAN :
          feature = [length |-> l, direction |-> d, unit |-> u]
    BY FeatureIs
  <2>2. feature.direction = d
    BY <2>1
  <2> QED BY <2>2 DEF Normalizable
<1>2. known[i] \in Records
  OBVIOUS
<1>3. known[i].feature.direction \in Directions
  BY <1>2 DEF Records, Features
<1>4. Like(feature, i) \in -100..100
  BY <1>1, <1>3, DbAssumption DEF Like
<1>5. ASSUME NEW low \in Int, NEW high \in Int, NEW a \in low..high
      PROVE  a \in Int /\ a >= low
  OBVIOUS
<1>6. -100 \in Int /\ 100 \in Int
  OBVIOUS
<1> QED
  BY <1>4, <1>5, <1>6, Zenon

(* The record is one to compare with.                                      *)
Comparable(feature, i) == known[i].feature.length = feature.length

(* What the scan has after the first n records: the first of those that    *)
(* are the most alike, if any is not the opposite.                         *)
NearSoFar(feature, n, b) ==
  /\ b.at \in Nat /\ b.at <= n /\ b.similarity \in Int
  /\ \A i \in 1..n : Comparable(feature, i) => Like(feature, i) <= b.similarity
  /\ b.at = 0 => b.similarity = -100
  /\ b.at # 0 => /\ Comparable(feature, b.at)
                 /\ b.similarity = Like(feature, b.at) /\ b.similarity > -100
                 /\ \A i \in 1..n : Comparable(feature, i) /\ i < b.at
                                      => Like(feature, i) < b.similarity

(* The scan of find_most_similar ends at the nearest of the known people. *)
LEMMA NearestFound ==
  ASSUME known \in Seq(Records), NEW feature \in RawFeatures, Normalizable(feature)
  PROVE  NearSoFar(feature, Len(known), Nearest(feature))
<1> DEFINE N == Len(known)
           V == [at : Nat, similarity : Int]
           Next1(n, b) == Nearer(b, feature, n)
           step == [n \in 1..N |-> [b \in V |-> Next1(n, b)]]
           Is(g) == g = [n \in 0..N |->
                          IF n = 0 THEN NoRecord ELSE Nearer(g[n - 1], feature, n)]
<1>0. N \in Nat
  OBVIOUS
<1>1. \A n \in 1..N : Like(feature, n) \in Int /\ Like(feature, n) >= -100
  BY LikeIsPercent
<1>2. ASSUME NEW n \in 1..N, NEW b
      PROVE  \/ /\ Next1(n, b) = [at |-> n, similarity |-> Like(feature, n)]
                /\ Comparable(feature, n) /\ Like(feature, n) > b.similarity
             \/ /\ Next1(n, b) = b
                /\ ~(Comparable(feature, n) /\ Like(feature, n) > b.similarity)
  BY DEF Nearer, Comparable
<1>3. step \in [1..N -> [V -> V]]
  <2>1. ASSUME NEW n \in 1..N, NEW b \in V PROVE Next1(n, b) \in V
    <3>1. [at |-> n, similarity |-> Like(feature, n)] \in V
      BY <1>0, <1>1
    <3> HIDE DEF Next1, V
    <3> QED BY <1>2, <3>1
  <2> HIDE DEF Next1, V, N
  <2> QED BY <2>1
<1>4. \E f : Is(f)
  <2>1. NoRecord \in V
    BY DEF NoRecord
  <2>2. PICK f : Loops(f, N, V, NoRecord, step)
    <3> HIDE DEF step, N, V
    <3> QED BY <1>0, <1>3, <2>1, LoopRuns
  <2>3. ASSUME NEW n \in 1..N PROVE f[n] = Next1(n, f[n - 1])
    <3>1. n - 1 \in 0..N
      BY <1>0
    <3>2. f[n - 1] \in V /\ f[n] = step[n][f[n - 1]]
      <4> HIDE DEF step, N, V
      <4> QED BY <2>2, <3>1 DEF Loops
    <3> HIDE DEF Next1, V
    <3> QED BY <3>2
  <2>4. f = [n \in 0..N |-> f[n]] /\ f[0] = NoRecord
    BY <2>2 DEF Loops
  <2> HIDE DEF N, V, Next1
  <2>5. \A n \in 0..N : n # 0 => n \in 1..N
    BY <1>0
  <2> QED BY <2>3, <2>4, <2>5 DEF Next1
<1>5. Is(NearestOfFirst(feature))
  <2>1. NearestOfFirst(feature) = CHOOSE g : Is(g)
    BY DEF NearestOfFirst
  <2> HIDE DEF Is
  <2> QED BY <1>4, <2>1
<1> DEFINE B == NearestOfFirst(feature)
           S == {n \in Nat : n <= N => NearSoFar(feature, n, B[n])}
<1>6. B[0] = NoRecord /\ \A n \in 1..N : B[n] = Next1(n, B[n - 1])
  <2> HIDE DEF B, N
  <2>1. Is(B)
    BY <1>5 DEF B
  <2> QED BY <1>0, <2>1
<1> HIDE DEF B, N, Next1
<1>7. 0 \in S
  BY <1>6 DEF NearSoFar, NoRecord
<1>8. ASSUME NEW n \in 1..N, n - 1 \in S PROVE n \in S
  <2>1. n \in Nat /\ n - 1 \in Nat /\ n <= N /\ n - 1 <= N /\ n # 0
    BY <1>0
  <2> DEFINE b == B[n - 1]
  <2>2. NearSoFar(feature, n - 1, b) /\ B[n] = Next1(n, b)
    BY <1>6, <1>8, <2>1
  <2> HIDE DEF b
  <2>3. /\ b.at \in Nat /\ b.at <= n - 1 /\ b.similarity \in Int
        /\ \A i \in 1..n - 1 : Comparable(feature, i)
                                 => Like(feature, i) <= b.similarity
        /\ b.at = 0 => b.similarity = -100
        /\ b.at # 0 => /\ Comparable(feature, b.at)
                       /\ b.similarity = Like(feature, b.at)
                       /\ b.similarity > -100
                       /\ \A i \in 1..n - 1 : Comparable(feature, i) /\ i < b.at
                                                => Like(feature, i) < b.similarity
    BY <2>2 DEF NearSoFar
  <2>4. \A i \in 1..n : (i \in 1..n - 1 \/ i = n) /\ i \in 1..N
    BY <1>0, <2>1
  <2>5. Like(feature, n) \in Int /\ Like(feature, n) >= -100
    BY <1>1
  <2>6. CASE /\ Next1(n, b) = [at |-> n, similarity |-> Like(feature, n)]
             /\ Comparable(feature, n) /\ Like(feature, n) > b.similarity
    <3> DEFINE c == [at |-> n, similarity |-> Like(feature, n)]
    <3>1. c.at = n /\ c.similarity = Like(feature, n) /\ B[n] = c
      BY <2>2, <2>6
    <3> HIDE DEF c
    <3>2. c.similarity > -100
      BY <2>3, <2>5, <2>6, <3>1
    <3>3. ASSUME NEW i \in 1..n, Comparable(feature, i)
          PROVE  /\ Like(feature, i) <= c.similarity
                 /\ i < n => Like(feature, i) < c.similarity
      <4>1. CASE i = n
        BY <2>5, <3>1, <4>1
      <4>2. CASE i \in 1..n - 1
        <5>1. Like(feature, i) <= b.similarity /\ Like(feature, i) \in Int
          BY <1>1, <2>3, <2>4, <3>3, <4>2
        <5> QED BY <2>3, <2>5, <2>6, <3>1, <5>1
      <4> QED BY <2>4, <4>1, <4>2
    <3>4. NearSoFar(feature, n, c)
      BY <2>1, <2>5, <2>6, <3>1, <3>2, <3>3 DEF NearSoFar
    <3> QED BY <2>1, <3>1, <3>4
  <2>7. CASE /\ Next1(n, b) = b
             /\ ~(Comparable(feature, n) /\ Like(feature, n) > b.similarity)
    <3>1. \A i \in 1..n : Comparable(feature, i) => Like(feature, i) <= b.similarity
      BY <2>3, <2>4, <2>5, <2>7
    <3>2. b.at # 0 => \A i \in 1..n : Comparable(feature, i) /\ i < b.at
                                        => Like(feature, i) < b.similarity
      BY <2>1, <2>3, <2>4
    <3>3. b.at <= n
      BY <2>1, <2>3
    <3>4. NearSoFar(feature, n, b)
      BY <2>3, <3>1, <3>2, <3>3 DEF NearSoFar
    <3> QED BY <2>1, <2>2, <2>7, <3>4
  <2> QED BY <1>2, <2>6, <2>7
<1>9. N \in S
  <2> HIDE DEF S
  <2>1. \A n \in 0..N : n \in S
    BY <1>0, <1>7, <1>8, LoopStays
  <2> QED BY <1>0, <2>1
<1>10. NearSoFar(feature, N, B[N])
  BY <1>0, <1>9
<1> QED
  BY <1>10 DEF B, N, Nearest

(* Whatever the recogniser knows, it answers with the best.                *)
LEMMA BestAnswered == KnownInv => AnswersBest
<1> SUFFICES ASSUME KnownInv, NEW feature \in RawFeatures, Normalizable(feature)
             PROVE  LET found    == Recognised(feature)
                        same     == {i \in DOMAIN known :
                                       known[i].feature.length = feature.length}
                        alike(i) == Like(feature, i)
                    IN  IF \A i \in same : alike(i) = -100 THEN found = Unknown
                        ELSE \E i \in same :
                          /\ \A j \in same \ {i} :
                               IF j < i THEN alike(j) < alike(i)
                                        ELSE alike(j) <= alike(i)
                          /\ found.best = known[i].name
                          /\ found.similarity = alike(i)
                          /\ found.name = IF alike(i) >= KnownAt
                                          THEN known[i].name ELSE "unknown"
  BY DEF AnswersBest
<1> DEFINE b == Nearest(feature)
           N == Len(known)
<1>1. known \in Seq(Records) /\ N \in Nat /\ DOMAIN known = 1..N
  BY DEF KnownInv
<1>2. NearSoFar(feature, N, b)
  BY <1>1, NearestFound
<1>3. \A i \in 1..N : Like(feature, i) \in Int /\ Like(feature, i) >= -100
  BY <1>1, LikeIsPercent
<1>4. Recognised(feature) =
        IF b.at = 0 THEN Unknown
        ELSE [name |-> IF b.similarity >= KnownAt THEN known[b.at].name
                       ELSE "unknown",
              best |-> known[b.at].name, similarity |-> b.similarity]
  BY DEF Recognised
<1> HIDE DEF b, N
<1>5. CASE b.at = 0
  <2>1. Recognised(feature) = Unknown
    BY <1>4, <1>5
  <2>2. \A i \in 1..N : Comparable(feature, i) => Like(feature, i) = -100
    BY <1>2, <1>3, <1>5 DEF NearSoFar
  <2> QED
    BY <1>1, <2>1, <2>2 DEF Comparable
<1>6. CASE b.at # 0
  <2> DEFINE k == b.at
  <2>1. /\ k \in 1..N /\ Comparable(feature, k)
        /\ b.similarity = Like(feature, k) /\ Like(feature, k) > -100
        /\ \A i \in 1..N : Comparable(feature, i) => Like(feature, i) <= Like(feature, k)
        /\ \A i \in 1..N : Comparable(feature, i) /\ i < k
                             => Like(feature, i) < Like(feature, k)
    BY <1>1, <1>2, <1>6 DEF NearSoFar
  <2>2. /\ Recognised(feature).best = known[k].name
        /\ Recognised(feature).similarity = Like(feature, k)
        /\ Recognised(feature).name = IF Like(feature, k) >= KnownAt
                                      THEN known[k].name ELSE "unknown"
    BY <1>4, <1>6, <2>1
  <2> HIDE DEF k
  <2>3. k \in DOMAIN known /\ known[k].feature.length = feature.length
    BY <1>1, <2>1 DEF Comparable
  <2>4. ~(Like(feature, k) = -100)
    BY <1>3, <2>1
  <2>5. \A j \in {i \in DOMAIN known : known[i].feature.length = feature.length} \ {k} :
          IF j < k THEN Like(feature, j) < Like(feature, k)
                   ELSE Like(feature, j) <= Like(feature, k)
    BY <1>1, <2>1 DEF Comparable
  <2> QED
    BY <2>2, <2>3, <2>4, <2>5
<1> QED
  BY <1>5, <1>6

(* What is answered is a person's name or nobody's.                        *)
LEMMA AnswerIsName ==
  ASSUME KnownInv, NEW feature \in RawFeatures
  PROVE  Recognised(feature).name \in People \cup {"unknown"}
<1>1. Unknown.name = "unknown"
  BY DEF Unknown
<1>2. CASE ~Normalizable(feature) \/ Nearest(feature).at = 0
  <2>1. Recognised(feature) = Unknown
    BY <1>2 DEF Recognised
  <2> QED BY <1>1, <2>1
<1>3. CASE Normalizable(feature) /\ Nearest(feature).at # 0
  <2> DEFINE b == Nearest(feature)
  <2>1. NearSoFar(feature, Len(known), b)
    BY <1>3, NearestFound DEF KnownInv
  <2>2. b.at \in Nat /\ b.at <= Len(known)
    BY <2>1 DEF NearSoFar
  <2>3. known[b.at] \in Records
    BY <1>3, <2>2 DEF KnownInv
  <2>4. known[b.at].name \in People
    BY <2>3 DEF Records
  <2>5. Recognised(feature).name =
          IF b.similarity >= KnownAt THEN known[b.at].name ELSE "unknown"
    BY <1>3 DEF Recognised
  <2> QED BY <2>4, <2>5
<1> QED
  BY <1>2, <1>3

(* A fresh process knows nobody and has answered nothing. *)
LEMMA KnownStarts == DbInit => KnownInv
<1> SUFFICES ASSUME DbInit PROVE KnownInv
  OBVIOUS
<1>1. known = <<>> /\ answer = Unknown
  BY DEF DbInit, NoMemory
<1> QED
  BY <1>1 DEF KnownInv, Unknown

(* Every step keeps the known people records, and the answer one of the names or
   unknown. *)
LEMMA KnownSteps ==
  KnownInv /\ MemoryInv /\ (DbNext \/ Forget \/ UNCHANGED dbVars) => KnownInv'
<1> SUFFICES ASSUME KnownInv, MemoryInv, DbNext \/ Forget \/ UNCHANGED dbVars
             PROVE  KnownInv'
  OBVIOUS
<1>1. ASSUME known' = known, answer' = answer PROVE KnownInv'
  BY <1>1 DEF KnownInv
<1>2. Unknown.name = "unknown"
  BY DEF Unknown
<1>3. ASSUME Restart PROVE KnownInv'
  <2>1. known' = <<>> /\ answer' = Unknown
    BY <1>3 DEF Restart
  <2> QED BY <1>2, <2>1 DEF KnownInv
<1>4. ASSUME NEW count, Load(count) PROVE KnownInv'
  BY <1>1, <1>4 DEF Load
<1>5. ASSUME LoadFails \/ Initialise \/ Clear \/ UpsertFails PROVE KnownInv'
  BY <1>1, <1>5 DEF LoadFails, Initialise, Clear, UpsertFails
<1>6. ASSUME NEW name, NEW feature, Upsert(name, feature) PROVE KnownInv'
  BY <1>1, <1>6 DEF Upsert
<1>7. ASSUME Reset PROVE KnownInv'
  BY <1>7 DEF Reset, KnownInv, MemoryInv
<1>8. ASSUME NEW feature \in RawFeatures, Recognise(feature) PROVE KnownInv'
  <2>1. known' = known /\ answer' = Recognised(feature)
    BY <1>8 DEF Recognise
  <2>2. Recognised(feature).name \in People \cup {"unknown"}
    BY AnswerIsName
  <2> QED BY <2>1, <2>2 DEF KnownInv
<1>9. ASSUME Forget PROVE KnownInv'
  BY <1>2, <1>9 DEF Forget, KnownInv
<1>10. ASSUME UNCHANGED dbVars PROVE KnownInv'
  BY <1>1, <1>10 DEF dbVars
<1> QED
  BY <1>3, <1>4, <1>5, <1>6, <1>7, <1>8, <1>9, <1>10 DEF DbNext, Enrol

-----------------------------------------------------------------------------
(* The models.                                                             *)

Models == [Roles -> [context : BOOLEAN, ready : BOOLEAN]]

One(m, r) == IF m[r].context THEN 1 ELSE 0

(* With two models, the contexts they have can be counted.                 *)
LEMMA TwoModels ==
  ASSUME NEW m \in Models
  PROVE  Cardinality({r \in Roles : m[r].context})
           = One(m, "detector") + One(m, "extractor")
<1> DEFINE S == {r \in Roles : m[r].context}
<1>1. S = (IF m["detector"].context THEN {"detector"} ELSE {})
            \cup (IF m["extractor"].context THEN {"extractor"} ELSE {})
  BY DEF Roles
<1> SUFFICES Cardinality(S) = One(m, "detector") + One(m, "extractor")
  OBVIOUS
<1> HIDE DEF S
<1>2. /\ IsFiniteSet({"detector"}) /\ Cardinality({"detector"}) = 1
      /\ IsFiniteSet({"extractor"}) /\ Cardinality({"extractor"}) = 1
      /\ IsFiniteSet({}) /\ Cardinality({}) = 0
  BY FS_Singleton, FS_EmptySet
<1>3. Cardinality({"detector"} \cup {"extractor"}) = 2
  <2>1. "extractor" \notin {"detector"}
    OBVIOUS
  <2> QED BY <1>2, <2>1, FS_AddElement
<1>4. CASE m["detector"].context /\ m["extractor"].context
  <2>1. S = {"detector"} \cup {"extractor"}
    BY <1>1, <1>4
  <2>2. One(m, "detector") = 1 /\ One(m, "extractor") = 1
    BY <1>4 DEF One
  <2> QED BY <1>3, <2>1, <2>2
<1>5. CASE m["detector"].context /\ ~m["extractor"].context
  <2>1. S = {"detector"}
    BY <1>1, <1>5
  <2>2. One(m, "detector") = 1 /\ One(m, "extractor") = 0
    BY <1>5 DEF One
  <2>3. Cardinality(S) = Cardinality({"detector"})
    BY <2>1
  <2> QED BY <1>2, <2>2, <2>3
<1>6. CASE ~m["detector"].context /\ m["extractor"].context
  <2>1. S = {"extractor"}
    BY <1>1, <1>6
  <2>2. One(m, "detector") = 0 /\ One(m, "extractor") = 1
    BY <1>6 DEF One
  <2>3. Cardinality(S) = Cardinality({"extractor"})
    BY <2>1
  <2> QED BY <1>2, <2>2, <2>3
<1>7. CASE ~m["detector"].context /\ ~m["extractor"].context
  <2>1. S = {}
    BY <1>1, <1>7
  <2>2. One(m, "detector") = 0 /\ One(m, "extractor") = 0
    BY <1>7 DEF One
  <2>3. Cardinality(S) = Cardinality({})
    BY <2>1
  <2> QED BY <1>2, <2>2, <2>3
<1> QED
  BY <1>4, <1>5, <1>6, <1>7

ModelsInv ==
  /\ models \in Models
  /\ contexts = One(models, "detector") + One(models, "extractor")
  /\ \A r \in Roles : models[r].ready => models[r].context

(* The contexts that exist are the ones the two models own. *)
LEMMA ModelsAreOwned == ModelsInv => ContextsOwned /\ contexts \in Nat
<1> SUFFICES ASSUME ModelsInv PROVE ContextsOwned /\ contexts \in Nat
  OBVIOUS
<1>1. contexts = Cardinality({r \in Roles : models[r].context})
  BY TwoModels DEF ModelsInv
<1>2. contexts \in Nat
  BY DEF ModelsInv, One
<1> QED
  BY <1>1, <1>2 DEF ContextsOwned, ModelsInv

(* A model is set anew, and its former context has been released.          *)
LEMMA ModelSet ==
  ASSUME ModelsInv, NEW r \in Roles, NEW new \in [context : BOOLEAN, ready : BOOLEAN],
         new.ready => new.context,
         models' = [models EXCEPT ![r] = new],
         contexts' = AfterRelease(r) + (IF new.context THEN 1 ELSE 0)
  PROVE  ModelsInv'
<1>1. /\ models \in Models /\ models' \in Models
      /\ models'[r] = new
      /\ \A q \in Roles : q # r => models'[q] = models[q]
  BY DEF ModelsInv, Models
<1>2. /\ One(models', r) = IF new.context THEN 1 ELSE 0
      /\ \A q \in Roles : q # r => One(models', q) = One(models, q)
  BY <1>1 DEF One
<1>3. AfterRelease(r) = contexts - One(models, r)
  BY DEF AfterRelease, One
<1>4. \A q \in Roles : One(models, q) \in Int /\ One(models', q) \in Int
  BY DEF One
<1>5. contexts' = One(models', "detector") + One(models', "extractor")
  <2>1. contexts = One(models, "detector") + One(models, "extractor")
    BY DEF ModelsInv
  <2>2. contexts' = contexts - One(models, r) + One(models', r)
    BY <1>2, <1>3
  <2>3. CASE r = "detector"
    <3>1. One(models', "extractor") = One(models, "extractor")
      BY <1>2, <2>3 DEF Roles
    <3>2. /\ One(models, "detector") \in Int /\ One(models', "detector") \in Int
          /\ One(models, "extractor") \in Int
      BY <1>4 DEF Roles
    <3>3. contexts' = contexts - One(models, "detector") + One(models', "detector")
      BY <2>2, <2>3
    <3> QED BY <2>1, <3>1, <3>2, <3>3
  <2>4. CASE r = "extractor"
    <3>1. One(models', "detector") = One(models, "detector")
      BY <1>2, <2>4 DEF Roles
    <3>2. /\ One(models, "detector") \in Int /\ One(models', "extractor") \in Int
          /\ One(models, "extractor") \in Int
      BY <1>4 DEF Roles
    <3>3. contexts' = contexts - One(models, "extractor") + One(models', "extractor")
      BY <2>2, <2>4
    <3> QED BY <2>1, <3>1, <3>2, <3>3
  <2> QED BY <2>3, <2>4 DEF Roles
<1>6. \A q \in Roles : models'[q].ready => models'[q].context
  BY <1>1 DEF ModelsInv
<1> QED
  BY <1>1, <1>5, <1>6 DEF ModelsInv

(* Loading a model, or failing to, leaves the contexts owned and the other
   model as it was. *)
LEMMA ModelLoads ==
  ASSUME ModelsInv, NEW r \in Roles
  PROVE  /\ LoadModel(r) => ModelsInv' /\ Ready(r)' /\ outputs' = outputs
         /\ LoadModelFails(r) => ModelsInv' /\ outputs' = outputs
         /\ LoadModel(r) \/ LoadModelFails(r)
              => \A q \in Roles : q # r => Ready(q)' = Ready(q)
<1> DEFINE loaded == [context |-> TRUE, ready |-> TRUE]
<1>1. /\ loaded \in [context : BOOLEAN, ready : BOOLEAN]
      /\ loaded.context /\ loaded.ready
  OBVIOUS
<1>2. /\ NoModel \in [context : BOOLEAN, ready : BOOLEAN]
      /\ ~NoModel.context /\ ~NoModel.ready
  BY DEF NoModel
<1>3. DOMAIN models = Roles /\ AfterRelease(r) \in Int
  BY DEF ModelsInv, Models, AfterRelease, One
<1> HIDE DEF loaded
<1>4. ASSUME LoadModel(r)
      PROVE  /\ ModelsInv' /\ Ready(r)' /\ outputs' = outputs
             /\ \A q \in Roles : q # r => Ready(q)' = Ready(q)
  <2>1. /\ models' = [models EXCEPT ![r] = loaded]
        /\ contexts' = AfterRelease(r) + 1 /\ outputs' = outputs
    BY <1>4 DEF LoadModel, loaded
  <2>2. contexts' = AfterRelease(r) + (IF loaded.context THEN 1 ELSE 0)
    BY <1>1, <2>1
  <2>3. ModelsInv'
    BY <1>1, <2>1, <2>2, ModelSet
  <2>4. models'[r] = loaded /\ \A q \in Roles : q # r => models'[q] = models[q]
    BY <1>3, <2>1
  <2> QED BY <1>1, <2>1, <2>3, <2>4 DEF Ready
<1>5. ASSUME LoadModelFails(r)
      PROVE  /\ ModelsInv' /\ outputs' = outputs
             /\ \A q \in Roles : q # r => Ready(q)' = Ready(q)
  <2>1. /\ models' = [models EXCEPT ![r] = NoModel]
        /\ contexts' = AfterRelease(r) /\ outputs' = outputs
    BY <1>5 DEF LoadModelFails
  <2>2. contexts' = AfterRelease(r) + (IF NoModel.context THEN 1 ELSE 0)
    BY <1>2, <1>3, <2>1
  <2>3. ModelsInv'
    BY <1>2, <2>1, <2>2, ModelSet
  <2>4. \A q \in Roles : q # r => models'[q] = models[q]
    BY <1>3, <2>1
  <2> QED BY <2>1, <2>3, <2>4 DEF Ready
<1> QED
  BY <1>4, <1>5

(* Without a model there is no context.                                    *)
LEMMA NoModels ==
  ASSUME NEW m, m = [r \in Roles |-> NoModel]
  PROVE  /\ m \in Models /\ One(m, "detector") = 0 /\ One(m, "extractor") = 0
         /\ \A r \in Roles : ~m[r].ready
<1>1. /\ NoModel \in [context : BOOLEAN, ready : BOOLEAN]
      /\ ~NoModel.context /\ ~NoModel.ready
  BY DEF NoModel
<1>2. m \in Models
  BY <1>1 DEF Models
<1>3. m["detector"] = NoModel /\ m["extractor"] = NoModel
      /\ \A r \in Roles : m[r] = NoModel
  BY DEF Roles
<1> QED
  BY <1>1, <1>2, <1>3 DEF One

-----------------------------------------------------------------------------
(* The whole.                                                              *)

(* What a process has when it is so far, and that only the looking at a    *)
(* frame between the inference and the decoding holds outputs.             *)
ProgressInv ==
  /\ role \in Progress
  /\ role \in {"people", "detector"} => records # <<>>
  /\ role \in {"detector", "ready"} => Ready("detector")
  /\ role = "ready" => known = records /\ known # <<>>

OutputsInv == outputs = IF pc = "suppress" THEN 1 ELSE 0

FinderPart == SuppressInv /\ FacesInv /\ ChosenBest
DbPart     == MemoryInv /\ FlagsInv /\ KnownInv

VisionInd ==
  FinderPart /\ DbPart /\ ModelsInv /\ OutputsInv /\ ProgressInv

(* The first process starts inside the inductive invariant. *)
LEMMA VisionStarts == VisionInit => VisionInd
<1> SUFFICES ASSUME VisionInit PROVE VisionInd
  OBVIOUS
<1>1. FinderInit /\ DbInit /\ NpuInit /\ role = "enrol"
  BY DEF VisionInit
<1>2. FinderPart
  BY <1>1, SuppressStarts, FindsStart DEF FinderPart
<1>3. DbPart
  BY <1>1, MemoryStarts, KnownStarts DEF DbPart
<1>4. ModelsInv
  <2>1. models = [r \in Roles |-> NoModel] /\ contexts = 0
    BY <1>1 DEF NpuInit
  <2> QED BY <2>1, NoModels DEF ModelsInv
<1>5. OutputsInv
  BY <1>1 DEF OutputsInv, NpuInit, FinderInit
<1>6. ProgressInv
  BY <1>1 DEF ProgressInv, Progress
<1> QED
  BY <1>2, <1>3, <1>4, <1>5, <1>6 DEF VisionInd

(* Each step is one of the search and one of the database, or neither's.   *)
LEMMA FinderFollows == [VisionNext]_vars => [Find]_finderVars
<1> SUFFICES ASSUME [VisionNext]_vars PROVE Find \/ UNCHANGED finderVars
  OBVIOUS
<1>1. ASSUME \/ NextProcess \/ Enrolment \/ StartPeople \/ StartDetector
             \/ StartExtractor \/ UNCHANGED vars
      PROVE  UNCHANGED finderVars
  BY <1>1 DEF NextProcess, Enrolment, StartPeople, StartDetector, StartExtractor, vars
<1>2. ASSUME NEW next \in Frames, Poll(next) PROVE Find
  BY <1>2 DEF Poll, Find
<1>3. ASSUME NEW n \in 0..MaxCandidates, NEW some \in kSubset(n, Candidates),
             PollInfers(some)
      PROVE  Find
  BY <1>3 DEF PollInfers, Find
<1>4. ASSUME NEW p \in pending, PollSuppresses(p) PROVE Find
  BY <1>4 DEF PollSuppresses, Find
<1>5. ASSUME \/ PollDetectFails \/ PollDecodes \/ PollChooses \/ PollExtractFails
             \/ PollFallsBack \/ \E feature \in RawFeatures : PollRecognises(feature)
      PROVE  Find
  BY <1>5 DEF PollDetectFails, PollDecodes, PollChooses, PollExtractFails,
              PollFallsBack, PollRecognises, Find
<1> QED
  BY <1>1, <1>2, <1>3, <1>4, <1>5 DEF VisionNext

(* Every step of the composition is, for the database, one of its own steps,
   the loss of its memory, or nothing. *)
LEMMA DbFollows == [VisionNext]_vars => DbNext \/ Forget \/ UNCHANGED dbVars
<1> SUFFICES ASSUME [VisionNext]_vars PROVE DbNext \/ Forget \/ UNCHANGED dbVars
  OBVIOUS
<1>1. ASSUME NextProcess PROVE DbNext
  BY <1>1 DEF NextProcess, DbNext, Enrol
<1>2. ASSUME Enrolment PROVE DbNext
  BY <1>2 DEF Enrolment, DbNext, Enrol
<1>3. ASSUME StartPeople PROVE DbNext
  BY <1>3 DEF StartPeople, DbNext, Enrol
<1>4. ASSUME StartDetector PROVE UNCHANGED dbVars
  BY <1>4 DEF StartDetector
<1>5. ASSUME StartExtractor PROVE DbNext \/ UNCHANGED dbVars
  BY <1>5 DEF StartExtractor, DbNext, Enrol
<1>6. ASSUME NEW next \in Frames, Poll(next) PROVE Forget
  BY <1>6 DEF Poll, Forget
<1>7. ASSUME NEW some, PollInfers(some) PROVE UNCHANGED dbVars
  BY <1>7 DEF PollInfers
<1>8. ASSUME NEW p, PollSuppresses(p) PROVE UNCHANGED dbVars
  BY <1>8 DEF PollSuppresses
<1>9. ASSUME PollDetectFails \/ PollDecodes \/ PollChooses \/ PollExtractFails
      PROVE  UNCHANGED dbVars
  BY <1>9 DEF PollDetectFails, PollDecodes, PollChooses, PollExtractFails
<1>10. ASSUME PollFallsBack PROVE DbNext \/ UNCHANGED dbVars
  BY <1>10 DEF PollFallsBack, DbNext, Enrol
<1>11. ASSUME NEW feature \in RawFeatures, PollRecognises(feature) PROVE DbNext
  BY <1>11 DEF PollRecognises, DbNext
<1>12. ASSUME UNCHANGED vars PROVE UNCHANGED dbVars
  BY <1>12 DEF vars
<1> QED
  BY <1>1, <1>2, <1>3, <1>4, <1>5, <1>6, <1>7, <1>8, <1>9, <1>10, <1>11, <1>12
     DEF VisionNext

(* The models, the outputs and the progress, step by step.                 *)
LEMMA SameModels ==
  ModelsInv /\ UNCHANGED <<models, contexts>> => ModelsInv'
  BY DEF ModelsInv, One

(* Progress is kept while nothing it depends on changes. *)
LEMMA SameProgress ==
  ProgressInv /\ UNCHANGED <<role, known, records>> /\ Ready("detector")' = Ready("detector")
    => ProgressInv'
  BY DEF ProgressInv

RestInv == ModelsInv /\ OutputsInv /\ ProgressInv

(* Every step keeps the models owned, the outputs counted and the process as far
   as its role says. *)
LEMMA RestSteps == VisionInd /\ [VisionNext]_vars => RestInv'
<1> SUFFICES ASSUME VisionInd, [VisionNext]_vars PROVE RestInv'
  OBVIOUS
<1>1. /\ ModelsInv /\ OutputsInv /\ ProgressInv /\ MemoryInv /\ FlagsInv
      /\ pc \in Stages
  BY DEF VisionInd, DbPart, FinderPart, SuppressInv, Typed
<1>2. "detector" \in Roles /\ "extractor" \in Roles /\ "detector" # "extractor"
  BY DEF Roles
<1>3. ASSUME UNCHANGED npuVars
      PROVE  ModelsInv' /\ outputs' = outputs /\ Ready("detector")' = Ready("detector")
  BY <1>1, <1>3, SameModels DEF npuVars, Ready
<1>4. ASSUME UNCHANGED npuVars, pc' = "suppress" <=> pc = "suppress",
             UNCHANGED <<role, known, records>>
      PROVE  RestInv'
  BY <1>1, <1>3, <1>4, SameProgress DEF RestInv, OutputsInv
<1>5. ASSUME NextProcess PROVE RestInv'
  <2>1. /\ pc = "idle" /\ pc' = pc /\ role' \in {"enrol", "start"}
        /\ models' = [r \in Roles |-> NoModel] /\ contexts' = 0 /\ outputs' = 0
    BY <1>5 DEF NextProcess, Unload, finderVars
  <2>2. ModelsInv'
    BY <2>1, NoModels DEF ModelsInv
  <2> QED BY <2>1, <2>2 DEF RestInv, OutputsInv, ProgressInv, Progress
<1>6. ASSUME Enrolment PROVE RestInv'
  <2>1. role = "enrol" /\ role' = role /\ pc' = pc /\ UNCHANGED npuVars
    BY <1>6 DEF Enrolment, finderVars
  <2>2. ProgressInv'
    BY <2>1 DEF ProgressInv, Progress
  <2> QED BY <1>1, <1>3, <2>1, <2>2 DEF RestInv, OutputsInv
<1>7. ASSUME StartPeople PROVE RestInv'
  <2>1. pc' = pc /\ UNCHANGED npuVars /\ role' \in {"people", "failed"}
    BY <1>7 DEF StartPeople, finderVars
  <2>2. role' = "people" => records' # <<>>
    <3> SUFFICES ASSUME role' = "people" PROVE records' # <<>>
      OBVIOUS
    <3>1. PICK count \in 1..Len(rows) : Load(count)
      BY <1>7 DEF StartPeople
    <3> QED BY <1>1, <3>1, LoadKeepsMemory
  <2>3. ProgressInv'
    BY <2>1, <2>2 DEF ProgressInv, Progress
  <2> QED BY <1>1, <1>3, <2>1, <2>3 DEF RestInv, OutputsInv
<1>8. ASSUME StartDetector PROVE RestInv'
  <2>1. /\ role = "people" /\ pc' = pc /\ records' = records /\ known' = known
        /\ \/ role' = "detector" /\ LoadModel("detector")
           \/ role' = "failed" /\ LoadModelFails("detector")
    BY <1>8 DEF StartDetector, finderVars, dbVars
  <2>2. ModelsInv' /\ outputs' = outputs /\ (role' = "detector" => Ready("detector")')
    BY <1>1, <1>2, <2>1, ModelLoads
  <2>3. ProgressInv'
    BY <1>1, <2>1, <2>2 DEF ProgressInv, Progress
  <2> QED BY <1>1, <2>1, <2>2, <2>3 DEF RestInv, OutputsInv
<1>9. ASSUME StartExtractor PROVE RestInv'
  <2>1. /\ role = "detector" /\ pc' = pc
        /\ \/ role' = "ready" /\ LoadModel("extractor") /\ Reset
           \/ role' = "failed" /\ LoadModelFails("extractor")
    BY <1>9 DEF StartExtractor, finderVars
  <2>2. ModelsInv' /\ outputs' = outputs /\ Ready("detector")' = Ready("detector")
    BY <1>1, <1>2, <2>1, ModelLoads
  <2>3. role' = "ready" => known' = records /\ records' = records
    BY <2>1 DEF Reset
  <2>4. ProgressInv'
    BY <1>1, <2>1, <2>2, <2>3 DEF ProgressInv, Progress
  <2> QED BY <1>1, <2>1, <2>2, <2>4 DEF RestInv, OutputsInv
<1>10. ASSUME NEW next \in Frames, Poll(next) PROVE RestInv'
  <2>1. /\ pc = "idle" /\ pc' = "infer" /\ UNCHANGED npuVars
        /\ UNCHANGED <<role, known, records>>
    BY <1>10 DEF Poll, Grab
  <2> QED BY <1>4, <2>1
<1>11. ASSUME PollDetectFails PROVE RestInv'
  <2>1. /\ pc = "infer" /\ pc' = "idle" /\ UNCHANGED npuVars
        /\ UNCHANGED <<role, known, records>>
    BY <1>11 DEF PollDetectFails, DetectFails, Over, dbVars
  <2> QED BY <1>4, <2>1
<1>12. ASSUME NEW some, PollInfers(some) PROVE RestInv'
  <2>1. /\ pc = "infer" /\ pc' = "suppress" /\ outputs' = outputs + 1
        /\ UNCHANGED <<models, contexts>> /\ UNCHANGED <<role, known, records>>
    BY <1>12 DEF PollInfers, Infer, Infers, dbVars
  <2>2. ModelsInv' /\ Ready("detector")' = Ready("detector")
    BY <1>1, <2>1, SameModels DEF Ready
  <2>3. OutputsInv'
    BY <1>1, <2>1 DEF OutputsInv
  <2> QED BY <1>1, <2>1, <2>2, <2>3, SameProgress DEF RestInv
<1>13. ASSUME NEW p, PollSuppresses(p) PROVE RestInv'
  <2>1. pc' = pc /\ UNCHANGED npuVars /\ UNCHANGED <<role, known, records>>
    BY <1>13 DEF PollSuppresses, Suppress, dbVars
  <2> QED BY <1>4, <2>1
<1>14. ASSUME PollDecodes PROVE RestInv'
  <2>1. /\ pc = "suppress" /\ pc' = "choose" /\ outputs' = outputs - 1
        /\ UNCHANGED <<models, contexts>> /\ UNCHANGED <<role, known, records>>
    BY <1>14 DEF PollDecodes, Decode, ReleasesOutputs, dbVars
  <2>2. ModelsInv' /\ Ready("detector")' = Ready("detector")
    BY <1>1, <2>1, SameModels DEF Ready
  <2>3. OutputsInv'
    BY <1>1, <2>1 DEF OutputsInv
  <2> QED BY <1>1, <2>1, <2>2, <2>3, SameProgress DEF RestInv
<1>15. ASSUME PollChooses PROVE RestInv'
  <2>1. UNCHANGED npuVars /\ UNCHANGED <<role, known, records>>
    BY <1>15 DEF PollChooses, dbVars
  <2>2. pc \in {"choose", "crop"} /\ pc' \in {"idle", "crop", "extract"}
    BY <1>15 DEF PollChooses, Choose, Cut, NoFace, Incomplete, Over
  <2> QED BY <1>4, <2>1, <2>2
<1>16. ASSUME PollExtractFails PROVE RestInv'
  <2>1. /\ pc = "extract" /\ pc' = "idle" /\ UNCHANGED npuVars
        /\ UNCHANGED <<role, known, records>>
    BY <1>16 DEF PollExtractFails, Extracted, Over, dbVars
  <2> QED BY <1>4, <2>1
<1>17. ASSUME PollFallsBack PROVE RestInv'
  <2>1. /\ pc = "extract" /\ pc' = "idle" /\ role' = role
        /\ \/ LoadModel("extractor") /\ Reset
           \/ LoadModelFails("extractor") /\ UNCHANGED dbVars
    BY <1>17 DEF PollFallsBack, Extracted, Over
  <2>2. ModelsInv' /\ outputs' = outputs /\ Ready("detector")' = Ready("detector")
    BY <1>1, <1>2, <2>1, ModelLoads
  <2>3. records' = records /\ known' \in {known, records}
    BY <2>1 DEF Reset, dbVars
  <2>4. ProgressInv'
    BY <1>1, <2>1, <2>2, <2>3 DEF ProgressInv
  <2> QED BY <1>1, <2>1, <2>2, <2>4 DEF RestInv, OutputsInv
<1>18. ASSUME NEW feature \in RawFeatures, PollRecognises(feature) PROVE RestInv'
  <2>1. /\ pc = "extract" /\ pc' = "idle" /\ UNCHANGED npuVars
        /\ UNCHANGED <<role, known, records>>
    BY <1>18 DEF PollRecognises, Extracted, Over, Recognise
  <2> QED BY <1>4, <2>1
<1>19. ASSUME UNCHANGED vars PROVE RestInv'
  <2>1. pc' = pc /\ UNCHANGED npuVars /\ UNCHANGED <<role, known, records>>
    BY <1>19 DEF vars, finderVars, dbVars
  <2> QED BY <1>4, <2>1
<1> QED
  BY <1>5, <1>6, <1>7, <1>8, <1>9, <1>10, <1>11, <1>12, <1>13, <1>14, <1>15,
     <1>16, <1>17, <1>18, <1>19 DEF VisionNext

(* The invariant of the composition is inductive. *)
LEMMA VisionSteps == VisionInd /\ [VisionNext]_vars => VisionInd'
<1> SUFFICES ASSUME VisionInd, [VisionNext]_vars PROVE VisionInd'
  OBVIOUS
<1>1. FinderPart'
  <2>1. [Find]_finderVars
    BY FinderFollows
  <2> QED BY <2>1, SuppressSteps, FindsSteps DEF VisionInd, FinderPart
<1>2. DbPart'
  <2>1. DbNext \/ Forget \/ UNCHANGED dbVars
    BY DbFollows
  <2> QED BY <2>1, MemorySteps, KnownSteps DEF VisionInd, DbPart
<1> QED
  BY <1>1, <1>2, RestSteps DEF VisionInd, RestInv

(* Everything that is proved of the whole rests on this invariant.         *)
THEOREM VisionSafe == VisionSpec => []VisionInd
  BY VisionStarts, VisionSteps, PTL DEF VisionSpec

(* The inductive invariant implies every invariant the run checks. *)
LEMMA VisionHolds ==
  VisionInd => /\ VisionInv /\ SuppressionIsSound /\ FacesInFrame /\ ChoiceIsBest
               /\ MemoryMatchesFile /\ AnswersBest
<1> SUFFICES ASSUME VisionInd
             PROVE  /\ VisionInv /\ SuppressionIsSound /\ FacesInFrame /\ ChoiceIsBest
                    /\ MemoryMatchesFile /\ AnswersBest
  OBVIOUS
<1>1. FinderTypeOK /\ FacesInFrame /\ ChoiceIsBest /\ SuppressionIsSound
  BY FindsWell DEF VisionInd, FinderPart, SuppressInv
<1>2. MemoryMatchesFile /\ AnswersBest
  BY MemoryIsRight, BestAnswered DEF VisionInd, DbPart
<1>3. ContextsOwned /\ contexts \in Nat
  BY ModelsAreOwned DEF VisionInd
<1>4. outputs \in Nat /\ ((outputs # 0) <=> (pc = "suppress"))
  BY DEF VisionInd, OutputsInv
<1>5. DbTypeOK
  BY DEF VisionInd, DbPart, MemoryInv, FlagsInv, KnownInv, DbTypeOK, Records
<1>6. NpuTypeOK
  BY <1>3, <1>4 DEF NpuTypeOK, VisionInd, ModelsInv, Models
<1>7. VisionTypeOK
  BY <1>1, <1>5, <1>6 DEF VisionTypeOK, VisionInd, ProgressInv
<1>8. VisionInv
  BY <1>3, <1>4, <1>7 DEF VisionInv
<1> QED
  BY <1>1, <1>2, <1>8

(* A pipe that looks at frames has a detector and people to compare with;  *)
(* however often the models are loaded, no context is lost, and no poll    *)
(* keeps the outputs it took.                                              *)
THEOREM VisionInvHolds == VisionSpec => []VisionInv
  BY VisionSafe, VisionHolds, PTL

(* The suppression: whatever the detector proposes, and in whatever order  *)
(* equal scores are looked at, what is kept does not overlap and what is   *)
(* dropped overlaps with something kept that is at least as probable.      *)
THEOREM Suppression == VisionSpec => []SuppressionIsSound
  BY VisionSafe, VisionHolds, PTL

(* Every box found is inside the frame, wherever the proposal was, and     *)
(* there is always something to cut out for the chosen one.                *)
THEOREM FacesAreInFrame == VisionSpec => []FacesInFrame
  BY VisionSafe, VisionHolds, PTL

(* The face that is recognised is a complete one if there is any, and of   *)
(* these the first with the highest rank.                                  *)
THEOREM BestIsChosen == VisionSpec => []ChoiceIsBest
  BY VisionSafe, VisionHolds, PTL

(* Whatever is enrolled, cleared or refused, and however the reading of    *)
(* the file ends, the memory holds nobody the file does not, and a whole   *)
(* view stays whole.                                                       *)
THEOREM MemoryIsTheFile == VisionSpec => []MemoryMatchesFile
  BY VisionSafe, VisionHolds, PTL

(* For any people, lengths and cosines the recogniser answers with the     *)
(* first of the most similar records, and with nobody below the threshold. *)
THEOREM AnswersAreBest == VisionSpec => []AnswersBest
  BY VisionSafe, VisionHolds, PTL
=============================================================================
