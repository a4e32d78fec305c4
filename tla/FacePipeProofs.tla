--------------------------- MODULE FacePipeProofs ---------------------------
(***************************************************************************)
(* Proofs about the face pipe, for every configuration, every number of    *)
(* enrolled people and every window: the vote gives the frame the name it  *)
(* should, the flags and the votes stay consistent through every call, a   *)
(* match needs faces in sight, and the camera is opened once and kept.     *)
(*                                                                         *)
(* What a loop of the code computes is a recursive function here, and its  *)
(* properties are proved by induction.  The induction is stated for a set  *)
(* of numbers instead of a predicate (SetInduction), and follows from the  *)
(* well-foundedness of < on the natural numbers.                           *)
(***************************************************************************)
EXTENDS FacePipe, FiniteSetTheorems, SequenceTheorems, WellFoundedInduction, TLAPS

(* A set of natural numbers has a least element.                           *)
LEMMA LeastExists ==
  ASSUME NEW S \in SUBSET Nat, S # {}
  PROVE  \E n \in S : \A m \in S : n <= m
<1> DEFINE R == OpToRel(<, Nat)
<1>1. IsWellFoundedOn(R, Nat)
  BY NatLessThanWellFounded
<1>2. \A Q, B, T : IsWellFoundedOn(Q, B) /\ T \subseteq B /\ T # {}
         => \E x \in T : \A y \in T : ~ (<<y, x>> \in Q)
  BY WFMin
<1>3. \A m, n \in Nat : m < n => <<m, n>> \in R
  BY DEF OpToRel
<1>4. \E n \in S : \A m \in S : ~(<<m, n>> \in R)
  <2> HIDE DEF R
  <2> QED BY <1>1, <1>2, Zenon
<1> HIDE DEF R
<1>5. PICK n \in S : \A m \in S : ~(<<m, n>> \in R)
  BY <1>4
<1>6. ASSUME NEW m \in S PROVE n <= m
  <2>1. ~(m < n)
    BY <1>5, <1>3
  <2> QED BY <2>1
<1> QED
  BY <1>6

(* Induction over the natural numbers, for a set.                          *)
LEMMA SetInduction ==
  ASSUME NEW S, 0 \in S, \A n \in Nat : n \in S => n + 1 \in S
  PROVE  Nat \subseteq S
<1> DEFINE T == Nat \ S
<1> SUFFICES ASSUME T # {} PROVE FALSE
  OBVIOUS
<1>1. PICK n \in T : \A m \in T : n <= m
  BY LeastExists
<1>2. n # 0 /\ n - 1 \in Nat /\ n - 1 \notin T
  BY <1>1
<1> QED
  BY <1>1, <1>2

(* f[n] is what the steps 1..n make of the base. *)
Iterates(f, V, base, step) ==
  /\ f \in [Nat -> V]
  /\ f[0] = base
  /\ \A n \in Nat : f[n + 1] = step[n + 1][f[n]]

(* The steps of a recursion over the natural numbers define a function.   *)
LEMMA RecursionOnNat ==
  ASSUME NEW V, NEW base \in V, NEW step \in [Nat -> [V -> V]]
  PROVE  \E f : Iterates(f, V, base, step)
<1> DEFINE Begins(g, n) == /\ g \in [0..n -> V] /\ g[0] = base
                           /\ \A i \in Nat : i < n => g[i + 1] = step[i + 1][g[i]]
<1>1. \A n \in Nat : \E g : Begins(g, n)
  <2> DEFINE S == {n \in Nat : \E g : Begins(g, n)}
  <2>1. 0 \in S
    <3>1. Begins([i \in 0..0 |-> base], 0)
      OBVIOUS
    <3> QED BY <3>1
  <2>2. ASSUME NEW n \in Nat, n \in S PROVE n + 1 \in S
    <3>1. PICK g : Begins(g, n)
      BY <2>2
    <3>a. g[n] \in V /\ step[n + 1] \in [V -> V] /\ \A i \in 0..n : g[i] \in V
      BY <3>1
    <3> DEFINE h == [i \in 0..n + 1 |-> IF i = n + 1 THEN step[n + 1][g[n]] ELSE g[i]]
    <3>2. h \in [0..n + 1 -> V]
      BY <3>a
    <3>3. h[0] = base
      BY <3>1
    <3>4. ASSUME NEW i \in Nat, i < n + 1 PROVE h[i + 1] = step[i + 1][h[i]]
      <4>1. CASE i = n
        <5>1. h[n + 1] = step[n + 1][g[n]] /\ h[n] = g[n]
          OBVIOUS
        <5> QED BY <4>1, <5>1
      <4>2. CASE i < n
        <5>1. h[i + 1] = g[i + 1] /\ h[i] = g[i]
          BY <4>2
        <5> QED BY <3>1, <4>2, <5>1
      <4> QED BY <3>4, <4>1, <4>2
    <3>5. Begins(h, n + 1)
      BY <3>2, <3>3, <3>4
    <3> HIDE DEF h, Begins
    <3> QED BY <3>5
  <2> HIDE DEF S
  <2>3. Nat \subseteq S
    BY <2>1, <2>2, SetInduction
  <2> QED BY <2>3 DEF S
<1>2. ASSUME NEW m \in Nat, NEW n \in Nat, m <= n, NEW g, NEW h, Begins(g, m), Begins(h, n)
      PROVE  \A i \in 0..m : g[i] = h[i]
  <2> DEFINE S == {i \in Nat : i <= m => g[i] = h[i]}
  <2>1. 0 \in S
    BY <1>2
  <2>2. ASSUME NEW i \in Nat, i \in S PROVE i + 1 \in S
    BY <1>2, <2>2
  <2> HIDE DEF S
  <2>3. Nat \subseteq S
    BY <2>1, <2>2, SetInduction
  <2> QED BY <2>3 DEF S
<1> DEFINE first(n) == CHOOSE g : Begins(g, n)
           f == [n \in Nat |-> first(n)[n]]
<1>3. \A n \in Nat : Begins(first(n), n)
  BY <1>1
<1> HIDE DEF first
<1>4. \A n \in Nat : /\ first(n) \in [0..n -> V] /\ first(n)[0] = base
                     /\ \A i \in Nat : i < n => first(n)[i + 1] = step[i + 1][first(n)[i]]
  BY <1>3
<1>5. f \in [Nat -> V] /\ f[0] = base
  BY <1>4
<1>6. ASSUME NEW n \in Nat PROVE f[n + 1] = step[n + 1][f[n]]
  <2>1. \A i \in 0..n : first(n)[i] = first(n + 1)[i]
    <3>1. Begins(first(n), n) /\ Begins(first(n + 1), n + 1) /\ n + 1 \in Nat /\ n <= n + 1
      BY <1>3
    <3> HIDE DEF Begins
    <3> QED BY <1>2, <3>1
  <2>2. first(n + 1)[n + 1] = step[n + 1][first(n + 1)[n]]
    BY <1>4
  <2>3. f[n + 1] = first(n + 1)[n + 1] /\ f[n] = first(n)[n]
    OBVIOUS
  <2> QED BY <2>1, <2>2, <2>3
<1>7. Iterates(f, V, base, step)
  BY <1>5, <1>6 DEF Iterates
<1> QED
  BY <1>7

(* What a result in the window has for a similarity. *)
LEMMA VotesHaveIntegers ==
  ASSUME NEW h \in Seq(Votes), NEW i \in 1..Len(h)
  PROVE  h[i] \in Votes /\ h[i].candidate \in 0..Names /\ h[i].similarity \in Int
<1>1. h[i] \in Votes
  OBVIOUS
<1>2. h[i].candidate \in 0..Names /\ h[i].similarity \in Similarities \cup {0}
  BY <1>1 DEF Votes
<1>3. Similarities \cup {0} \subseteq Int
  BY PipeAssumption
<1> QED
  BY <1>1, <1>2, <1>3

(* The loop over the window, result by result.                             *)
LEMMA TalliesRecursive ==
  ASSUME NEW name, NEW h \in Seq(Votes)
  PROVE  /\ Tallies(name, h) \in [0..Len(h) -> [votes : Nat, total : Int]]
         /\ Tallies(name, h)[0] = NoVotes
         /\ \A i \in 1..Len(h) :
              Tallies(name, h)[i] =
                IF h[i].candidate = name
                THEN [votes |-> Tallies(name, h)[i - 1].votes + 1,
                      total |-> Tallies(name, h)[i - 1].total + h[i].similarity]
                ELSE Tallies(name, h)[i - 1]
<1> DEFINE V == [votes : Nat, total : Int]
           Adds(t, i) == [votes |-> t.votes + 1, total |-> t.total + h[i].similarity]
           step == [i \in Nat |-> [t \in V |->
                     IF i \in 1..Len(h) /\ h[i].candidate = name THEN Adds(t, i) ELSE t]]
           Is(t) == t = [i \in 0..Len(h) |->
                          IF i = 0 THEN NoVotes
                          ELSE IF h[i].candidate = name THEN Adds(t[i - 1], i)
                          ELSE t[i - 1]]
<1>1. \A i \in 1..Len(h) : h[i].similarity \in Int
  BY VotesHaveIntegers
<1>2. step \in [Nat -> [V -> V]]
  BY <1>1
<1>3. NoVotes \in V
  BY DEF NoVotes
<1>4. PICK f : Iterates(f, V, NoVotes, step)
  <2> HIDE DEF V, step
  <2> QED BY <1>2, <1>3, RecursionOnNat
<1>5. Len(h) \in Nat
  OBVIOUS
<1> DEFINE g == [i \in 0..Len(h) |-> f[i]]
<1>6. Is(g)
  <2>1. ASSUME NEW i \in 1..Len(h)
        PROVE  f[i] = IF h[i].candidate = name THEN Adds(f[i - 1], i) ELSE f[i - 1]
    <3>1. i - 1 \in Nat /\ (i - 1) + 1 = i
      BY <1>5
    <3>3. f[i - 1] \in V
      <4> HIDE DEF V
      <4> QED BY <1>4, <3>1 DEF Iterates
    <3>2. f[i] = step[i][f[i - 1]]
      <4> HIDE DEF step
      <4> QED BY <1>4, <3>1 DEF Iterates
    <3> QED BY <3>1, <3>2, <3>3
  <2>2. f[0] = NoVotes
    BY <1>4 DEF Iterates
  <2> QED BY <2>2, <1>5, <2>1
<1>7. Tallies(name, h) = CHOOSE t : Is(t)
  BY DEF Tallies
<1>8. Is(Tallies(name, h))
  <2> HIDE DEF Is, g
  <2> QED BY <1>6, <1>7
<1> DEFINE T == Tallies(name, h)
<1>9. /\ T[0] = NoVotes
      /\ \A i \in 1..Len(h) :
           T[i] = IF h[i].candidate = name THEN Adds(T[i - 1], i) ELSE T[i - 1]
      /\ T = [i \in 0..Len(h) |-> T[i]]
  <2> HIDE DEF T, Adds
  <2>1. Is(T)
    BY <1>8 DEF T
  <2> QED BY <2>1, <1>5
<1>10. \A i \in 0..Len(h) : T[i] \in V
  <2> DEFINE S == {i \in Nat : i <= Len(h) => T[i] \in V}
  <2> HIDE DEF T
  <2>1. 0 \in S
    BY <1>3, <1>9
  <2>2. ASSUME NEW i \in Nat, i \in S PROVE i + 1 \in S
    <3> SUFFICES ASSUME i + 1 <= Len(h) PROVE T[i + 1] \in V
      OBVIOUS
    <3>1. i + 1 \in 1..Len(h) /\ (i + 1) - 1 = i /\ i <= Len(h)
      BY <1>5
    <3>2. T[i + 1] = IF h[i + 1].candidate = name THEN Adds(T[i], i + 1) ELSE T[i]
      <4> HIDE DEF Adds
      <4> QED BY <1>9, <3>1
    <3>3. T[i] \in V /\ h[i + 1].similarity \in Int
      BY <1>1, <2>2, <3>1
    <3> QED BY <3>2, <3>3
  <2> HIDE DEF S
  <2>3. Nat \subseteq S
    BY <2>1, <2>2, SetInduction
  <2> QED BY <2>3, <1>5 DEF S
<1> QED
  BY <1>9, <1>10

(* Taking one element out of a finite set. *)
LEMMA OneLess ==
  ASSUME NEW S, IsFiniteSet(S), NEW x \in S
  PROVE  /\ IsFiniteSet(S \ {x})
         /\ Cardinality(S) \in Nat \ {0}
         /\ Cardinality(S \ {x}) = Cardinality(S) - 1
<1>1. Cardinality(S) \in Nat /\ Cardinality(S) # 0
  BY FS_CardinalityType, FS_EmptySet
<1>2. IsFiniteSet(S \ {x}) /\ Cardinality(S \ {x}) = Cardinality(S) - 1
  BY FS_RemoveElement
<1> QED
  BY <1>1, <1>2

(* The sum the community modules compute over a set of results does not    *)
(* depend on the order in which they take the elements.                    *)
LEMMA SumsInAnyOrder ==
  ASSUME NEW h \in Seq(Votes), NEW S \in SUBSET (1..Len(h))
  PROVE  \E sum \in [SUBSET S -> Int] :
           /\ sum[{}] = 0
           /\ \A T \in SUBSET S : \A x \in T :
                sum[T] = h[x].similarity + sum[T \ {x}]
           /\ MapThenSumSet(LAMBDA i : h[i].similarity, S) = sum[S]
<1> DEFINE w(i) == h[i].similarity
           pick(T) == CHOOSE x \in T : TRUE
           V == [SUBSET S -> Int]
           step == [n \in Nat |-> [f \in V |-> [T \in SUBSET S |->
                     IF T = {} THEN 0 ELSE w(pick(T)) + f[T \ {pick(T)}]]]]
           base == [T \in SUBSET S |-> 0]
           Is(f) == f = [T \in SUBSET S |->
                          IF T = {} THEN 0 ELSE w(pick(T)) + f[T \ {pick(T)}]]
<1>1. Len(h) \in Nat /\ \A i \in S : w(i) \in Int
  BY VotesHaveIntegers
<1>2. \A T \in SUBSET S : T # {} => pick(T) \in T /\ w(pick(T)) \in Int
                                   /\ T \ {pick(T)} \in SUBSET S
  <2> HIDE DEF w
  <2> QED BY <1>1
<1>3. \A T \in SUBSET S : /\ IsFiniteSet(T) /\ Cardinality(T) \in Nat
                          /\ Cardinality(T) = 0 => T = {}
  <2>1. IsFiniteSet(1..Len(h))
    BY <1>1, FS_Interval
  <2>2. \A T \in SUBSET S : IsFiniteSet(T)
    <3>1. \A T \in SUBSET S : T \subseteq 1..Len(h)
      OBVIOUS
    <3> QED BY <2>1, <3>1, FS_Subset
  <2> QED BY <2>2, FS_CardinalityType, FS_EmptySet
<1> HIDE DEF w, pick
<1>4. step \in [Nat -> [V -> V]] /\ base \in V
  BY <1>2
<1>5. PICK f : Iterates(f, V, base, step)
  <2> HIDE DEF V, base, step
  <2> QED BY <1>4, RecursionOnNat
<1> DEFINE g == [T \in SUBSET S |-> f[Cardinality(T)][T]]
<1>6. Is(g)
  <2>1. ASSUME NEW T \in SUBSET S, T # {}
        PROVE  g[T] = w(pick(T)) + g[T \ {pick(T)}]
    <3> DEFINE x == pick(T)
               k == Cardinality(T) - 1
    <3>1. x \in T /\ T \ {x} \in SUBSET S
      BY <1>2, <2>1
    <3> HIDE DEF x
    <3>2. k \in Nat /\ Cardinality(T) = k + 1 /\ Cardinality(T \ {x}) = k
      BY <1>3, <3>1, OneLess
    <3>3. f[k] \in V /\ f[k + 1] = step[k + 1][f[k]]
      <4> HIDE DEF V, step, k
      <4> QED BY <1>5, <3>2 DEF Iterates
    <3> HIDE DEF k, x
    <3>4. step[k + 1][f[k]][T] = w(x) + f[k][T \ {x}]
      <4>1. k + 1 \in Nat
        BY <3>2
      <4>2. step[k + 1][f[k]] = [U \in SUBSET S |->
                IF U = {} THEN 0 ELSE w(pick(U)) + f[k][U \ {pick(U)}]]
        BY <3>3, <4>1
      <4> QED BY <4>2, <2>1 DEF x
    <3>5. g[T] = f[k + 1][T] /\ g[T \ {x}] = f[k][T \ {x}]
      BY <3>1, <3>2
    <3> QED BY <3>3, <3>4, <3>5 DEF x
  <2>2. g[{}] = 0
    <3>1. f[0] = base /\ Cardinality({}) = 0
      BY <1>5, FS_EmptySet DEF Iterates
    <3> QED BY <3>1
  <2> HIDE DEF g
  <2>3. g = [T \in SUBSET S |-> g[T]]
    BY DEF g
  <2> QED BY <2>1, <2>2, <2>3
<1> DEFINE sum == CHOOSE s : Is(s)
<1>7. Is(sum)
  <2> HIDE DEF Is, g
  <2> QED BY <1>6
<1>8. MapThenSumSet(LAMBDA i : h[i].similarity, S) = sum[S]
  BY DEF MapThenSumSet, MapThenFoldSet, w, pick
<1> HIDE DEF sum
<1>9. /\ sum = [T \in SUBSET S |-> sum[T]]
      /\ sum[{}] = 0
      /\ \A T \in SUBSET S : T # {} => sum[T] = w(pick(T)) + sum[T \ {pick(T)}]
  BY <1>7
<1>10. \A T \in SUBSET S : sum[T] \in Int
  <2> DEFINE N == {n \in Nat : \A T \in SUBSET S : Cardinality(T) = n => sum[T] \in Int}
  <2>1. 0 \in N
    <3>1. ASSUME NEW T \in SUBSET S, Cardinality(T) = 0 PROVE sum[T] \in Int
      <4>1. T = {}
        BY <1>3, <3>1
      <4> QED BY <4>1, <1>9
    <3> QED BY <3>1
  <2>2. ASSUME NEW n \in Nat, n \in N PROVE n + 1 \in N
    <3> SUFFICES ASSUME NEW T \in SUBSET S, Cardinality(T) = n + 1 PROVE sum[T] \in Int
      OBVIOUS
    <3>1. T # {}
      <4> SUFFICES ASSUME T = {} PROVE FALSE
        OBVIOUS
      <4>1. Cardinality(T) = 0
        BY FS_EmptySet
      <4> QED BY <4>1
    <3>2. pick(T) \in T /\ w(pick(T)) \in Int /\ T \ {pick(T)} \in SUBSET S
      BY <3>1, <1>2
    <3>3. Cardinality(T \ {pick(T)}) = n
      BY <3>2, <1>3, OneLess
    <3>4. sum[T \ {pick(T)}] \in Int
      BY <2>2, <3>2, <3>3
    <3>5. sum[T] = w(pick(T)) + sum[T \ {pick(T)}]
      BY <3>1, <1>9
    <3> QED BY <3>2, <3>4, <3>5
  <2> HIDE DEF N
  <2>3. Nat \subseteq N
    BY <2>1, <2>2, SetInduction
  <2> QED BY <2>3, <1>3 DEF N
<1>11. \A T \in SUBSET S : \A x \in T : sum[T] = w(x) + sum[T \ {x}]
  <2> DEFINE Any(T) == \A x \in T : sum[T] = w(x) + sum[T \ {x}]
             N == {n \in Nat : \A T \in SUBSET S : Cardinality(T) = n => Any(T)}
  <2>1. 0 \in N
    BY <1>3
  <2>2. ASSUME NEW n \in Nat, n \in N PROVE n + 1 \in N
    <3> SUFFICES ASSUME NEW T \in SUBSET S, Cardinality(T) = n + 1, NEW x \in T
                 PROVE  sum[T] = w(x) + sum[T \ {x}]
      OBVIOUS
    <3> DEFINE p == pick(T)
    <3>1. p \in T /\ sum[T] = w(p) + sum[T \ {p}]
      BY <1>2, <1>9
    <3> HIDE DEF p
    <3>2. CASE x = p
      BY <3>1, <3>2
    <3>3. CASE x # p
      <4>1. /\ T \ {p} \in SUBSET S /\ T \ {x} \in SUBSET S
            /\ x \in T \ {p} /\ p \in T \ {x}
            /\ (T \ {p}) \ {x} = (T \ {x}) \ {p}
            /\ (T \ {p}) \ {x} \in SUBSET S
        BY <3>1, <3>3
      <4>2. Cardinality(T \ {p}) = n /\ Cardinality(T \ {x}) = n
        BY <3>1, <1>3, OneLess
      <4>3. sum[T \ {p}] = w(x) + sum[(T \ {p}) \ {x}]
        BY <2>2, <4>1, <4>2
      <4>4. sum[T \ {x}] = w(p) + sum[(T \ {x}) \ {p}]
        BY <2>2, <4>1, <4>2
      <4>5. w(x) \in Int /\ w(p) \in Int /\ sum[(T \ {p}) \ {x}] \in Int
        BY <1>1, <1>10, <3>1, <4>1
      <4> DEFINE rest == sum[(T \ {p}) \ {x}]
      <4>6. sum[T] = w(p) + (w(x) + rest) /\ sum[T \ {x}] = w(p) + rest
        BY <3>1, <4>1, <4>3, <4>4
      <4> HIDE DEF rest
      <4> QED BY <4>5, <4>6 DEF rest
    <3> QED BY <3>2, <3>3
  <2> HIDE DEF N
  <2>3. Nat \subseteq N
    BY <2>1, <2>2, SetInduction
  <2> QED BY <2>3, <1>3 DEF N
<1>12. sum \in [SUBSET S -> Int]
  BY <1>9, <1>10
<1> QED
  BY <1>8, <1>9, <1>11, <1>12 DEF w

(* The loop over the window counts the results that have the candidate and *)
(* adds up what they have.                                                 *)
LEMMA TallyCounts ==
  ASSUME NEW name, NEW h \in Seq(Votes)
  PROVE  LET S == {i \in DOMAIN h : h[i].candidate = name}
         IN  /\ Tally(name, h) \in [votes : Nat, total : Int]
             /\ Tally(name, h).votes = Cardinality(S)
             /\ Tally(name, h).total = MapThenSumSet(LAMBDA i : h[i].similarity, S)
             /\ Tally(name, h).votes <= Len(h)
<1> DEFINE S == {i \in DOMAIN h : h[i].candidate = name}
           T == Tallies(name, h)
           upTo(i) == {j \in S : j <= i}
<1>1. /\ Len(h) \in Nat /\ S \subseteq 1..Len(h) /\ S \in SUBSET S
      /\ \A i \in 1..Len(h) : i \in S <=> h[i].candidate = name
      /\ \A i \in Nat : upTo(i) \in SUBSET S /\ i + 1 \notin upTo(i)
      /\ upTo(0) = {} /\ upTo(Len(h)) = S
  OBVIOUS
<1>2. PICK sum \in [SUBSET S -> Int] :
        /\ sum[{}] = 0
        /\ \A U \in SUBSET S : \A x \in U : sum[U] = h[x].similarity + sum[U \ {x}]
        /\ MapThenSumSet(LAMBDA i : h[i].similarity, S) = sum[S]
  <2> HIDE DEF S
  <2> QED BY <1>1, SumsInAnyOrder
<1>3. \A U \in SUBSET S : IsFiniteSet(U) /\ Cardinality(U) \in Nat
                          /\ Cardinality(U) <= Len(h)
  <2>1. IsFiniteSet(1..Len(h)) /\ Cardinality(1..Len(h)) = Len(h)
    <3>1. 1 \in Int /\ Len(h) \in Int
      BY <1>1
    <3>2. /\ IsFiniteSet(1..Len(h))
          /\ Cardinality(1..Len(h)) = IF 1 > Len(h) THEN 0 ELSE Len(h) - 1 + 1
      BY <3>1, FS_Interval
    <3> QED BY <1>1, <3>2
  <2>2. \A U \in SUBSET S : U \in SUBSET (1..Len(h))
    BY <1>1
  <2> HIDE DEF S
  <2> QED BY <2>1, <2>2, FS_Subset, FS_CardinalityType
<1>4. /\ T \in [0..Len(h) -> [votes : Nat, total : Int]]
      /\ T[0] = NoVotes
      /\ \A i \in 1..Len(h) :
           T[i] = IF h[i].candidate = name
                  THEN [votes |-> T[i - 1].votes + 1,
                        total |-> T[i - 1].total + h[i].similarity]
                  ELSE T[i - 1]
  BY TalliesRecursive
<1> DEFINE Right(i) == T[i].votes = Cardinality(upTo(i)) /\ T[i].total = sum[upTo(i)]
           N == {i \in Nat : i <= Len(h) => Right(i)}
<1>5. 0 \in N
  <2>1. T[0].votes = 0 /\ T[0].total = 0
    BY <1>4 DEF NoVotes
  <2>2. Cardinality({}) = 0
    BY FS_EmptySet
  <2> HIDE DEF T, upTo
  <2> QED BY <2>1, <2>2, <1>1, <1>2
<1>6. ASSUME NEW i \in Nat, i \in N PROVE i + 1 \in N
  <2> SUFFICES ASSUME i + 1 <= Len(h) PROVE Right(i + 1)
    OBVIOUS
  <2>1. i + 1 \in 1..Len(h) /\ (i + 1) - 1 = i /\ i \in 0..Len(h) /\ i <= Len(h)
    BY <1>1
  <2>2. Right(i)
    BY <1>6, <2>1
  <2>3. CASE h[i + 1].candidate = name
    <3>1. /\ i + 1 \in S /\ i + 1 \in upTo(i + 1)
          /\ upTo(i + 1) \ {i + 1} = upTo(i)
          /\ upTo(i + 1) \in SUBSET S
      BY <1>1, <2>1, <2>3
    <3>2. T[i + 1] = [votes |-> T[i].votes + 1, total |-> T[i].total + h[i + 1].similarity]
      <4> HIDE DEF T
      <4> QED BY <1>4, <2>1, <2>3
    <3>3. /\ Cardinality(upTo(i + 1)) \in Nat
          /\ Cardinality(upTo(i)) = Cardinality(upTo(i + 1)) - 1
      <4> HIDE DEF upTo, S
      <4> QED BY <1>3, <3>1, OneLess
    <3>4. sum[upTo(i + 1)] = h[i + 1].similarity + sum[upTo(i)]
      <4> HIDE DEF upTo, S
      <4> QED BY <1>2, <3>1
    <3>5. h[i + 1].similarity \in Int /\ T[i].total \in Int /\ T[i].votes \in Nat
      <4> HIDE DEF T
      <4> QED BY <1>4, <2>1, VotesHaveIntegers
    <3> HIDE DEF T, upTo
    <3> QED BY <2>2, <3>2, <3>3, <3>4, <3>5
  <2>4. CASE h[i + 1].candidate # name
    <3>1. upTo(i + 1) = upTo(i)
      BY <1>1, <2>1, <2>4
    <3>2. T[i + 1] = T[i]
      <4> HIDE DEF T
      <4> QED BY <1>4, <2>1, <2>4
    <3> HIDE DEF T, upTo
    <3> QED BY <2>2, <3>1, <3>2
  <2> QED BY <2>3, <2>4
<1>7. Right(Len(h))
  <2> HIDE DEF N, Right
  <2>1. Nat \subseteq N
    BY <1>5, <1>6, SetInduction
  <2> QED BY <2>1, <1>1 DEF N
<1>8. Tally(name, h) = T[Len(h)] /\ T[Len(h)] \in [votes : Nat, total : Int]
  BY <1>1, <1>4 DEF Tally
<1> HIDE DEF T, S, upTo
<1>9. Cardinality(S) <= Len(h)
  BY <1>1, <1>3
<1> QED
  BY <1>1, <1>2, <1>7, <1>8, <1>9 DEF S

(* What the scan may hold as its best. *)
Bests == [name : 0..Names, votes : Nat, total : Int]

(* A step of the scan keeps to that. *)
LEMMA BetterIsBest ==
  ASSUME NEW best \in Bests, NEW n \in 0..Names, NEW h \in Seq(Votes)
  PROVE  Better(best, n, h) \in Bests
BY TallyCounts DEF Better, Candidate, Bests

(* The scan over the names, step by step. *)
LEMMA ScanRecursive ==
  ASSUME NEW h \in Seq(Votes)
  PROVE  /\ BestOfFirst(h) \in [0..Names -> Bests]
         /\ BestOfFirst(h)[0] = NoCandidate
         /\ \A n \in 1..Names : BestOfFirst(h)[n] = Better(BestOfFirst(h)[n - 1], n, h)
<1> DEFINE step == [n \in Nat |-> [b \in Bests |-> IF n \in 1..Names THEN Better(b, n, h) ELSE b]]
           Is(f) == f = [n \in 0..Names |->
                          IF n = 0 THEN NoCandidate ELSE Better(f[n - 1], n, h)]
<1>1. Names \in Nat
  BY SmoothingAssumption
<1>2. NoCandidate \in Bests
  BY <1>1 DEF NoCandidate, Bests
<1>3. \A b \in Bests, n \in 1..Names : Better(b, n, h) \in Bests
  BY <1>1, BetterIsBest
<1>4. step \in [Nat -> [Bests -> Bests]]
  BY <1>3
<1>5. PICK f : Iterates(f, Bests, NoCandidate, step)
  <2> HIDE DEF step
  <2> QED BY <1>2, <1>4, RecursionOnNat
<1>6. /\ f[0] = NoCandidate
      /\ \A n \in 0..Names : f[n] \in Bests
      /\ \A n \in 1..Names : f[n] = Better(f[n - 1], n, h)
  <2>1. \A n \in 0..Names : f[n] \in Bests
    <3>1. \A n \in 0..Names : n \in Nat
      BY <1>1
    <3> QED BY <1>5, <3>1 DEF Iterates
  <2>2. ASSUME NEW n \in 1..Names PROVE f[n] = Better(f[n - 1], n, h)
    <3>1. n - 1 \in Nat /\ n \in Nat /\ (n - 1) + 1 = n /\ f[n - 1] \in Bests
      BY <1>1, <2>1
    <3>2. f[n] = step[n][f[n - 1]]
      <4> HIDE DEF step
      <4> QED BY <1>5, <3>1 DEF Iterates
    <3> QED BY <3>1, <3>2
  <2> QED BY <1>5, <2>1, <2>2 DEF Iterates
<1> DEFINE g == [n \in 0..Names |-> f[n]]
<1>7. Is(g)
  <2>1. 0 \in 0..Names /\ \A n \in 1..Names : n \in 0..Names /\ n - 1 \in 0..Names
    BY <1>1
  <2>2. g[0] = NoCandidate /\ \A n \in 1..Names : g[n] = Better(g[n - 1], n, h)
    BY <1>6, <2>1
  <2>3. \A n \in 0..Names : n = 0 \/ n \in 1..Names
    BY <1>1
  <2>4. g = [n \in 0..Names |-> g[n]]
    OBVIOUS
  <2> HIDE DEF g
  <2>5. \A n \in 0..Names :
          g[n] = IF n = 0 THEN NoCandidate ELSE Better(g[n - 1], n, h)
    BY <2>2, <2>3
  <2> QED BY <2>4, <2>5
<1>8. Is(BestOfFirst(h))
  <2>1. BestOfFirst(h) = CHOOSE b : Is(b)
    BY DEF BestOfFirst
  <2> HIDE DEF Is, g
  <2> QED BY <1>7, <2>1
<1> DEFINE B == BestOfFirst(h)
<1>9. /\ B = [n \in 0..Names |-> B[n]]
      /\ B[0] = NoCandidate
      /\ \A n \in 1..Names : B[n] = Better(B[n - 1], n, h)
  <2> HIDE DEF B
  <2>1. Is(B)
    BY <1>8 DEF B
  <2>2. \A n \in 0..Names : B[n] = IF n = 0 THEN NoCandidate ELSE Better(B[n - 1], n, h)
    BY <2>1
  <2>3. B = [n \in 0..Names |-> B[n]]
    BY <2>1
  <2>4. 0 \in 0..Names /\ \A n \in 1..Names : n \in 0..Names /\ n # 0
    BY <1>1
  <2> QED BY <2>2, <2>3, <2>4
<1>10. \A n \in 0..Names : B[n] \in Bests
  <2> DEFINE N == {n \in Nat : n <= Names => B[n] \in Bests}
  <2> HIDE DEF B
  <2>1. 0 \in N
    BY <1>2, <1>9
  <2>2. ASSUME NEW n \in Nat, n \in N PROVE n + 1 \in N
    <3> SUFFICES ASSUME n + 1 <= Names PROVE B[n + 1] \in Bests
      OBVIOUS
    <3>1. n + 1 \in 1..Names /\ (n + 1) - 1 = n /\ n <= Names
      BY <1>1
    <3>2. B[n + 1] = Better(B[n], n + 1, h)
      BY <1>9, <3>1
    <3>3. B[n] \in Bests
      BY <2>2, <3>1
    <3> QED BY <1>3, <3>1, <3>2, <3>3
  <2> HIDE DEF N
  <2>3. Nat \subseteq N
    BY <2>1, <2>2, SetInduction
  <2> QED BY <2>3, <1>1 DEF N
<1> QED
  BY <1>9, <1>10

(* More votes, or as many and more in total: with as many votes, the       *)
(* higher average.                                                         *)
Ahead(a, b) == a.votes > b.votes \/ (a.votes = b.votes /\ a.total > b.total)

(* A common factor does not change which total is higher. *)
LEMMA CommonFactor ==
  ASSUME NEW a \in Int, NEW b \in Int, NEW n \in Nat \ {0}
  PROVE  a * n > b * n <=> a > b
<1>1. CASE a > b
  <2>1. a - b \in Nat /\ a = b + (a - b) /\ a - b > 0
    BY <1>1
  <2>2. a * n = b * n + (a - b) * n /\ (a - b) * n > 0
    BY <2>1
  <2> QED BY <1>1, <2>2
<1>2. CASE a <= b
  <2>1. b - a \in Nat
    BY <1>2
  <2>2. b * n = a * n + (b - a) * n /\ (b - a) * n >= 0
    BY <2>1
  <2> QED BY <1>2, <2>2
<1> QED
  BY <1>1, <1>2

(* Cross-multiplying compares the averages. *)
LEMMA BetterMeansAhead ==
  ASSUME NEW best \in Bests, NEW n, NEW h \in Seq(Votes)
  PROVE  Better(best, n, h) =
           IF Tally(n, h).votes > 0 /\ Ahead(Tally(n, h), best)
           THEN Candidate(n, Tally(n, h)) ELSE best
<1> DEFINE t == Tally(n, h)
<1>1. t.votes \in Nat /\ t.total \in Int /\ best.votes \in Nat /\ best.total \in Int
  BY TallyCounts DEF Bests
<1> HIDE DEF t
<1>2. \/ t.votes > best.votes
      \/ t.votes > 0 /\ t.votes = best.votes
         /\ t.total * best.votes > best.total * t.votes
      <=> t.votes > 0 /\ Ahead(t, best)
  <2>1. CASE t.votes = best.votes /\ t.votes > 0
    BY <1>1, <2>1, CommonFactor DEF Ahead
  <2>2. CASE ~(t.votes = best.votes /\ t.votes > 0)
    BY <1>1, <2>2 DEF Ahead
  <2> QED BY <2>1, <2>2
<1> QED
  BY <1>2 DEF Better, t

(* What the scan has established after the first n names: its best is none *)
(* or one of them, none of them is ahead of it, and it is ahead of those   *)
(* that come before it.                                                    *)
Leads(best, n, h) ==
  /\ \/ best = NoCandidate
     \/ best.name \in 1..n /\ best.votes > 0
        /\ best = Candidate(best.name, Tally(best.name, h))
  /\ \A m \in 1..n : Tally(m, h).votes > 0 => ~Ahead(Tally(m, h), best)
  /\ \A m \in 1..n : m < best.name => Ahead(best, Tally(m, h))

(* The next name keeps that.                                              *)
LEMMA BetterKeepsLead ==
  ASSUME NEW h \in Seq(Votes), NEW n \in Nat, n < Names, NEW best \in Bests,
         Leads(best, n, h)
  PROVE  Leads(Better(best, n + 1, h), n + 1, h)
<1> DEFINE t(m) == Tally(m, h)
<1>1. /\ \A m : t(m) \in [votes : Nat, total : Int]
      /\ best.name \in 0..Names /\ best.votes \in Nat /\ best.total \in Int
      /\ \A m \in 1..n + 1 : m \in 1..n \/ m = n + 1
      /\ Names \in Nat
  <2>1. \A m : t(m) \in [votes : Nat, total : Int]
    BY TallyCounts
  <2>2. best.name \in 0..Names /\ best.votes \in Nat /\ best.total \in Int
    BY DEF Bests
  <2> HIDE DEF t
  <2> QED BY <2>1, <2>2, SmoothingAssumption
<1> HIDE DEF t
<1>2. \A m : t(m).votes \in Nat /\ t(m).total \in Int
  BY <1>1
<1>3. CASE t(n + 1).votes > 0 /\ Ahead(t(n + 1), best)
  <2> DEFINE new == Candidate(n + 1, t(n + 1))
  <2>1. Better(best, n + 1, h) = new
    BY <1>3, BetterMeansAhead DEF t
  <2>2. new.name = n + 1 /\ new.votes = t(n + 1).votes /\ new.total = t(n + 1).total
    BY DEF Candidate
  <2> HIDE DEF new
  <2>3. \A m \in 1..n : t(m).votes > 0 => ~Ahead(t(m), best)
    BY DEF Leads, t
  <2>4. ASSUME NEW m \in 1..n + 1, t(m).votes > 0 PROVE ~Ahead(t(m), new)
    BY <1>1, <1>2, <1>3, <2>2, <2>3, <2>4 DEF Ahead
  <2>5. ASSUME NEW m \in 1..n + 1, m < n + 1 PROVE Ahead(new, t(m))
    BY <1>1, <1>2, <1>3, <2>2, <2>3, <2>5 DEF Ahead
  <2>6. new = Candidate(new.name, t(new.name)) /\ new.votes > 0 /\ new.name \in 1..n + 1
    BY <1>3, <2>2 DEF new
  <2> QED BY <2>1, <2>2, <2>4, <2>5, <2>6 DEF Leads, t
<1>4. CASE ~(t(n + 1).votes > 0 /\ Ahead(t(n + 1), best))
  <2>1. Better(best, n + 1, h) = best
    BY <1>4, BetterMeansAhead DEF t
  <2>2. /\ \/ best = NoCandidate
           \/ /\ best.name \in 1..n /\ best.votes > 0
              /\ best = Candidate(best.name, t(best.name))
        /\ \A m \in 1..n : t(m).votes > 0 => ~Ahead(t(m), best)
        /\ \A m \in 1..n : m < best.name => Ahead(best, t(m))
    BY DEF Leads, t
  <2>3. best.name <= n
    <3>1. NoCandidate.name = 0
      BY DEF NoCandidate
    <3> QED BY <2>2, <3>1
  <2>4. \A m \in 1..n + 1 : t(m).votes > 0 => ~Ahead(t(m), best)
    BY <1>1, <1>4, <2>2
  <2>5. \A m \in 1..n + 1 : m < best.name => Ahead(best, t(m))
    BY <1>1, <2>2, <2>3
  <2>6. best.name \in 1..n => best.name \in 1..n + 1
    OBVIOUS
  <2> QED BY <2>1, <2>2, <2>4, <2>5, <2>6 DEF Leads, t
<1> QED
  BY <1>3, <1>4

(* The scan ends with a best that leads. *)
LEMMA BestLeads ==
  ASSUME NEW h \in Seq(Votes)
  PROVE  BestCandidate(h) \in Bests /\ Leads(BestCandidate(h), Names, h)
<1> DEFINE B == BestOfFirst(h)
           N == {n \in Nat : n <= Names => Leads(B[n], n, h)}
<1>1. Names \in Nat
  BY SmoothingAssumption
<1>2. /\ B \in [0..Names -> Bests] /\ B[0] = NoCandidate
      /\ \A n \in 1..Names : B[n] = Better(B[n - 1], n, h)
  BY ScanRecursive
<1> HIDE DEF B
<1>3. 0 \in N
  BY <1>2 DEF Leads
<1>4. ASSUME NEW n \in Nat, n \in N PROVE n + 1 \in N
  <2> SUFFICES ASSUME n + 1 <= Names PROVE Leads(B[n + 1], n + 1, h)
    OBVIOUS
  <2>1. n + 1 \in 1..Names /\ (n + 1) - 1 = n /\ n < Names /\ n \in 0..Names
    BY <1>1
  <2>2. B[n + 1] = Better(B[n], n + 1, h)
    BY <1>2, <2>1
  <2>3. B[n] \in Bests /\ Leads(B[n], n, h)
    BY <1>2, <1>4, <2>1
  <2> QED BY <2>1, <2>2, <2>3, BetterKeepsLead
<1> HIDE DEF N
<1>5. Nat \subseteq N
  BY <1>3, <1>4, SetInduction
<1>6. Leads(B[Names], Names, h) /\ B[Names] \in Bests
  BY <1>1, <1>2, <1>5 DEF N
<1> QED
  BY <1>6 DEF BestCandidate, B

(* What the vote is compared with, in terms of the tallies. *)
LEMMA VoteIsTally ==
  ASSUME history \in Seq(Votes), NEW name
  PROVE  /\ VotesOf(name) = Tally(name, history).votes
         /\ SumOf(name) = Tally(name, history).total
         /\ Tally(name, history) \in [votes : Nat, total : Int]
BY TallyCounts DEF VotesOf, SumOf, Supporters

(* What the scan gives the frame is what GivesBestSupported asks for.      *)
LEMMA BestIsAccepted == TypeOK => GivesBestSupported
<1> SUFFICES ASSUME TypeOK PROVE GivesBestSupported
  OBVIOUS
<1> DEFINE h == history
           best == BestCandidate(history)
           t(n) == Tally(n, history)
           limit == Threshold[recMode]
<1>1. history \in Seq(Votes) /\ limit \in Int
  BY PipeAssumption DEF TypeOK
<1>2. /\ Names \in Nat /\ MinVotes \in Nat \ {0}
      /\ \A n : /\ VotesOf(n) = t(n).votes /\ SumOf(n) = t(n).total
                /\ t(n).votes \in Nat /\ t(n).total \in Int
  BY <1>1, SmoothingAssumption, VoteIsTally
<1>3. /\ best.name \in 0..Names /\ best.votes \in Nat /\ best.total \in Int
      /\ \/ best = NoCandidate
         \/ best.name \in 1..Names /\ best.votes > 0 /\ best = Candidate(best.name, t(best.name))
      /\ \A m \in 1..Names : t(m).votes > 0 => ~Ahead(t(m), best)
      /\ \A m \in 1..Names : m < best.name => Ahead(best, t(m))
  BY <1>1, BestLeads DEF Leads, Bests
<1> DEFINE result == Smoothed(history, limit)
<1>4. result = IF best.votes >= MinVotes /\ best.total >= limit * best.votes
               THEN best.name ELSE 0
  BY DEF Smoothed
<1>5. GivesBestSupported <=>
        IF result = 0 THEN \A n \in 1..Names : ~Accepted(n) ELSE Accepted(result)
  BY DEF GivesBestSupported
<1>6. \A n : Accepted(n) <=>
        /\ t(n).votes >= MinVotes
        /\ t(n).total >= limit * t(n).votes
        /\ \A other \in (1..Names) \ {n} :
             ~Ahead(t(other), t(n)) /\ (Ahead(t(n), t(other)) \/ n < other)
  BY <1>2 DEF Accepted, Beats, Ahead
<1> HIDE DEF best, t, limit, result
<1>7. NoCandidate.name = 0 /\ NoCandidate.votes = 0
  BY DEF NoCandidate
<1>8. best # NoCandidate =>
        /\ best.votes = t(best.name).votes /\ best.total = t(best.name).total
        /\ best.name \in 1..Names /\ best.votes > 0
  BY <1>3 DEF Candidate
<1>9. CASE result # 0
  <2>1. /\ result = best.name /\ best # NoCandidate
        /\ best.votes >= MinVotes /\ best.total >= limit * best.votes
    BY <1>2, <1>4, <1>7, <1>9
  <2>2. ASSUME NEW other \in (1..Names) \ {result}
        PROVE  ~Ahead(t(other), t(result)) /\ (Ahead(t(result), t(other)) \/ result < other)
    <3>1. t(other).votes > 0 => ~Ahead(t(other), best)
      BY <1>3
    <3>2. other < best.name => Ahead(best, t(other))
      BY <1>3
    <3> QED BY <1>2, <1>8, <2>1, <3>1, <3>2 DEF Ahead
  <2>3. Accepted(result)
    BY <1>6, <1>8, <2>1, <2>2
  <2> QED BY <1>5, <1>9, <2>3
<1>10. CASE result = 0
  <2> SUFFICES ASSUME NEW n \in 1..Names, Accepted(n) PROVE FALSE
    BY <1>5, <1>10
  <2>1. t(n).votes > 0 /\ t(n).votes >= MinVotes /\ t(n).total >= limit * t(n).votes
    BY <1>2, <1>6
  <2>2. ~Ahead(t(n), best)
    BY <1>3, <2>1
  <2>3. best # NoCandidate
    BY <1>2, <1>7, <2>1, <2>2 DEF Ahead
  <2>4. best.name # n
    BY <1>2, <1>4, <1>8, <1>10, <2>1, <2>3
  <2>5. /\ best.name \in (1..Names) \ {n}
        /\ ~Ahead(t(best.name), t(n)) /\ (Ahead(t(n), t(best.name)) \/ n < best.name)
    BY <1>6, <1>8, <2>3, <2>4
  <2>6. n < best.name => Ahead(best, t(n))
    BY <1>3
  <2> QED BY <1>2, <1>8, <2>2, <2>3, <2>5, <2>6 DEF Ahead
<1> QED
  BY <1>9, <1>10

-----------------------------------------------------------------------------
(* A vote needs results enough in the window. *)
LEMMA MatchNeedsVotes ==
  ASSUME NEW h \in Seq(Votes), NEW limit, Smoothed(h, limit) # 0
  PROVE  Len(h) >= MinVotes
<1> DEFINE best == BestCandidate(h)
<1>1. best.votes >= MinVotes
  BY DEF Smoothed
<1>2. /\ best.votes \in Nat
      /\ best = NoCandidate \/ best = Candidate(best.name, Tally(best.name, h))
  BY BestLeads DEF Bests, Leads
<1>3. Tally(best.name, h).votes \in Nat /\ Tally(best.name, h).votes <= Len(h)
  BY TallyCounts
<1>4. Len(h) \in Nat /\ MinVotes \in Nat \ {0}
  BY SmoothingAssumption
<1> HIDE DEF best
<1>5. CASE best = NoCandidate
  BY <1>1, <1>4, <1>5 DEF NoCandidate
<1>6. CASE best = Candidate(best.name, Tally(best.name, h))
  <2>1. best.votes = Tally(best.name, h).votes
    BY <1>6 DEF Candidate
  <2> QED BY <1>1, <1>2, <1>3, <1>4, <2>1
<1> QED
  BY <1>2, <1>5, <1>6

(* push_back and pop_front: the window keeps its size, and holds the new   *)
(* result and results it held before.                                      *)
LEMMA PushKeepsWindow ==
  ASSUME NEW h \in Seq(Votes), Len(h) <= WindowSize, NEW v \in Votes
  PROVE  /\ Push(h, v) \in Seq(Votes)
         /\ Len(Push(h, v)) <= WindowSize /\ Len(Push(h, v)) <= Len(h) + 1
         /\ \A i \in DOMAIN Push(h, v) :
              Push(h, v)[i] = v \/ \E j \in DOMAIN h : Push(h, v)[i] = h[j]
<1> DEFINE longer == Append(h, v)
<1>1. /\ longer \in Seq(Votes) /\ Len(longer) = Len(h) + 1 /\ Len(h) \in Nat
      /\ \A i \in 1..Len(h) : longer[i] = h[i]
      /\ longer[Len(h) + 1] = v
      /\ DOMAIN h = 1..Len(h) /\ WindowSize \in Nat \ {0}
  BY SmoothingAssumption
<1> HIDE DEF longer
<1>2. \A i \in 1..Len(longer) : longer[i] = v \/ \E j \in DOMAIN h : longer[i] = h[j]
  <2>1. \A i \in 1..Len(longer) : i \in 1..Len(h) \/ i = Len(h) + 1
    BY <1>1
  <2> QED BY <1>1, <2>1
<1>3. CASE Len(longer) > WindowSize
  <2>1. Push(h, v) = Tail(longer)
    BY <1>3 DEF Push, longer
  <2>2. longer # <<>>
    BY <1>1
  <2>3. /\ Tail(longer) \in Seq(Votes) /\ Len(Tail(longer)) = Len(longer) - 1
        /\ \A i \in 1..Len(Tail(longer)) :
             Tail(longer)[i] = longer[i + 1] /\ i + 1 \in 1..Len(longer)
        /\ DOMAIN Tail(longer) = 1..Len(Tail(longer))
    BY <1>1, <2>2
  <2>4. \A i \in 1..Len(Tail(longer)) :
          Tail(longer)[i] = v \/ \E j \in DOMAIN h : Tail(longer)[i] = h[j]
    BY <1>2, <2>3
  <2> QED BY <1>1, <2>1, <2>3, <2>4
<1>4. CASE ~(Len(longer) > WindowSize)
  <2>1. Push(h, v) = longer /\ DOMAIN longer = 1..Len(longer)
    BY <1>1, <1>4 DEF Push, longer
  <2> QED BY <1>1, <1>2, <1>4, <2>1
<1> QED
  BY <1>3, <1>4

-----------------------------------------------------------------------------
(* Before Initialize there is nothing that a model could disagree with. *)
Untouched == ~ready => errors = 0 /\ history = <<>>

(* The window holds no more results than the face has been recognised. *)
CountsSight == source # "image" => Len(history) <= sight \/ sight = MinVotes

(* The inductive invariant. *)
InductiveInv == PipeInv /\ Untouched /\ CountsSight /\ MatchNeedsSight

(* The pipe starts in it.                                                  *)
LEMMA InitPipe == Init => InductiveInv
<1> SUFFICES ASSUME Init PROVE InductiveInv
  OBVIOUS
<1>1. /\ ErrorLimit \in Nat \ {0} /\ MinVotes \in Nat \ {0} /\ WindowSize \in Nat \ {0}
      /\ RecMode \in Modes
  BY PipeAssumption, SmoothingAssumption
<1>2. history \in Seq(Votes) /\ Len(history) = 0 /\ DOMAIN history = {}
  BY DEF Init
<1>3. hit \in [detected : BOOLEAN, matched : BOOLEAN] /\ ~hit.matched
  BY DEF Init, NoHit, Hit
<1>4. TypeOK
  <2>1. errors \in 0..ErrorLimit /\ sight \in 0..MinVotes /\ Len(history) <= WindowSize
    BY <1>1, <1>2 DEF Init
  <2>2. extractor \in {"none"} \cup Modes /\ recMode \in Modes
    BY <1>1 DEF Init
  <2> QED BY <1>2, <1>3, <2>1, <2>2 DEF Init, TypeOK
<1> QED
  BY <1>1, <1>2, <1>3, <1>4
     DEF Init, InductiveInv, PipeInv, FlagsAgree, OneModelPerVote, FallbackInTime,
         Untouched, CountsSight, MatchNeedsSight

(* What a call that recognises nothing leaves of the votes: nothing, or    *)
(* all of them with the model that cast them.  It answers with no match    *)
(* unless it is not a poll, and that leaves the last answer alone.         *)
KeepsVotes ==
  \/ Forget
  \/ UNCHANGED <<history, sight, recMode>> /\ (hit' = hit \/ hit'.matched = FALSE)

(* Either way the votes stay those of one model and of a face in sight.    *)
LEMMA KeepsVotesKeepsInv ==
  InductiveInv /\ KeepsVotes /\ UNCHANGED source /\ extractor' \in {"none", recMode'}
    => /\ history' \in Seq(Votes) /\ Len(history') <= WindowSize /\ sight' \in 0..MinVotes
       /\ OneModelPerVote' /\ CountsSight' /\ MatchNeedsSight'
<1> SUFFICES ASSUME InductiveInv, KeepsVotes, UNCHANGED source,
                    extractor' \in {"none", recMode'}
             PROVE  /\ history' \in Seq(Votes) /\ Len(history') <= WindowSize
                    /\ sight' \in 0..MinVotes
                    /\ OneModelPerVote' /\ CountsSight' /\ MatchNeedsSight'
  OBVIOUS
<1>1. MinVotes \in Nat /\ WindowSize \in Nat
  BY SmoothingAssumption
<1>2. CASE Forget
  <2>1. history' = <<>> /\ sight' = 0
    BY <1>2 DEF Forget
  <2>2. history' \in Seq(Votes) /\ Len(history') = 0 /\ DOMAIN history' = {}
    BY <2>1
  <2> QED BY <1>1, <2>1, <2>2 DEF OneModelPerVote, CountsSight, MatchNeedsSight
<1>3. CASE UNCHANGED <<history, sight, recMode>> /\ (hit' = hit \/ hit'.matched = FALSE)
  BY <1>3 DEF InductiveInv, PipeInv, TypeOK, OneModelPerVote, CountsSight, MatchNeedsSight
<1> QED
  BY <1>2, <1>3 DEF KeepsVotes

(* A call that recognises nothing answers with no match, or, when it is    *)
(* not a poll, leaves the last answer.                                     *)
LEMMA InVainKeepsVotes ==
  /\ Wake \/ Sleep \/ Deactivate \/ PollsInVain => KeepsVotes
  /\ \A primaryLoads \in BOOLEAN :
       Initialize(primaryLoads) /\ InductiveInv => history' = <<>> /\ UNCHANGED <<history, sight, hit>>
<1>1. NoHit.matched = FALSE /\ Hit(TRUE, FALSE).matched = FALSE
  BY DEF NoHit, Hit
<1>2. Wake => KeepsVotes
  BY DEF Wake, WakeNothing, WakeOpens, WakeOpenFails, WakeResumes, WakeResumeFails,
         Woken, KeepsVotes, vars, recVars
<1>3. Sleep \/ Deactivate => KeepsVotes
  BY DEF Sleep, SleepNothing, SleepPauses, SleepFails, Rested, Deactivate, KeepsVotes
<1>4. PollsInVain => KeepsVotes
  BY <1>1 DEF PollsInVain, PollInactive, PollNoFrame, PollDetectorFails, PollNoFace,
         PollIncomplete, PollEmptyCrop, PollExtractFails, PollFallsBack,
         PollFallbackFails, KeepsVotes, recVars
<1>5. ASSUME NEW primaryLoads \in BOOLEAN, Initialize(primaryLoads), InductiveInv
      PROVE  history' = <<>> /\ UNCHANGED <<history, sight, hit>>
  BY <1>5 DEF Initialize, InductiveInv, Untouched
<1> QED
  BY <1>2, <1>3, <1>4, <1>5

(* The flags of the pipe and of the source go together through every call. *)
LEMMA StepKeepsFlags == TypeOK /\ FlagsAgree /\ Next => FlagsAgree'
<1> SUFFICES ASSUME TypeOK, FlagsAgree, Next PROVE FlagsAgree'
  OBVIOUS
<1> USE DEF FlagsAgree, IsCamera
<1>1. UNCHANGED source
  BY DEF Next
<1>2. ASSUME NEW primaryLoads \in BOOLEAN, Initialize(primaryLoads) PROVE FlagsAgree'
  BY <1>1, <1>2 DEF Initialize
<1>3. CASE WakeNothing
  BY <1>3 DEF WakeNothing, vars, sourceVars
<1>4. CASE WakeOpens
  BY <1>1, <1>4 DEF WakeOpens, Woken
<1>5. CASE WakeOpenFails
  BY <1>1, <1>5 DEF WakeOpenFails
<1>6. CASE WakeResumes
  BY <1>1, <1>6 DEF WakeResumes, Woken
<1>7. CASE WakeResumeFails
  BY <1>1, <1>7 DEF WakeResumeFails
<1>8. CASE SleepNothing
  BY <1>1, <1>8 DEF SleepNothing, Rested
<1>9. CASE SleepPauses
  BY <1>1, <1>9 DEF SleepPauses, SourceSleeps, Rested
<1>10. CASE SleepFails
  BY <1>1, <1>10 DEF SleepFails, SourceSleeps, Rested
<1>11. CASE Deactivate
  BY <1>1, <1>11 DEF Deactivate
<1>12. CASE PollsInVain
  <2>1. UNCHANGED <<open, active, pipeline, sleeping>>
    BY <1>12 DEF PollsInVain, PollInactive, PollNoFrame, PollDetectorFails, PollNoFace,
           PollIncomplete, PollEmptyCrop, PollExtractFails, PollFallsBack,
           PollFallbackFails, Frame, sourceVars
  <2> QED BY <1>1, <2>1
<1>13. CASE PollsResult
  BY <1>1, <1>13 DEF PollsResult, PollRecognises, Frame
<1> QED
  BY <1>2, <1>3, <1>4, <1>5, <1>6, <1>7, <1>8, <1>9, <1>10, <1>11, <1>12, <1>13
     DEF Next, Wake, Sleep, PollRecognition

(* Every call leaves the recogniser with the model it reports, or none,    *)
(* and with an error count that has not reached the limit.                 *)
LEMMA StepKeepsModel ==
  InductiveInv /\ Next
    => /\ recVars' \in ({"none"} \cup Modes) \X Modes \X BOOLEAN \X (0..ErrorLimit)
       /\ extractor' \in {"none", recMode'}
       /\ FallbackInTime'
<1> SUFFICES ASSUME InductiveInv, Next
             PROVE  /\ recVars' \in ({"none"} \cup Modes) \X Modes \X BOOLEAN \X (0..ErrorLimit)
                    /\ extractor' \in {"none", recMode'}
                    /\ FallbackInTime'
  OBVIOUS
<1> USE DEF recVars, Modes
<1>1. /\ ErrorLimit \in Nat \ {0} /\ RecMode \in Modes /\ 0 \in 0..ErrorLimit
      /\ ErrorLimit \in 0..ErrorLimit /\ HasI8 \in BOOLEAN
  BY PipeAssumption
<1>2. /\ extractor \in {"none"} \cup Modes /\ recMode \in Modes /\ fallback \in BOOLEAN
      /\ errors \in 0..ErrorLimit /\ extractor \in {"none", recMode} /\ FallbackInTime
  BY DEF InductiveInv, PipeInv, TypeOK, OneModelPerVote
<1> USE DEF FallbackInTime
<1>3. ASSUME NEW primaryLoads \in BOOLEAN, Initialize(primaryLoads)
      PROVE  /\ recVars' \in ({"none"} \cup Modes) \X Modes \X BOOLEAN \X (0..ErrorLimit)
             /\ extractor' \in {"none", recMode'}
             /\ FallbackInTime'
  <2>1. errors' = 0
    BY <1>3 DEF Initialize, InductiveInv, Untouched
  <2>2. recMode' \in Modes /\ extractor' = recMode' /\ fallback' \in BOOLEAN
    BY <1>1, <1>3 DEF Initialize
  <2> QED BY <1>1, <2>1, <2>2
<1>4. CASE UNCHANGED recVars
  BY <1>2, <1>4
<1>5. CASE UNCHANGED <<extractor, recMode, fallback>> /\ errors' = 0
  BY <1>1, <1>2, <1>5
<1>6. CASE PollExtractFails
  <2>1. /\ errors' = (IF errors < ErrorLimit THEN errors + 1 ELSE errors)
        /\ UNCHANGED <<extractor, recMode, fallback>>
        /\ ~(recMode = "fp32" /\ errors + 1 >= ErrorLimit /\ HasI8)
    BY <1>6 DEF PollExtractFails, TooManyErrors
  <2>2. errors' \in 0..ErrorLimit
    BY <1>1, <1>2, <2>1
  <2> QED BY <1>1, <1>2, <2>1, <2>2
<1>7. CASE PollFallsBack
  BY <1>1, <1>7 DEF PollFallsBack
<1>8. CASE PollFallbackFails
  BY <1>1, <1>2, <1>8 DEF PollFallbackFails
<1>9. Wake => UNCHANGED recVars
  BY DEF Wake, WakeNothing, WakeOpens, WakeOpenFails, WakeResumes, WakeResumeFails,
         Woken, vars
<1>10. Sleep \/ Deactivate => UNCHANGED <<extractor, recMode, fallback>> /\ errors' = 0
  BY DEF Sleep, SleepNothing, SleepPauses, SleepFails, Rested, Deactivate
<1>11. PollsInVain =>
         UNCHANGED recVars \/ PollExtractFails \/ PollFallsBack \/ PollFallbackFails
  BY DEF PollsInVain, PollInactive, PollNoFrame, PollDetectorFails, PollNoFace,
         PollIncomplete, PollEmptyCrop
<1>12. PollsResult => UNCHANGED <<extractor, recMode, fallback>> /\ errors' = 0
  BY DEF PollsResult, PollRecognises
<1> QED
  BY <1>3, <1>4, <1>5, <1>6, <1>7, <1>8, <1>9, <1>10, <1>11, <1>12
     DEF Next, PollRecognition

(* The types of the source and of the answer, and that Initialize comes    *)
(* first.                                                                  *)
LEMMA StepKeepsSource ==
  InductiveInv /\ Next
    => /\ source' \in Sources /\ closes' \in BOOLEAN /\ ready' = TRUE
       /\ open' \in BOOLEAN /\ active' \in BOOLEAN
       /\ pipeline' \in {"none", "playing", "paused"}
       /\ sleeping' \in BOOLEAN /\ consumed' \in BOOLEAN
       /\ hit' \in [detected : BOOLEAN, matched : BOOLEAN]
<1> SUFFICES ASSUME InductiveInv, Next
             PROVE  /\ source' \in Sources /\ closes' \in BOOLEAN /\ ready' = TRUE
                    /\ open' \in BOOLEAN /\ active' \in BOOLEAN
                    /\ pipeline' \in {"none", "playing", "paused"}
                    /\ sleeping' \in BOOLEAN /\ consumed' \in BOOLEAN
                    /\ hit' \in [detected : BOOLEAN, matched : BOOLEAN]
  OBVIOUS
<1>1. /\ source \in Sources /\ closes \in BOOLEAN /\ ready \in BOOLEAN
      /\ open \in BOOLEAN /\ active \in BOOLEAN
      /\ pipeline \in {"none", "playing", "paused"}
      /\ sleeping \in BOOLEAN /\ consumed \in BOOLEAN
      /\ hit \in [detected : BOOLEAN, matched : BOOLEAN]
  BY DEF InductiveInv, PipeInv, TypeOK
<1>2. \A m \in BOOLEAN : Hit(TRUE, m) \in [detected : BOOLEAN, matched : BOOLEAN]
  BY DEF Hit
<1>3. NoHit \in [detected : BOOLEAN, matched : BOOLEAN]
  BY DEF NoHit, Hit
<1>4. UNCHANGED <<source, closes>>
  BY DEF Next
<1>5. ASSUME NEW primaryLoads \in BOOLEAN, Initialize(primaryLoads)
      PROVE  /\ ready' = TRUE /\ active' \in BOOLEAN
             /\ UNCHANGED <<open, pipeline, sleeping, consumed, hit>>
  BY <1>5 DEF Initialize, IsCamera
<1>6. Wake => /\ ready' = TRUE /\ open' \in BOOLEAN /\ active' \in BOOLEAN
              /\ pipeline' \in {"none", "playing", "paused"} /\ sleeping' \in BOOLEAN
              /\ UNCHANGED <<consumed, hit>>
  BY <1>1 DEF Wake, WakeNothing, WakeOpens, WakeOpenFails, WakeResumes,
              WakeResumeFails, Woken, vars, sourceVars
<1>7. Sleep \/ Deactivate =>
        /\ ready' = TRUE /\ open' \in BOOLEAN /\ active' \in BOOLEAN
        /\ pipeline' \in {"none", "playing", "paused"} /\ sleeping' \in BOOLEAN
        /\ consumed' \in BOOLEAN /\ UNCHANGED hit
  BY <1>1 DEF Sleep, SleepNothing, SleepPauses, SleepFails, Rested, Deactivate
<1>8. PollsInVain =>
        /\ ready' = TRUE /\ UNCHANGED <<open, active, pipeline, sleeping>>
        /\ consumed' \in BOOLEAN
        /\ hit' = NoHit \/ hit' = Hit(TRUE, FALSE)
  BY <1>1 DEF PollsInVain, PollInactive, PollNoFrame, PollDetectorFails, PollNoFace,
         PollIncomplete, PollEmptyCrop, PollExtractFails, PollFallsBack,
         PollFallbackFails, Frame, sourceVars
<1>9. PollsResult =>
        /\ ready' = TRUE /\ UNCHANGED <<open, active, pipeline, sleeping>>
        /\ consumed' \in BOOLEAN
        /\ \E m \in BOOLEAN : hit' = Hit(TRUE, m)
  BY <1>1 DEF PollsResult, PollRecognises, Frame
<1>10. \/ \E primaryLoads \in BOOLEAN : Initialize(primaryLoads)
       \/ Wake \/ Sleep \/ Deactivate \/ PollsInVain \/ PollsResult
  BY DEF Next, PollRecognition
<1> QED
  BY <1>1, <1>2, <1>3, <1>4, <1>5, <1>6, <1>7, <1>8, <1>9, <1>10

(* A result of the model in use joins the window, and a match needs that   *)
(* the face has been recognised often enough.                              *)
LEMMA ResultKeepsVotes ==
  InductiveInv /\ PollsResult /\ UNCHANGED source
    => /\ history' \in Seq(Votes) /\ Len(history') <= WindowSize /\ sight' \in 0..MinVotes
       /\ \A i \in DOMAIN history' : history'[i].mode = recMode'
       /\ CountsSight' /\ MatchNeedsSight'
<1> SUFFICES ASSUME InductiveInv, UNCHANGED source,
                    NEW candidate \in 0..Names, NEW similarity \in Similarities \cup {0},
                    PollRecognises(candidate, similarity)
             PROVE  /\ history' \in Seq(Votes) /\ Len(history') <= WindowSize
                    /\ sight' \in 0..MinVotes
                    /\ \A i \in DOMAIN history' : history'[i].mode = recMode'
                    /\ CountsSight' /\ MatchNeedsSight'
  BY DEF PollsResult
<1> DEFINE raw == [candidate |-> candidate, similarity |-> similarity, mode |-> recMode]
<1>1. /\ history \in Seq(Votes) /\ Len(history) \in Nat /\ Len(history) <= WindowSize
      /\ sight \in 0..MinVotes /\ recMode \in Modes
      /\ \A i \in DOMAIN history : history[i].mode = recMode
      /\ CountsSight /\ MatchNeedsSight
  BY DEF InductiveInv, PipeInv, TypeOK, OneModelPerVote
<1>2. MinVotes \in Nat \ {0} /\ WindowSize \in Nat \ {0}
  BY SmoothingAssumption
<1>3. raw \in Votes /\ raw.mode = recMode
  BY <1>1 DEF Votes
<1>4. UNCHANGED recMode
  BY DEF PollRecognises
<1>5. CASE source = "image"
  <2>1. UNCHANGED <<history, sight>>
    BY <1>5 DEF PollRecognises
  <2> QED BY <1>1, <1>4, <1>5, <2>1 DEF CountsSight, MatchNeedsSight
<1>6. CASE source # "image"
  <2> HIDE DEF raw
  <2>1. /\ history' = Push(history, raw)
        /\ hit' = Hit(TRUE, Smoothed(history', Threshold[recMode]) # 0)
        /\ sight' = IF sight < MinVotes THEN sight + 1 ELSE sight
    BY <1>6 DEF PollRecognises, raw
  <2>2. /\ history' \in Seq(Votes)
        /\ Len(history') <= WindowSize /\ Len(history') <= Len(history) + 1
        /\ \A i \in DOMAIN history' :
             history'[i] = raw \/ \E j \in DOMAIN history : history'[i] = history[j]
    BY <1>1, <1>3, <2>1, PushKeepsWindow
  <2>3. Len(history') \in Nat
    BY <2>2
  <2>4. sight' \in 0..MinVotes
    BY <1>1, <1>2, <2>1
  <2>5. Len(history') <= sight' \/ sight' = MinVotes
    BY <1>1, <1>2, <1>6, <2>1, <2>2, <2>3 DEF CountsSight
  <2>6. hit'.matched => Len(history') >= MinVotes
    <3>1. hit'.matched <=> Smoothed(history', Threshold[recMode]) # 0
      BY <2>1 DEF Hit
    <3> QED BY <2>2, <3>1, MatchNeedsVotes
  <2>7. hit'.matched => sight' = MinVotes
    BY <1>2, <2>3, <2>4, <2>5, <2>6
  <2>8. \A i \in DOMAIN history' : history'[i].mode = recMode'
    BY <1>1, <1>3, <1>4, <2>2
  <2> QED BY <2>2, <2>4, <2>5, <2>7, <2>8 DEF CountsSight, MatchNeedsSight
<1> QED
  BY <1>5, <1>6

(* Every call keeps the invariant. *)
LEMMA StepPipe == InductiveInv /\ [Next]_vars => InductiveInv'
<1> SUFFICES ASSUME InductiveInv, [Next]_vars PROVE InductiveInv'
  OBVIOUS
<1>1. CASE UNCHANGED vars
  BY <1>1 DEF vars, sourceVars, recVars, InductiveInv, PipeInv, TypeOK, FlagsAgree,
              IsCamera, OneModelPerVote, FallbackInTime, Untouched, CountsSight,
              MatchNeedsSight
<1>2. CASE Next
  <2>1. UNCHANGED source /\ FlagsAgree'
    BY <1>2, StepKeepsFlags DEF Next, InductiveInv, PipeInv
  <2>2. /\ recVars' \in ({"none"} \cup Modes) \X Modes \X BOOLEAN \X (0..ErrorLimit)
        /\ extractor' \in {"none", recMode'}
        /\ FallbackInTime'
    BY <1>2, StepKeepsModel
  <2>3. /\ source' \in Sources /\ closes' \in BOOLEAN /\ ready' = TRUE
        /\ open' \in BOOLEAN /\ active' \in BOOLEAN
        /\ pipeline' \in {"none", "playing", "paused"}
        /\ sleeping' \in BOOLEAN /\ consumed' \in BOOLEAN
        /\ hit' \in [detected : BOOLEAN, matched : BOOLEAN]
    BY <1>2, StepKeepsSource
  <2>4. /\ history' \in Seq(Votes) /\ Len(history') <= WindowSize /\ sight' \in 0..MinVotes
        /\ OneModelPerVote' /\ CountsSight' /\ MatchNeedsSight'
    <3>1. CASE Wake \/ Sleep \/ Deactivate \/ PollsInVain
      BY <2>1, <2>2, <3>1, InVainKeepsVotes, KeepsVotesKeepsInv
    <3>2. CASE PollsResult
      BY <2>1, <2>2, <3>2, ResultKeepsVotes DEF OneModelPerVote
    <3>3. ASSUME NEW primaryLoads \in BOOLEAN, Initialize(primaryLoads)
          PROVE  /\ history' \in Seq(Votes) /\ Len(history') <= WindowSize
                 /\ sight' \in 0..MinVotes
                 /\ OneModelPerVote' /\ CountsSight' /\ MatchNeedsSight'
      <4>1. history' = <<>> /\ UNCHANGED <<history, sight, hit>>
        BY <3>3, InVainKeepsVotes
      <4>2. DOMAIN history' = {}
        BY <4>1
      <4> QED
        BY <2>1, <2>2, <4>1, <4>2
           DEF InductiveInv, PipeInv, TypeOK, OneModelPerVote, CountsSight, MatchNeedsSight
    <3> QED BY <1>2, <3>1, <3>2, <3>3 DEF Next, PollRecognition
  <2>5. TypeOK'
    BY <2>2, <2>3, <2>4 DEF TypeOK, recVars
  <2> QED
    BY <2>1, <2>2, <2>3, <2>4, <2>5 DEF InductiveInv, PipeInv, Untouched
<1> QED
  BY <1>1, <1>2

(* The inductive invariant holds in every state. *)
THEOREM PipeSafe == Spec => []InductiveInv
BY InitPipe, StepPipe, PTL DEF Spec

(* The pipe's types, the agreement of its flags with the source's, one     *)
(* model per vote and the fallback in time (PipeInv).                      *)
THEOREM PipeInvHolds == Spec => []PipeInv
BY PipeSafe, PTL DEF InductiveInv

(* A match needs MinVotes recognised faces in sight (MatchNeedsSight).     *)
THEOREM MatchesAreSeen == Spec => []MatchNeedsSight
BY PipeSafe, PTL DEF InductiveInv

(* The frame is given the one name nobody beats, or none                   *)
(* (ApplyTemporalSmoothing), however many are enrolled and however long    *)
(* the window is.                                                          *)
THEOREM VoteIsRight == Spec => []GivesBestSupported
<1>1. InductiveInv => GivesBestSupported
  BY BestIsAccepted DEF InductiveInv, PipeInv
<1> QED
  BY <1>1, PipeSafe, PTL

-----------------------------------------------------------------------------
(* Every call of the pipe is a step of the camera's life, or none.         *)
LEMMA StepIsCameraStep ==
  FlagsAgree /\ TypeOK /\ [Next]_vars
    => [Camera!Next]_<<closes, pipeline # "none", IsCamera /\ active>>
<1> DEFINE held == pipeline # "none"
           used == IsCamera /\ active
           Same == UNCHANGED <<closes, held, used>>
<1> SUFFICES ASSUME FlagsAgree, TypeOK, [Next]_vars
             PROVE  Camera!Next \/ Same
  OBVIOUS
<1> USE DEF IsCamera
<1>1. CASE UNCHANGED vars
  BY <1>1 DEF vars, sourceVars
<1>2. CASE Next
  <2> USE DEF Camera!Next
  <2>1. UNCHANGED <<source, closes>>
    BY <1>2 DEF Next
  <2>2. active \in BOOLEAN /\ open \in BOOLEAN
    BY DEF TypeOK
  <2>3. IsCamera => (open <=> held) /\ (active => open) /\ (sleeping => open)
    BY DEF FlagsAgree
  <2>4. ASSUME NEW primaryLoads \in BOOLEAN, Initialize(primaryLoads)
        PROVE  Camera!Next \/ Same
    <3>1. pipeline' = pipeline /\ ready = FALSE /\ active' = ~IsCamera
      BY <2>4 DEF Initialize, TypeOK
    <3>2. ~used'
      BY <2>1, <3>1
    <3>3. CASE used
      BY <2>1, <2>3, <3>1, <3>2, <3>3 DEF Camera!Rest
    <3>4. CASE ~used
      BY <2>1, <3>1, <3>2, <3>4
    <3> QED BY <3>3, <3>4
  <2>5. CASE WakeNothing
    BY <2>5 DEF WakeNothing, vars, sourceVars
  <2>6. CASE WakeOpens
    BY <2>1, <2>3, <2>6 DEF WakeOpens, Woken, Camera!Open
  <2>7. CASE WakeOpenFails
    BY <2>1, <2>3, <2>7 DEF WakeOpenFails
  <2>8. CASE WakeResumes
    BY <2>1, <2>3, <2>8 DEF WakeResumes, Woken, Camera!Resume
  <2>9. CASE WakeResumeFails
    BY <2>1, <2>3, <2>9 DEF WakeResumeFails
  <2>10. CASE Sleep
    <3>1. ~active' /\ (held' <=> held)
      BY <2>1, <2>3, <2>10
         DEF Sleep, SleepNothing, SleepPauses, SleepFails, SourceSleeps, Rested
    <3>2. CASE used
      BY <2>1, <2>3, <3>1, <3>2 DEF Camera!Rest
    <3>3. CASE ~used
      BY <2>1, <3>1, <3>3
    <3> QED BY <3>2, <3>3
  <2>11. CASE Deactivate
    BY <2>1, <2>11 DEF Deactivate, Camera!Close
  <2>12. CASE PollRecognition
    <3>1. UNCHANGED <<pipeline, active>>
      BY <2>12 DEF PollRecognition, PollsInVain, PollInactive, PollNoFrame,
             PollDetectorFails, PollNoFace, PollIncomplete, PollEmptyCrop,
             PollExtractFails, PollFallsBack, PollFallbackFails, PollsResult,
             PollRecognises, Frame, sourceVars
    <3> QED BY <2>1, <3>1
  <2> QED
    BY <1>2, <2>4, <2>5, <2>6, <2>7, <2>8, <2>9, <2>10, <2>11, <2>12
       DEF Next, Wake
<1> QED
  BY <1>1, <1>2

(* The camera is opened once, kept through every sleep and resumed: the    *)
(* pipe implements the life of a camera.                                   *)
THEOREM KeepsItsCamera == Spec => ImplementsCameraLife
<1>1. Init => Camera!Init
  BY DEF Init, Camera!Init
<1>2. InductiveInv /\ [Next]_vars
        => [Camera!Next]_<<closes, pipeline # "none", IsCamera /\ active>>
  BY StepIsCameraStep DEF InductiveInv, PipeInv
<1> QED
  BY <1>1, <1>2, PipeSafe, PTL DEF Spec, ImplementsCameraLife, Camera!Spec
=============================================================================
