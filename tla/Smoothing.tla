----------------------------- MODULE Smoothing -----------------------------
(***************************************************************************)
(* Temporal smoothing of recognition results (ApplyTemporalSmoothing in    *)
(* face/pipe): a vote over the last few frames.  Names are 1..Names in the *)
(* order of the code's std::map, 0 is "unknown"; a similarity is an        *)
(* integer, and averages are compared by cross-multiplication.             *)
(***************************************************************************)
EXTENDS Integers, Sequences

CONSTANTS
  Names,       \* how many people are enrolled
  WindowSize,  \* TemporalSmoothingConfig::window_size
  MinVotes     \* TemporalSmoothingConfig::minimum_votes

ASSUME SmoothingAssumption ==
  /\ Names \in Nat
  /\ WindowSize \in Nat \ {0}
  /\ MinVotes \in Nat \ {0}

(* A result, as the vote sees it, has a candidate, which is the best match *)
(* even when it is below the threshold, and a similarity.                  *)

(* push_back, then pop_front down to the window. *)
Push(history, result) ==
  LET longer == Append(history, result)
  IN  IF Len(longer) > WindowSize THEN Tail(longer) ELSE longer

NoVotes == [votes |-> 0, total |-> 0]

(* How many results have the candidate, and the sum of what they have: the *)
(* loop over the history, and what it has found after i results.           *)
Tallies(name, history) ==
  LET tally[i \in 0..Len(history)] ==
        IF i = 0 THEN NoVotes
        ELSE IF history[i].candidate = name
        THEN [votes |-> tally[i - 1].votes + 1,
              total |-> tally[i - 1].total + history[i].similarity]
        ELSE tally[i - 1]
  IN  tally

Tally(name, history) == Tallies(name, history)[Len(history)]

NoCandidate == [name |-> 0, votes |-> 0, total |-> 0]

Candidate(name, tally) ==
  [name |-> name, votes |-> tally.votes, total |-> tally.total]

(* Mutant: a later name wins a tie. *)
BetterOrSame(best, name, history) ==
  LET tally == Tally(name, history)
  IN  IF \/ tally.votes > best.votes
         \/ tally.votes > 0 /\ tally.votes = best.votes
            /\ tally.total * best.votes >= best.total * tally.votes
      THEN Candidate(name, tally) ELSE best

(* A step of the scan: more votes win, then the higher average. *)
Better(best, name, history) ==
  LET tally == Tally(name, history)
  IN  IF \/ tally.votes > best.votes
         \/ tally.votes > 0 /\ tally.votes = best.votes
            /\ tally.total * best.votes > best.total * tally.votes
      THEN Candidate(name, tally) ELSE best

(* The scan over the map, in the order of the names, and what it has found *)
(* after the first n.                                                      *)
BestOfFirst(history) ==
  LET best[n \in 0..Names] ==
        IF n = 0 THEN NoCandidate ELSE Better(best[n - 1], n, history)
  IN  best

BestCandidate(history) == BestOfFirst(history)[Names]

(* Mutant: one vote more than the minimum is asked for. *)
SmoothedStrictly(history, threshold) ==
  LET best == BestCandidate(history)
  IN  IF best.votes > MinVotes /\ best.total >= threshold * best.votes
      THEN best.name ELSE 0

(* The name the frame is given, 0 when it stays unknown. *)
Smoothed(history, threshold) ==
  LET best == BestCandidate(history)
  IN  IF best.votes >= MinVotes /\ best.total >= threshold * best.votes
      THEN best.name ELSE 0
=============================================================================
