------------------------------ MODULE MCDevice ------------------------------
(* Two processes on a keypad of two rows and two columns, and two tasks on *)
(* a screen of two lines.                                                  *)
EXTENDS Device, TLC

MCKeyMap ==
  [key \in Keys |-> << <<Digit, 1>>, <<Star, Hash>> >>[key[1]][key[2]]]

Same == Permutations(Scanners)
=============================================================================
