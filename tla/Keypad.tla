------------------------------- MODULE Keypad -------------------------------
(***************************************************************************)
(* The loop's password buffer (HandlePasswordKey in app/ctl).  A key press *)
(* edits the buffer; the confirm key compares it with the password and     *)
(* always empties it.                                                      *)
(***************************************************************************)
EXTENDS Naturals, Sequences

CONSTANTS
  Digits,    \* the digit keys
  Password   \* kPassword, a sequence of digits

ASSUME DigitsAssumption ==
  /\ Digits \cap {"*", "#", "letter", "none"} = {}
  /\ Digits # {}
ASSUME PasswordAssumption == Password \in Seq(Digits) /\ Password # <<>>

(* "letter" stands for A..D, "none" for the 0 that PollKey returns when no *)
(* key is down.                                                            *)
Keys == Digits \cup {"*", "#", "letter", "none"}

Buffers == {b \in Seq(Digits) : Len(b) <= Len(Password)}

(* Mutant: a full buffer takes one more digit. *)
AfterKeyOverfull(buffer, key) ==
  CASE key \in Digits /\ Len(buffer) <= Len(Password) -> Append(buffer, key)
    [] key = "*" /\ buffer # <<>> -> SubSeq(buffer, 1, Len(buffer) - 1)
    [] key = "#"                  -> <<>>
    [] OTHER                      -> buffer

AfterKey(buffer, key) ==
  CASE key \in Digits /\ Len(buffer) < Len(Password) -> Append(buffer, key)
    [] key = "*" /\ buffer # <<>> -> SubSeq(buffer, 1, Len(buffer) - 1)
    [] key = "#"                  -> <<>>
    [] OTHER                      -> buffer

(* Mutant: the comparison stops at the end of the input. *)
ConfirmsPrefix(buffer, key) ==
  key = "#" /\ buffer # <<>> /\ buffer = SubSeq(Password, 1, Len(buffer))

Confirms(buffer, key) == key = "#" /\ buffer = Password
=============================================================================
