----------------------------- MODULE KeyDriver -----------------------------
(***************************************************************************)
(* The keypad of the kernel module (key.c): the driver's own password, its *)
(* input buffer, and the A B C D sequence that lets the user change the    *)
(* password.  KEY_IOCTL_SCAN processes the key that is down,               *)
(* KEY_IOCTL_CLEAR empties the buffer, KEY_IOCTL_GET_KEY touches nothing.  *)
(***************************************************************************)
EXTENDS Naturals, Sequences, SequencesExt

CONSTANTS
  Digits,         \* the digit keys
  FirstPassword   \* correct_password as compiled in

Letters == {"A", "B", "C", "D"}

ASSUME DriverAssumption ==
  /\ Digits \cap (Letters \cup {"*", "#"}) = {}
  /\ FirstPassword \in Seq(Digits) /\ FirstPassword # <<>>

Keys == Digits \cup Letters \cup {"*", "#"}

ResetSequence  == <<"A", "B", "C", "D">>
PasswordLength == Len(FirstPassword)

(* The driver's static variables.  progress is reset_index, changing is    *)
(* change_password_mode, led is what the keypad last asked of the LED.     *)
Fresh == [password |-> FirstPassword, buffer |-> <<>>, progress |-> 0,
          changing |-> FALSE, led |-> FALSE]

-----------------------------------------------------------------------------
(* key_process_input, by the kind of key.                                  *)

ClearInput(k) == [k EXCEPT !.buffer = <<>>]

(* Mutant: a wrong letter is never the first of a new try. *)
AfterLetterStrict(k, key) ==
  IF key # ResetSequence[k.progress + 1]
  THEN [k EXCEPT !.progress = 0]
  ELSE IF k.progress + 1 = Len(ResetSequence)
  THEN ClearInput([k EXCEPT !.changing = TRUE, !.progress = 0, !.led = FALSE])
  ELSE [k EXCEPT !.progress = @ + 1]

(* A letter moves the sequence on; a wrong one may still be its first.     *)
AfterLetter(k, key) ==
  IF key # ResetSequence[k.progress + 1]
  THEN [k EXCEPT !.progress = IF key = ResetSequence[1] THEN 1 ELSE 0]
  ELSE IF k.progress + 1 = Len(ResetSequence)
  THEN ClearInput([k EXCEPT !.changing = TRUE, !.progress = 0, !.led = FALSE])
  ELSE [k EXCEPT !.progress = @ + 1]

Full(k) == Len(k.buffer) = PasswordLength

(* The new password needs its full length, a shorter one has to be typed   *)
(* again.  Outside the mode an empty buffer is confirmed without effect.   *)
AfterConfirm(k) ==
  ClearInput(
    CASE k.changing /\ Full(k) ->
           [k EXCEPT !.password = k.buffer, !.changing = FALSE]
      [] ~k.changing /\ k.buffer # <<>> ->
           [k EXCEPT !.led = Full(k) /\ k.buffer = k.password]
      [] OTHER -> k)

AfterDelete(k) == [k EXCEPT !.buffer = IF @ = <<>> THEN @ ELSE Front(@)]

AfterDigit(k, key) ==
  IF Full(k) THEN k ELSE [k EXCEPT !.buffer = Append(@, key)]

Processed(k, key) ==
  LET interrupted == [k EXCEPT !.progress = 0]
  IN  CASE key \in Letters -> AfterLetter(k, key)
        [] key = "#"       -> AfterConfirm(interrupted)
        [] key = "*"       -> AfterDelete(interrupted)
        [] OTHER           -> AfterDigit(interrupted, key)

-----------------------------------------------------------------------------
VARIABLES
  driver,   \* the static variables of key.c
  typed     \* the last four keys processed, the oldest first

vars == <<driver, typed>>

(* The type invariant: no index ever leaves its array. *)
TypeOK ==
  /\ driver.password \in Seq(Digits) /\ Full([buffer |-> driver.password])
  /\ driver.buffer \in Seq(Digits) /\ Len(driver.buffer) <= PasswordLength
  /\ driver.progress \in 0..Len(ResetSequence) - 1
  /\ driver.changing \in BOOLEAN /\ driver.led \in BOOLEAN

Init == driver = Fresh /\ typed = <<>>

Remember(keys, key) ==
  LET longer == Append(keys, key)
  IN  IF Len(longer) > Len(ResetSequence) THEN Tail(longer) ELSE longer

Scan(key) ==
  /\ driver' = Processed(driver, key)
  /\ typed' = Remember(typed, key)

(* It does not interrupt the sequence. *)
Clear == driver' = ClearInput(driver) /\ UNCHANGED typed

Next == (\E key \in Keys : Scan(key)) \/ Clear

Spec == Init /\ [][Next]_vars

-----------------------------------------------------------------------------
(* reset_index is the length of the longest part of the sequence that the  *)
(* keys just typed end with, whatever came before them and however often   *)
(* the sequence was started over.                                          *)
ProgressIsExact ==
  driver.progress =
    IF typed = ResetSequence THEN 0
    ELSE CHOOSE n \in 0..3 :
           /\ IsSuffix(SubSeq(ResetSequence, 1, n), typed)
           /\ \A m \in n+1..3 : ~IsSuffix(SubSeq(ResetSequence, 1, m), typed)

(* The password changes only when a full new one is confirmed, and only    *)
(* after the four letters in a row; every four letters in a row let the    *)
(* user change it.                                                         *)
SequenceOpensChange ==
  [][/\ driver'.password # driver.password => driver.changing
     /\ driver'.changing # driver.changing =>
          IF driver'.changing THEN typed' = ResetSequence
                              ELSE driver'.password = driver.buffer
     /\ typed' # typed /\ typed' = ResetSequence => driver'.changing]_vars
=============================================================================
