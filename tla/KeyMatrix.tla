----------------------------- MODULE KeyMatrix -----------------------------
(***************************************************************************)
(* The keypad of the kernel module as two processes use it at once: ioctl  *)
(* takes no lock, so one process may be in the middle of key_scan_debug,   *)
(* driving the rows one after the other, or of key_process_input, between  *)
(* a look at an index and the use of it, while the other does the same     *)
(* (KeyDriver has key_process_input as one process sees it).  An index is  *)
(* loaded once or twice, as the compiler likes.                            *)
(***************************************************************************)
EXTENDS Integers, FiniteSets

CONSTANTS
  Scanners,        \* the processes
  Rows, Cols,      \* KEY_ROWS and KEY_COLS
  KeyMap,          \* key_map: Digit, Star, Hash, or the place of a letter
                   \* in kResetSequence
  PasswordLength,  \* PASSWORD_LENGTH
  SequenceLength,  \* the length of kResetSequence
  Calls,           \* bound: how many calls begin
  Beyond           \* bound: how far past its end the sequence may match

Digit == 0
Star  == -1
Hash  == -2

Keys == (1..Rows) \X (1..Cols)

ASSUME MatrixAssumption ==
  /\ IsFiniteSet(Scanners) /\ Scanners # {}
  /\ Rows \in Nat \ {0} /\ Cols \in Nat \ {0}
  /\ KeyMap \in [Keys -> {Digit, Star, Hash} \cup (1..SequenceLength)]
  /\ PasswordLength \in Nat \ {0} /\ SequenceLength \in Nat \ {0}
  /\ Calls \in Nat /\ Beyond \in Nat

VARIABLES
  down,      \* the keys that are pressed, at most one
  low,       \* the rows that are driven low
  proc,      \* where each process is
  index,     \* input_index
  progress,  \* reset_index
  changing,  \* change_password_mode
  slots,     \* the slots of input_buffer that were ever written
  shared,    \* two processes have been in key_process_input at a time
  called     \* how many calls have begun

padVars    == <<down, low, called>>
inputVars  == <<index, progress, changing, slots, shared>>
matrixVars == <<padVars, proc, inputVars>>

Nothing == <<0, 0>>

Outside == [at |-> "outside", call |-> "get", row |-> 0, i |-> 0,
            got |-> Nothing, first |-> {}, firm |-> FALSE, held |-> {},
            alone |-> TRUE, loaded |-> 0]

MatrixInit ==
  /\ down = {} /\ low = {}
  /\ proc = [p \in Scanners |-> Outside]
  /\ index = 0 /\ progress = 0 /\ changing = FALSE
  /\ slots = {} /\ shared = FALSE
  /\ called = 0

Scanning(p)   == proc[p].at \in {"drive", "read", "again", "raise"}
Processing(p) == proc[p].at \in {"compare", "advance", "test", "put", "delete"}

-----------------------------------------------------------------------------
(* The finger.  History: a scan knows which key was down all the time.     *)

Changes(keys) ==
  /\ down' = keys
  /\ proc' = [p \in Scanners |-> [proc[p] EXCEPT !.held = {}]]
  /\ UNCHANGED <<low, called, inputVars>>

Presses  == down = {} /\ \E key \in Keys : Changes({key})
Releases == down # {} /\ Changes({})

-----------------------------------------------------------------------------
(* key_scan_debug.                                                         *)

Go(p, step) == proc' = [proc EXCEPT ![p] = step]

(* KEY_IOCTL_SCAN; "get" is KEY_IOCTL_GET_KEY and KEY_IOCTL_GET_DEBUG. *)
Call(p, call) ==
  LET others == {q \in Scanners \ {p} : Scanning(q)}
  IN  /\ proc[p] = Outside
      /\ called < Calls /\ called' = called + 1
      /\ proc' = [q \in Scanners |->
           CASE q = p -> [Outside EXCEPT !.at = "drive", !.call = call, !.row = 1,
                            !.i = 1, !.held = down, !.alone = others = {}]
             [] q \in others -> [proc[q] EXCEPT !.alone = FALSE]
             [] OTHER        -> proc[q]]
      /\ UNCHANGED <<down, low, inputVars>>

(* One write per row: the one that is scanned low, the others high. *)
Drive(p) ==
  /\ proc[p].at = "drive"
  /\ low' = IF proc[p].i = proc[p].row THEN low \cup {proc[p].i}
                                      ELSE low \ {proc[p].i}
  /\ Go(p, IF proc[p].i = Rows THEN [proc[p] EXCEPT !.at = "read", !.i = 1]
                               ELSE [proc[p] EXCEPT !.i = @ + 1])
  /\ UNCHANGED <<down, called, inputVars>>

(* A column is low through a pressed key in a row that is driven low. *)
IsLow(col) == \E row \in low : <<row, col>> \in down

(* Mutant: the last row is left out. *)
OnwardShort(step) ==
  IF step.i < Cols            THEN [step EXCEPT !.at = "read", !.i = @ + 1]
  ELSE IF step.row < Rows - 1 THEN [step EXCEPT !.at = "drive", !.row = @ + 1, !.i = 1]
  ELSE [step EXCEPT !.at = "raise", !.i = 1]

(* The next column, the next row, or the end without a key. *)
Onward(step) ==
  IF step.i < Cols        THEN [step EXCEPT !.at = "read", !.i = @ + 1]
  ELSE IF step.row < Rows THEN [step EXCEPT !.at = "drive", !.row = @ + 1, !.i = 1]
  ELSE [step EXCEPT !.at = "raise", !.i = 1]

Read(p) ==
  /\ proc[p].at = "read"
  /\ Go(p, IF IsLow(proc[p].i)
           THEN [proc[p] EXCEPT !.at = "again", !.first = down]
           ELSE Onward(proc[p]))
  /\ UNCHANGED <<padVars, inputVars>>

(* The second look, 10 ms later. *)
ReadAgain(p) ==
  LET key == <<proc[p].row, proc[p].i>>
  IN  /\ proc[p].at = "again"
      /\ Go(p, IF IsLow(proc[p].i)
               THEN [proc[p] EXCEPT !.at = "raise", !.i = 1, !.got = key,
                                    !.firm = key \in proc[p].first \cap down]
               ELSE Onward(proc[p]))
      /\ UNCHANGED <<padVars, inputVars>>

(* All rows high again.  What follows is the call's: KEY_IOCTL_SCAN        *)
(* processes the key, KEY_IOCTL_GET_KEY hands it out.                      *)
Raise(p) ==
  /\ proc[p].at = "raise"
  /\ low' = low \ {proc[p].i}
  /\ Go(p, IF proc[p].i < Rows THEN [proc[p] EXCEPT !.i = @ + 1]
           ELSE IF proc[p].call = "scan" /\ proc[p].got # Nothing
           THEN [Outside EXCEPT !.at = "compare", !.got = proc[p].got]
           ELSE Outside)
  /\ shared' = (shared \/ (proc'[p].at = "compare"
                           /\ \E q \in Scanners \ {p} : Processing(q)))
  /\ UNCHANGED <<down, called, index, progress, changing, slots>>

-----------------------------------------------------------------------------
(* key_process_input.                                                      *)

KeyOf(p) == KeyMap[proc[p].got]
Letter(p) == KeyOf(p) > 0

(* kResetSequence[reset_index]: past the end of the string and its         *)
(* terminator anything may be read.                                        *)
Matches(letter) ==
  IF progress \in SequenceLength + 1 .. SequenceLength + Beyond
  THEN BOOLEAN ELSE {letter = progress + 1}

CompareLetter(p) ==
  /\ proc[p].at = "compare" /\ Letter(p)
  /\ \E match \in Matches(KeyOf(p)) :
       IF match
       THEN /\ Go(p, [proc[p] EXCEPT !.at = "advance", !.loaded = progress])
            /\ UNCHANGED progress
       ELSE /\ progress' = IF KeyOf(p) = 1 THEN 1 ELSE 0
            /\ Go(p, Outside)
  /\ UNCHANGED <<padVars, index, changing, slots, shared>>

(* reset_index++ *)
Advance(p) ==
  /\ proc[p].at = "advance"
  /\ progress' \in {progress + 1, proc[p].loaded + 1}
  /\ Go(p, [proc[p] EXCEPT !.at = "test", !.loaded = progress'])
  /\ UNCHANGED <<padVars, index, changing, slots, shared>>

Complete(p) ==
  /\ proc[p].at = "test"
  /\ \E value \in {progress, proc[p].loaded} :
       IF value = SequenceLength
       THEN changing' = TRUE /\ progress' = 0 /\ index' = 0
       ELSE UNCHANGED <<changing, progress, index>>
  /\ Go(p, Outside)
  /\ UNCHANGED <<padVars, slots, shared>>

(* Mutant: the buffer's terminator counts as room. *)
CompareDigitLate(p) ==
  /\ proc[p].at = "compare" /\ KeyOf(p) = Digit
  /\ progress' = 0
  /\ Go(p, IF index <= PasswordLength
           THEN [proc[p] EXCEPT !.at = "put", !.loaded = index] ELSE Outside)
  /\ UNCHANGED <<padVars, index, changing, slots, shared>>

CompareDigit(p) ==
  /\ proc[p].at = "compare" /\ KeyOf(p) = Digit
  /\ progress' = 0
  /\ Go(p, IF index < PasswordLength
           THEN [proc[p] EXCEPT !.at = "put", !.loaded = index] ELSE Outside)
  /\ UNCHANGED <<padVars, index, changing, slots, shared>>

(* input_buffer[input_index++] = key *)
Put(p) ==
  /\ proc[p].at = "put"
  /\ \E slot \in {index, proc[p].loaded} :
       slots' = slots \cup {slot} /\ index' = slot + 1
  /\ Go(p, Outside)
  /\ UNCHANGED <<padVars, progress, changing, shared>>

CompareDelete(p) ==
  /\ proc[p].at = "compare" /\ KeyOf(p) = Star
  /\ progress' = 0
  /\ Go(p, IF index > 0 THEN [proc[p] EXCEPT !.at = "delete", !.loaded = index]
                        ELSE Outside)
  /\ UNCHANGED <<padVars, index, changing, slots, shared>>

(* input_buffer[--input_index] = 0 *)
Delete(p) ==
  /\ proc[p].at = "delete"
  /\ \E slot \in {index - 1, proc[p].loaded - 1} :
       slots' = slots \cup {slot} /\ index' = slot
  /\ Go(p, Outside)
  /\ UNCHANGED <<padVars, progress, changing, shared>>

Confirm(p) ==
  /\ proc[p].at = "compare" /\ KeyOf(p) = Hash
  /\ progress' = 0
  /\ changing' = (changing /\ index # PasswordLength)
  /\ index' = 0
  /\ Go(p, Outside)
  /\ UNCHANGED <<padVars, slots, shared>>

(* KEY_IOCTL_CLEAR: key_clear_input from outside. *)
Clear(p) ==
  /\ proc[p] = Outside
  /\ called < Calls /\ called' = called + 1
  /\ index' = 0
  /\ shared' = (shared \/ \E q \in Scanners : Processing(q))
  /\ UNCHANGED <<down, low, proc, progress, changing, slots>>

-----------------------------------------------------------------------------
MatrixNext ==
  \/ Presses \/ Releases
  \/ \E p \in Scanners :
       \/ \E call \in {"get", "scan"} : Call(p, call)
       \/ Clear(p)
       \/ Drive(p) \/ Read(p) \/ ReadAgain(p) \/ Raise(p)
       \/ CompareLetter(p) \/ Advance(p) \/ Complete(p)
       \/ CompareDigit(p) \/ Put(p) \/ CompareDelete(p) \/ Delete(p) \/ Confirm(p)

-----------------------------------------------------------------------------
Callers == Cardinality(Scanners)

(* A scan that no other scan overlaps reports a key only if that very key  *)
(* was down at both of its looks, and a key that stays down throughout it  *)
(* is the one that is found.                                               *)
LoneScanIsTrue ==
  \A p \in Scanners :
    proc[p].at = "raise" /\ proc[p].alone =>
      /\ proc[p].got # Nothing => proc[p].firm
      /\ proc[p].held # {} => proc[p].got \in proc[p].held

(* When both of two processes pass a check before one of them moves the    *)
(* index, it leaves its range by one: they write the terminator's slot at  *)
(* worst, and the slot before the buffer.  For three there is no bound: an *)
(* index that one of them has loaded comes back after the other two have   *)
(* passed their checks at a smaller one, over and over.                    *)
IndexStrays ==
  Callers <= 2 =>
    /\ index \in 1 - Callers .. PasswordLength + Callers - 1
    /\ slots \subseteq 1 - Callers .. PasswordLength + Callers - 2

(* Without two processes in key_process_input at a time no index ever      *)
(* leaves its array or the sequence.                                       *)
AloneInRange ==
  ~shared => /\ index \in 0..PasswordLength
             /\ slots \subseteq 0..PasswordLength - 1
             /\ progress \in 0..SequenceLength
=============================================================================
